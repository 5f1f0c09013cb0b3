-------------------------------- MODULE Vmm --------------------------------
(***************************************************************************)
(* The virtual memory manager, kernel/mm/vmm.c: two-level page tables that *)
(* the kernel edits through a recursive slot.  The last entry of the page  *)
(* directory points to the directory itself, so "the table behind entry    *)
(* TOP" is the directory, and a write through it changes the directory.    *)
(*                                                                         *)
(* Page tables are contents of frames (mem); the frame allocator is used   *)
(* through its contract (PageAllocator): a request gets any free frame or  *)
(* is refused.  Attribute bits are left out: every caller sets PRESENT,    *)
(* so an entry is present exactly when it is not PTE_NULL.                 *)
(***************************************************************************)
EXTENDS Integers, FiniteSets

CONSTANTS
  ENTRIES,        \* PG_MAX_ENTRIES: 1024 in the code
  Pool,           \* frames of the physical memory manager
  Vga,            \* device frames below max_pg: pmm_free_page takes them
  Mmio,           \* page 0 and frames above max_pg: pmm_free_page refuses
  DIR,            \* the frame of the page directory
  LOWT,           \* the frame of the identity-mapping page table
  LowMap,         \* what boot maps there: a function on Slots
  AllocVAs,       \* virtual pages the kernel asks memory for, by number
  DevVAs,         \* virtual pages it maps devices at, by number
  ReservedVAs,    \* virtual pages of the reserved regions, by number
  MaxPages,       \* pages in one request of vmm_alloc_pages
  ReadAhead,      \* virtual pages the CPU may read ahead at any moment, by number
  PTE_NULL,       \* an empty entry
  JUNK            \* what a client writes into its page

Slots == 0 .. (ENTRIES - 1)
TOP == ENTRIES - 1
VAs == Slots \X Slots
UserVAs == (0 .. (TOP - 1)) \X Slots
Frames == Pool \cup Vga \cup Mmio

ASSUME VmmAssumption ==
  /\ ENTRIES \in Nat /\ ENTRIES > 1
  /\ MaxPages \in Nat
  /\ Pool \cap (Vga \cup Mmio) = {} /\ Vga \cap Mmio = {}
  /\ DIR # LOWT /\ {DIR, LOWT} \cap Frames = {}
  /\ PTE_NULL \notin Frames \cup {DIR, LOWT}
  /\ LowMap \in [Slots -> Frames \cup {PTE_NULL}]
  /\ \A s, t \in Slots : LowMap[s] = LowMap[t] /\ LowMap[s] \in Pool => s = t
  /\ AllocVAs \cup DevVAs \subseteq 1 .. (ENTRIES * TOP - 1)
  /\ ReservedVAs \subseteq 0 .. (ENTRIES * ENTRIES - 1)

(* The virtual page with number k: directory index and table index.        *)
Slot(k) == <<k \div ENTRIES, k % ENTRIES>>
Num(va) == va[1] * ENTRIES + va[2]
ReadsAhead(va) == Num(va) \in ReadAhead

VARIABLES
  mem,       \* contents of the frames that can be page tables
  free,      \* frames the pmm can hand out
  tlb,       \* translations the CPU has cached
  pc,        \* "idle", "alloc", "undo", "clear", "fault"
  va_,       \* vmm_alloc_pages: number of its first virtual page
  sz,        \* vmm_alloc_pages: number of pages asked for
  i,         \* vmm_alloc_pages: pages mapped
  j,         \* vmm_alloc_pages: pages unmapped by the rollback
  cur,       \* vmm_unmap_page: the page being unmapped
  before     \* history: the address space when vmm_alloc_pages was called

vars == <<mem, free, tlb, pc, va_, sz, i, j, cur, before>>
locals == <<va_, sz, i, j, cur, before>>

(* What the page walk finds for a virtual page.                            *)
Table(va) == mem[DIR][va[1]]
Walk(va) == IF Table(va) = PTE_NULL THEN PTE_NULL ELSE mem[Table(va)][va[2]]
AddressSpace == [va \in UserVAs |-> Walk(va)]

EmptyTable == [s \in Slots |-> PTE_NULL]
NoSpace == [va \in UserVAs |-> PTE_NULL]

(* _init_page (arch/x86/hhk.c): identity map, recursive last entry.  The   *)
(* frames the identity map uses are not in the pool yet.                   *)
Init ==
  /\ mem = [f \in Pool \cup {DIR, LOWT} |->
              IF f = DIR
              THEN [s \in Slots |-> IF s = 0 THEN LOWT
                                    ELSE IF s = TOP THEN DIR ELSE PTE_NULL]
              ELSE IF f = LOWT THEN LowMap
              ELSE [s \in Slots |-> JUNK]]
  /\ free = {f \in Pool : \A s \in Slots : LowMap[s] # f}
  /\ tlb = NoSpace
  /\ pc = "idle"
  /\ va_ = 0 /\ sz = 0 /\ i = 0 /\ j = 0 /\ cur = <<0, 0>>
  /\ before = NoSpace

-----------------------------------------------------------------------------
(* pmm_free_page gives back what it is told to, except page 0 and frames   *)
(* beyond max_pg.                                                          *)
Freed(f) == IF f \in Pool \cup Vga THEN {f} ELSE {}

(* Entry va of the tables m is set to frame pa; a pool frame is then       *)
(* written by whoever asked for it.                                        *)
SetEntry(m, va, pa) ==
  LET written == [m EXCEPT ![m[DIR][va[1]]][va[2]] = pa]
  IN  IF pa \in Pool THEN [written EXCEPT ![pa] = [s \in Slots |-> JUNK]]
      ELSE written

(* Seeded fault: the new page table is not zeroed.                         *)
SetTable_NotZeroed(m, va, t) == [m EXCEPT ![DIR][va[1]] = t]

(* A zeroed frame t becomes the page table of va.                          *)
SetTable(m, va, t) == [m EXCEPT ![DIR][va[1]] = t, ![t] = EmptyTable]

(* Mapping va to pa when the pmm has the frames avail left.                *)
__vmm_map_internal(va, pa, forced, avail, ok) ==
  \/ /\ Table(va) = PTE_NULL              \* no frame for the page table
     /\ ok = FALSE
     /\ free' = avail /\ UNCHANGED mem
  \/ /\ Table(va) = PTE_NULL
     /\ ok = TRUE
     /\ \E t \in avail :
          /\ free' = avail \ {t}
          /\ mem' = SetEntry(SetTable(mem, va, t), va, pa)
  \/ /\ Table(va) # PTE_NULL /\ Walk(va) # PTE_NULL /\ ~forced
     /\ ok = FALSE
     /\ free' = avail /\ UNCHANGED mem
  \/ /\ Table(va) # PTE_NULL /\ (Walk(va) = PTE_NULL \/ forced)
     /\ ok = TRUE
     /\ free' = avail \cup Freed(Walk(va))
     /\ mem' = SetEntry(mem, va, pa)

-----------------------------------------------------------------------------
(* vmm_map_page: the search for a free entry at va or above goes on while  *)
(* the page table is there and the entry is taken.  Only the first table   *)
(* may be missing: entering a missing one reads through an absent page.    *)

Taken(k) == Table(Slot(k)) # PTE_NULL /\ Walk(Slot(k)) # PTE_NULL
SearchStops(k, e) ==
  /\ \A t \in k .. (e - 1) : Taken(t)
  /\ e < ENTRIES * ENTRIES => ~Taken(e)

SearchFaults(k, e) ==
  IF e = ENTRIES * ENTRIES THEN TRUE ELSE e # k /\ Table(Slot(e)) = PTE_NULL

vmm_map_page(k, pa, avail, ok) ==
  \E e \in k .. (ENTRIES * ENTRIES) :
    /\ SearchStops(k, e) /\ ~SearchFaults(k, e)
    /\ __vmm_map_internal(Slot(e), pa, FALSE, avail, ok)

MapFault(k) ==
  /\ \E e \in k .. (ENTRIES * ENTRIES) : SearchStops(k, e) /\ SearchFaults(k, e)
  /\ pc' = "fault"
  /\ UNCHANGED <<mem, free, tlb, locals>>

(* Mapping of a device, as setup_memory does for the VGA buffer.           *)
MapDevice(k, f) ==
  /\ pc = "idle"
  /\ \/ /\ \E ok \in BOOLEAN : vmm_map_page(k, f, free, ok)
        /\ UNCHANGED <<tlb, pc, locals>>
     \/ MapFault(k)

(* Seeded fault: the page table may take the page's own frame.             *)
vmm_alloc_page_FrameTwice(k) ==
  /\ pc = "idle"
  /\ \E pp \in free : vmm_map_page(k, pp, free, TRUE)
  /\ UNCHANGED <<tlb, pc, locals>>

(* vmm_alloc_page: when there is no frame, or none for the page table, all *)
(* is as it was before the call.                                           *)
vmm_alloc_page(k) ==
  /\ pc = "idle"
  /\ \/ /\ \E pp \in free : vmm_map_page(k, pp, free \ {pp}, TRUE)
        /\ UNCHANGED <<tlb, pc, locals>>
     \/ free # {} /\ MapFault(k)

(* Seeded fault: the old translation stays cached.                         *)
vmm_fmap_page_NoInvlpg(k) ==
  /\ pc = "idle"
  /\ Walk(Slot(k)) \notin Vga
  /\ \E pp \in free :
       __vmm_map_internal(Slot(k), pp, TRUE, free \ {pp}, TRUE)
  /\ UNCHANGED <<tlb, pc, locals>>

(* vmm_fmap_page on a page the caller just got from the pmm; when it fails *)
(* the caller gives the page back and nothing has changed.  Like unmapping *)
(* (below) it is not done to a device page.                                *)
vmm_fmap_page(k) ==
  /\ pc = "idle"
  /\ Walk(Slot(k)) \notin Vga
  /\ \E pp \in free :
       /\ __vmm_map_internal(Slot(k), pp, TRUE, free \ {pp}, TRUE)
       /\ tlb' = [tlb EXCEPT ![Slot(k)] = PTE_NULL]
  /\ UNCHANGED <<pc, locals>>

vmm_set_mapping(va, f) ==
  /\ pc = "idle"
  /\ va[1] # TOP
  /\ \E ok \in BOOLEAN : __vmm_map_internal(va, f, FALSE, free, ok)
  /\ UNCHANGED <<tlb, pc, locals>>

-----------------------------------------------------------------------------
(* vmm_unmap_page: the frame is given back and the TLB entry invalidated   *)
(* (first step) before the entry is cleared (second step).                 *)

vmm_unmap_page(va, next) ==
  /\ va[1] # TOP
  /\ Table(va) # PTE_NULL
  /\ free' = free \cup Freed(Walk(va))
  /\ tlb' = [tlb EXCEPT ![va] = PTE_NULL]
  /\ cur' = va
  /\ pc' = next

(* A client unmaps a page; device pages stay mapped for good.              *)
UnmapCall(va) ==
  /\ pc = "idle"
  /\ Walk(va) \notin Vga
  /\ vmm_unmap_page(va, "clear")
  /\ UNCHANGED <<mem, va_, sz, i, j, before>>

(* Seeded faults: the entry is left in place; the rollback does not move   *)
(* on to the next page.                                                    *)
UnmapClear_EntryStays ==
  /\ pc \in {"clear", "undo_clear"}
  /\ pc' = IF pc = "clear" THEN "idle" ELSE "undo"
  /\ j' = IF pc = "clear" THEN j ELSE j + 1
  /\ cur' = <<0, 0>>
  /\ UNCHANGED <<mem, free, tlb, va_, sz, i, before>>
UnmapClear_SamePage ==
  /\ pc \in {"clear", "undo_clear"}
  /\ mem' = [mem EXCEPT ![Table(cur)][cur[2]] = PTE_NULL]
  /\ pc' = IF pc = "clear" THEN "idle" ELSE "undo"
  /\ cur' = <<0, 0>>
  /\ UNCHANGED <<j, free, tlb, va_, sz, i, before>>

UnmapClear ==
  /\ pc \in {"clear", "undo_clear"}
  /\ mem' = [mem EXCEPT ![Table(cur)][cur[2]] = PTE_NULL]
  /\ pc' = IF pc = "clear" THEN "idle" ELSE "undo"
  /\ j' = IF pc = "clear" THEN j ELSE j + 1
  /\ cur' = <<0, 0>>
  /\ UNCHANGED <<free, tlb, va_, sz, i, before>>

-----------------------------------------------------------------------------
(* vmm_alloc_pages, one page at a time.                                    *)

AllocPagesCall(k, n) ==
  /\ pc = "idle"
  /\ pc' = "alloc"
  /\ va_' = k /\ sz' = n
  /\ before' = AddressSpace
  /\ UNCHANGED <<mem, free, tlb, i, j, cur>>

(* Seeded fault: pages in the way are overwritten.                         *)
AllocPagesStep_Forced ==
  /\ pc = "alloc" /\ i < sz
  /\ \/ /\ pc' = "undo"
        /\ UNCHANGED <<mem, free, i>>
     \/ \E pp \in free, ok \in BOOLEAN :
          /\ __vmm_map_internal(Slot(va_ + i), pp, TRUE, free \ {pp}, ok)
          /\ IF ok THEN i' = i + 1 /\ UNCHANGED pc
                   ELSE pc' = "undo" /\ UNCHANGED i
  /\ UNCHANGED <<tlb, va_, sz, j, cur, before>>

AllocPagesStep ==
  /\ pc = "alloc" /\ i < sz
  /\ \/ /\ pc' = "undo"                     \* the pmm has no frame
        /\ UNCHANGED <<mem, free, i>>
     \/ \E pp \in free, ok \in BOOLEAN :
          /\ __vmm_map_internal(Slot(va_ + i), pp, FALSE, free \ {pp}, ok)
          /\ IF ok THEN i' = i + 1 /\ UNCHANGED pc
                   ELSE pc' = "undo" /\ UNCHANGED i
  /\ UNCHANGED <<tlb, va_, sz, j, cur, before>>

RollbackStep ==
  /\ pc = "undo" /\ j < i
  /\ vmm_unmap_page(Slot(va_ + j), "undo_clear")
  /\ UNCHANGED <<mem, va_, sz, i, j, before>>

AllocPagesDone == pc = "alloc" /\ i = sz
AllocPagesFailed == pc = "undo" /\ j = i

AllocPagesReturn ==
  /\ AllocPagesDone \/ AllocPagesFailed
  /\ pc' = "idle"
  /\ va_' = 0 /\ sz' = 0 /\ i' = 0 /\ j' = 0
  /\ before' = NoSpace
  /\ UNCHANGED <<mem, free, tlb, cur>>

-----------------------------------------------------------------------------
(* The CPU uses an address and caches its translation.  Kernel code uses   *)
(* mapped addresses between calls; pages of ReadAhead the processor also   *)
(* reads on its own, in the middle of a call too.                          *)
TlbFill(va) ==
  /\ pc = "idle" \/ (ReadsAhead(va) /\ pc # "fault")
  /\ Walk(va) # PTE_NULL
  /\ tlb[va] = PTE_NULL
  /\ tlb' = [tlb EXCEPT ![va] = Walk(va)]
  /\ UNCHANGED <<mem, free, pc, locals>>

Next ==
  \/ \E k \in DevVAs, f \in Vga \cup Mmio : MapDevice(k, f)
  \/ \E k \in AllocVAs : vmm_alloc_page(k)
  \/ \E k \in AllocVAs : vmm_fmap_page(k)
  \/ \E k \in ReservedVAs, f \in Mmio : vmm_set_mapping(Slot(k), f)
  \/ \E va \in VAs : UnmapCall(va)
  \/ UnmapClear
  \/ \E k \in AllocVAs, n \in 1 .. MaxPages :
       k + n <= ENTRIES * TOP /\ AllocPagesCall(k, n)
  \/ AllocPagesStep
  \/ RollbackStep
  \/ AllocPagesReturn
  \/ \E va \in UserVAs : TlbFill(va)

Running == UnmapClear \/ AllocPagesStep \/ RollbackStep \/ AllocPagesReturn

(* The loops of vmm_alloc_pages run on without waiting for anybody.        *)
Spec == Init /\ [][Next]_vars /\ WF_vars(Running)

-----------------------------------------------------------------------------
Unmapping == pc \in {"clear", "undo_clear"}

(* Page tables in use, and the pages whose translation is in use: the page *)
(* being unmapped is on its way out.                                       *)
Tables == {mem[DIR][s] : s \in Slots \ {TOP}} \ {PTE_NULL}
LiveVAs == {va \in UserVAs : Walk(va) # PTE_NULL /\ ~(Unmapping /\ va = cur)}

(* A frame in use as a page or as a page table is not free: the releases   *)
(* of vmm.c:62, 214, 235, 283 give back frames nothing refers to any more. *)
InUseNotFree ==
  /\ Tables \cap free = {}
  /\ \A va \in LiveVAs : Walk(va) \notin free

(* A pool frame serves one purpose: it backs one virtual page, or is one   *)
(* page table; and the directory stays the page table of the recursive     *)
(* slot, which two of four writers guard (vmm.c:253, 270).                 *)
NoSharedFrames ==
  /\ mem[DIR][TOP] = DIR
  /\ \A s, t \in Slots \ {TOP} :
       mem[DIR][s] = mem[DIR][t] /\ mem[DIR][s] # PTE_NULL => s = t
  /\ \A va \in LiveVAs : Walk(va) \notin Tables
  /\ \A va, w \in LiveVAs : Walk(va) = Walk(w) /\ Walk(va) \in Pool => va = w

(* Between calls no stale translation of a page that is not read ahead is  *)
(* cached (vmm.c:202, 285).  For the others StaleOnlyByUnmap is all that   *)
(* can be said.                                                            *)
TlbCoherent ==
  pc = "idle" =>
    \A va \in UserVAs : ~ReadsAhead(va) => tlb[va] \in {Walk(va), PTE_NULL}

(* A translation goes stale in one way only, whatever is read ahead: the   *)
(* processor caches the page that vmm_unmap_page is unmapping between the  *)
(* invalidation and the store that should come first (vmm.c:285-286).      *)
StaleOnlyByUnmap ==
  [][\A va \in UserVAs :
       tlb[va] \in {Walk(va), PTE_NULL} /\ tlb'[va] \notin {Walk(va)', PTE_NULL}
         => ReadsAhead(va) /\ Unmapping /\ va = cur]_vars

(* vmm_alloc_pages (vmm.c:219-243) maps all pages asked for and nothing    *)
(* else, or leaves the address space as it was.                            *)
AllOrNothing ==
  /\ AllocPagesFailed => AddressSpace = before
  /\ AllocPagesDone =>
       \A va \in UserVAs :
         IF Num(va) \in va_ .. (va_ + sz - 1)
         THEN before[va] = PTE_NULL /\ Walk(va) \in Pool
         ELSE Walk(va) = before[va]

(* A step changes the translation of one virtual page at most: a new page  *)
(* table brings no old contents into the address space (vmm.c:53), and a   *)
(* write through the recursive slot hits one entry.                        *)
OnePageAtATime ==
  [][\A va, w \in UserVAs :
       Walk(va)' # Walk(va) /\ Walk(w)' # Walk(w) => va = w]_vars

(* The loops of vmm_alloc_pages end, successful or not.                    *)
CallsReturn == pc \notin {"idle", "fault"} ~> pc = "idle"

(* Does not hold, and no run claims it.  vmm.c:232: "if one failed,        *)
(* release previous allocated pages": no frame is lost, each one is free   *)
(* or in use.  When __vmm_map_internal refuses, the frame taken in this    *)
(* turn (vmm.c:227) is in no table, and the rollback passes it by.         *)
NoLeak ==
  pc = "idle" => Pool \subseteq free \cup Tables \cup {Walk(va) : va \in UserVAs}
=============================================================================
