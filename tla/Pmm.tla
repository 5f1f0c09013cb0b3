-------------------------------- MODULE Pmm --------------------------------
(***************************************************************************)
(* The physical memory manager, kernel/mm/pmm.c: a bitmap of page frames   *)
(* (bit set = occupied) read a group of GRP bits at a time, and a next-fit *)
(* search that keeps its place in pg_lookup_ptr from one call to the next. *)
(*                                                                         *)
(* The boot code runs first (phases "regions" and "reserve" are the two    *)
(* passes of setup_memory, kernel/k_init.c); afterwards pages are          *)
(* allocated and freed.  pmm_alloc_page is modelled one turn of its while  *)
(* loop at a time, so that its termination can be stated.  Nothing else    *)
(* runs in between: the interrupt handlers never call the pmm.             *)
(***************************************************************************)
EXTENDS Integers, FiniteSets

CONSTANTS
  GRP,            \* bits in one bitmap cell: 8 in the code
  BMP_SIZE,       \* cells in the bitmap: PM_BMP_MAX_SIZE
  MaxPg,          \* PG_ALIGN(mem_upper_lim) >> 12
  FreeChunks,     \* <<first page, pages>> of the available memory regions
  BusyChunks,     \* <<first page, pages>> of kernel image and VGA buffer
  MmioPages       \* the pages of APIC and IOAPIC

NULL == 0
Pages == 0 .. (GRP * BMP_SIZE - 1)

Group(p) == p \div GRP
NextGroup(p) == p + (GRP - (p % GRP))

(* The pages whose bits the three masks of MARK_CHUNK_AUX_VAR select.      *)
ChunkPages(start, count) ==
  LET offset == start % GRP
      group_count == (count + offset) \div GRP
      remainder == (count + offset) % GRP
      leading_shifts == IF count + offset < GRP THEN count ELSE GRP - offset
      last_group == (Group(start) + group_count) * GRP
      leading == start .. (start + leading_shifts - 1)
      whole == ((Group(start) + 1) * GRP) .. (last_group - 1)
      trailing == last_group .. (last_group + remainder - 1)
  IN  leading \cup whole \cup (IF count > GRP THEN trailing ELSE {})

ASSUME SizeAssumption ==
  /\ GRP \in Nat \ {0}
  /\ BMP_SIZE \in Nat
  /\ MaxPg \in Nat
  /\ MaxPg <= GRP * BMP_SIZE

ASSUME RegionAssumption ==
  /\ FreeChunks \subseteq Nat \X Nat
  /\ BusyChunks \subseteq Nat \X Nat
  /\ \A c \in FreeChunks : ChunkPages(c[1], c[2]) \subseteq 0 .. (MaxPg - 1)
  /\ \A c \in BusyChunks : ChunkPages(c[1], c[2]) \subseteq Pages
  /\ MmioPages \subseteq Pages

VARIABLES
  occupied,        \* pages whose bit in pm_bitmap is set
  pg_lookup_ptr,   \* where the next search begins
  old_pg_ptr,      \* locals of pmm_alloc_page
  upper_lim,
  good_page_found,
  pc,              \* "regions", "reserve", "idle" or "scan"
  held             \* history: pages handed out or reserved, not given back

vars == <<occupied, pg_lookup_ptr, old_pg_ptr, upper_lim, good_page_found,
          pc, held>>
locals == <<old_pg_ptr, upper_lim, good_page_found>>

(* Seeded fault: the search starts at page 0.                              *)
LOOKUP_START_Zero == 0

LOOKUP_START == 1

(* The state pmm_init leaves: every page occupied, in nobody's hands.      *)
Init ==
  /\ occupied = Pages
  /\ pg_lookup_ptr = LOOKUP_START
  /\ old_pg_ptr = LOOKUP_START
  /\ upper_lim = MaxPg
  /\ good_page_found = NULL
  /\ pc = "regions"
  /\ held = {}

-----------------------------------------------------------------------------
(* Boot: first the available regions are freed, then kernel and VGA pages  *)
(* are taken out again.                                                    *)

(* Seeded fault: the length of a region is rounded up.                     *)
pmm_mark_chunk_free_RoundedUp(start_ppn, page_count) ==
  /\ pc = "regions"
  /\ occupied' = occupied \ ChunkPages(start_ppn, page_count + 1)
  /\ held' = held \ ChunkPages(start_ppn, page_count + 1)
  /\ UNCHANGED <<pg_lookup_ptr, locals, pc>>

pmm_mark_chunk_free(start_ppn, page_count) ==
  /\ pc = "regions"
  /\ occupied' = occupied \ ChunkPages(start_ppn, page_count)
  /\ held' = held \ ChunkPages(start_ppn, page_count)
  /\ UNCHANGED <<pg_lookup_ptr, locals, pc>>

pmm_mark_chunk_occupied(start_ppn, page_count) ==
  /\ pc \in {"regions", "reserve"}
  /\ pc' = "reserve"
  /\ occupied' = occupied \cup ChunkPages(start_ppn, page_count)
  /\ held' = held \cup ChunkPages(start_ppn, page_count)
  /\ UNCHANGED <<pg_lookup_ptr, locals>>

SetupMemoryDone ==
  /\ pc = "reserve"
  /\ pc' = "idle"
  /\ UNCHANGED <<occupied, pg_lookup_ptr, locals, held>>

(* _kernel_post_init takes the pages of APIC and IOAPIC out.               *)
pmm_mark_page_occupied(ppn) ==
  /\ pc = "idle"
  /\ occupied' = occupied \cup {ppn}
  /\ held' = held \cup {ppn}
  /\ UNCHANGED <<pg_lookup_ptr, locals, pc>>

-----------------------------------------------------------------------------
(* pmm_alloc_page.                                                         *)

AllocCall ==
  /\ pc = "idle"
  /\ pc' = "scan"
  /\ good_page_found' = NULL
  /\ old_pg_ptr' = pg_lookup_ptr
  /\ upper_lim' = MaxPg
  /\ UNCHANGED <<occupied, pg_lookup_ptr, held>>

Searching == good_page_found = NULL /\ pg_lookup_ptr < upper_lim

(* chunk == 0xFF *)
GroupFull == \A p \in Pages : Group(p) = Group(pg_lookup_ptr) => p \in occupied

(* What the for loop may stop at: free bits of the group from the pointer. *)
Hits == {p \in Pages \ occupied : /\ Group(p) = Group(pg_lookup_ptr)
                                  /\ p >= pg_lookup_ptr}

(* Seeded fault: the page found is not marked.                             *)
TakePage_Unmarked ==
  /\ pc = "scan" /\ Searching /\ ~GroupFull
  /\ \E p \in Hits :
       /\ \A q \in Hits : p <= q
       /\ pg_lookup_ptr' = p
       /\ good_page_found' = p
       /\ held' = held \cup {p}
  /\ UNCHANGED <<occupied, old_pg_ptr, upper_lim, pc>>

TakePage ==
  /\ pc = "scan" /\ Searching /\ ~GroupFull
  /\ \E p \in Hits :
       /\ \A q \in Hits : p <= q
       /\ occupied' = occupied \cup {p}
       /\ pg_lookup_ptr' = p
       /\ good_page_found' = p
       /\ held' = held \cup {p}
  /\ UNCHANGED <<old_pg_ptr, upper_lim, pc>>

PassGroup ==
  /\ pc = "scan" /\ Searching /\ ~GroupFull
  /\ Hits = {}
  /\ pg_lookup_ptr' = NextGroup(pg_lookup_ptr)
  /\ UNCHANGED <<occupied, locals, pc, held>>

(* Seeded fault: the wrap does not set old_pg_ptr back.                    *)
SkipFullGroup_WrapsAgain ==
  /\ pc = "scan" /\ Searching /\ GroupFull
  /\ LET next == pg_lookup_ptr + GRP
     IN  IF next >= upper_lim /\ old_pg_ptr # LOOKUP_START
         THEN /\ upper_lim' = old_pg_ptr
              /\ pg_lookup_ptr' = LOOKUP_START
         ELSE /\ pg_lookup_ptr' = next
              /\ UNCHANGED upper_lim
  /\ UNCHANGED <<old_pg_ptr, occupied, good_page_found, pc, held>>

SkipFullGroup ==
  /\ pc = "scan" /\ Searching /\ GroupFull
  /\ LET next == pg_lookup_ptr + GRP
     IN  IF next >= upper_lim /\ old_pg_ptr # LOOKUP_START
         THEN /\ upper_lim' = old_pg_ptr
              /\ pg_lookup_ptr' = LOOKUP_START
              /\ old_pg_ptr' = LOOKUP_START
         ELSE /\ pg_lookup_ptr' = next
              /\ UNCHANGED <<upper_lim, old_pg_ptr>>
  /\ UNCHANGED <<occupied, good_page_found, pc, held>>

AllocReturn ==
  /\ pc = "scan" /\ ~Searching
  /\ pc' = "idle"
  /\ UNCHANGED <<occupied, pg_lookup_ptr, locals, held>>

Scan == TakePage \/ PassGroup \/ SkipFullGroup \/ AllocReturn

(* A caller gives back a page it holds.  Page 0 and pages beyond max_pg    *)
(* are refused and stay occupied.                                          *)
FreeAccepted(p) == p # 0 /\ p < MaxPg

(* Seeded fault: page 0 is taken back.                                     *)
pmm_free_page_Zero(p) ==
  /\ pc = "idle"
  /\ p < MaxPg
  /\ occupied' = occupied \ {p}
  /\ held' = held \ {p}
  /\ UNCHANGED <<pg_lookup_ptr, locals, pc>>

pmm_free_page(p) ==
  /\ pc = "idle"
  /\ IF FreeAccepted(p)
     THEN /\ occupied' = occupied \ {p}
          /\ held' = held \ {p}
     ELSE UNCHANGED <<occupied, held>>
  /\ UNCHANGED <<pg_lookup_ptr, locals, pc>>

-----------------------------------------------------------------------------
Next ==
  \/ \E c \in FreeChunks : pmm_mark_chunk_free(c[1], c[2])
  \/ \E c \in BusyChunks : pmm_mark_chunk_occupied(c[1], c[2])
  \/ SetupMemoryDone
  \/ \E p \in MmioPages : pmm_mark_page_occupied(p)
  \/ AllocCall
  \/ TakePage
  \/ PassGroup
  \/ SkipFullGroup
  \/ AllocReturn
  \/ \E p \in held : pmm_free_page(p)

(* The loop of pmm_alloc_page runs on without waiting for anybody.         *)
Spec == Init /\ [][Next]_vars /\ WF_vars(Scan)

-----------------------------------------------------------------------------
(* Types.  The lookup pointer (pmm.c:101) never becomes 0: page 0 would    *)
(* be searched, and found as the NULL of line 120.                         *)
TypeOK ==
  /\ occupied \subseteq Pages
  /\ pg_lookup_ptr \in Nat \ {0}
  /\ old_pg_ptr \in Nat \ {0}
  /\ upper_lim \in Nat
  /\ good_page_found \in Nat
  /\ pc \in {"regions", "reserve", "idle", "scan"}
  /\ held \subseteq Pages

(* A page in somebody's hands keeps its bit set, whatever the order of     *)
(* searches, wraps and frees: the search of pmm.c:124-148 cannot hand it   *)
(* out a second time.                                                      *)
HeldOccupied == held \subseteq occupied

(* What pmm_alloc_page hands out is a page pmm_free_page will take back    *)
(* (pmm.c:157): the for loop runs to the end of its group, beyond max_pg   *)
(* when the memory does not end on a group boundary.                       *)
HandedOutReturnable ==
  good_page_found # NULL => FreeAccepted(good_page_found)

(* Every call of pmm_alloc_page returns: the wrap of pmm.c:142-146 happens *)
(* at most once.                                                           *)
AllocTerminates == pc = "scan" ~> pc = "idle"

(* pmm.c:120-149 implements the page allocator its callers rely on.        *)
Booting == pc \in {"regions", "reserve"}
Abstract == INSTANCE PageAllocator
              WITH Devices <- MmioPages, free <- Pages \ occupied,
                   held <- held, booting <- Booting
ImplementsPageAllocator == Abstract!Spec

(* pmm.h:48: an available page is returned, NULL only otherwise.           *)
AllocComplete ==
  pc = "scan" /\ ~Searching /\ good_page_found = NULL =>
    1 .. (MaxPg - 1) \subseteq occupied

(* Does not hold, and no run claims it.  pmm.c:139: a search that began in *)
(* the middle of memory and found nothing up to the end goes on at the     *)
(* start, and only then gives up.  A partly free group at the end is left  *)
(* without that (pmm.c:129-135).                                           *)
SearchWraps ==
  pc = "scan" /\ ~Searching /\ good_page_found = NULL
    /\ old_pg_ptr \in (LOOKUP_START + 1) .. (MaxPg - 1) =>
    LOOKUP_START .. (old_pg_ptr - 1) \subseteq occupied
=============================================================================
