------------------------------- MODULE Kalloc -------------------------------
(***************************************************************************)
(* The kernel heap, kernel/mm/kalloc.c on kernel/mm/dmm.c: chunks with a   *)
(* header word, found first-fit by walking the headers, split on           *)
(* allocation, merged with their neighbours on release through footers,    *)
(* and grown page by page at the end.                                      *)
(*                                                                         *)
(* The unit is the 4-byte word (WSIZE = BOUNDARY = 4): a pointer is a word *)
(* index from the start of the heap and a size counts words.  A header     *)
(* word is a record: chunk size, M_ALLOCATED, M_PREV_FREE.                 *)
(*                                                                         *)
(* lxmalloc's walk is one step per header.  With IsrFrees the timer        *)
(* interrupt, which calls lxfree (kernel/timer.c:175), may come between    *)
(* two of its steps.                                                       *)
(***************************************************************************)
EXTENDS Integers, FiniteSets

CONSTANTS
  PGW,            \* words in a page: 1024 in the code
  HEAP_INIT,      \* first growth, HEAP_INIT_SIZE: a page
  MaxAddr,        \* max_addr, K_STACK_START
  Requests,       \* chunk sizes lxmalloc computes, header included
  IsrFrees

ASSUME KallocAssumption ==
  /\ PGW \in Nat /\ PGW > 1
  /\ HEAP_INIT \in Nat \ {0}
  /\ MaxAddr \in Nat /\ MaxAddr > 1
  /\ Requests \subseteq Nat \ {0}
  /\ IsrFrees \in BOOLEAN

Words == 0 .. (MaxAddr - 1)
Page(p) == p \div PGW

VARIABLES
  mem,       \* the heap's words
  brk,       \* heap->brk: the epilogue marker
  mapped,    \* pages of the heap's address range that are mapped
  pc,        \* "start", "init", "idle", "scan", "grow", "panic" or "fault"
  ptr,       \* lx_malloc_internal: the header looked at
  size,      \* lx_malloc_internal: the chunk size wanted
  live,      \* history: blocks in use
  heads      \* history: the words that are chunk headers

vars == <<mem, brk, mapped, pc, ptr, size, live, heads>>

PACK(s, a, pf) == [s |-> s, a |-> a, pf |-> pf]
JUNK == PACK(0, FALSE, FALSE)       \* what a client leaves in its block

SW(m, p, w) == [m EXCEPT ![p] = w]

(* Before kalloc_init: brk, which dmm_init sets to the start, is there.    *)
Init ==
  /\ mem = [p \in Words |-> JUNK]
  /\ brk = 0
  /\ mapped = {}
  /\ pc = "start"
  /\ ptr = 0 /\ size = 0
  /\ live = {}
  /\ heads = {}

-----------------------------------------------------------------------------
(* coalesce: where the merged chunk begins, the chunk's size, the memory.  *)
NEXT_CHK(m, c) == c + m[c].s
PrevFree(m, c) == m[c].pf
NextFree(m, c) == ~m[NEXT_CHK(m, c)].a

Merged(m, c) == IF PrevFree(m, c) THEN c - m[c - 1].s ELSE c

(* Seeded fault: the next chunk is merged whether it is free or not.       *)
coalesce_TakesNext(m, c) ==
  LET start == Merged(m, c)
      end == NEXT_CHK(m, c) + m[NEXT_CHK(m, c)].s
      new_hdr == PACK(end - start, FALSE, FALSE)
  IN  SW(SW(m, start, new_hdr), end - 1, new_hdr)

coalesce(m, c) ==
  LET start == Merged(m, c)
      pf == IF PrevFree(m, c) THEN m[c - 1].pf ELSE FALSE
      end == IF NextFree(m, c) THEN NEXT_CHK(m, c) + m[NEXT_CHK(m, c)].s
                               ELSE NEXT_CHK(m, c)
      new_hdr == PACK(end - start, FALSE, pf)
  IN  IF PrevFree(m, c) \/ NextFree(m, c)
      THEN SW(SW(m, start, new_hdr), end - 1, new_hdr)
      ELSE m

MergedHeads(m, c, hs) ==
  hs \ ((IF PrevFree(m, c) THEN {c} ELSE {})
        \cup (IF NextFree(m, c) THEN {NEXT_CHK(m, c)} ELSE {}))

(* Seeded fault: the chunk after an exact fit still takes its predecessor  *)
(* for free.                                                               *)
Split_FlagStays(m, p, sz) ==
  LET diff == m[p].s - sz
      remainder_hdr == PACK(diff, FALSE, FALSE)
      taken == SW(m, p, PACK(sz, TRUE, m[p].pf))
      next == p + sz
  IN  IF diff = 0 THEN taken
      ELSE SW(SW(taken, next, remainder_hdr), next + diff - 1, remainder_hdr)

(* place_chunk: the memory and the headers after it.                       *)
Split(m, p, sz) ==
  LET diff == m[p].s - sz
      remainder_hdr == PACK(diff, FALSE, FALSE)
      taken == SW(m, p, PACK(sz, TRUE, m[p].pf))
      next == p + sz
  IN  IF diff = 0 THEN SW(taken, next, [taken[next] EXCEPT !.pf = FALSE])
      ELSE SW(SW(taken, next, remainder_hdr), next + diff - 1, remainder_hdr)

place_chunk(m, p, sz) ==
  IF m[p].s = sz THEN Split(m, p, sz) ELSE coalesce(Split(m, p, sz), p + sz)

PlacedHeads(m, p, sz, hs) ==
  IF m[p].s = sz THEN hs
  ELSE MergedHeads(Split(m, p, sz), p + sz, hs \cup {p + sz})

(* The caller gets the block behind the header and writes all over it.     *)
Block(p, sz) == [at |-> p + 1, len |-> sz - 1]
Scribble(m, b) == [q \in Words |-> IF q \in b.at .. (b.at + b.len - 1)
                                   THEN JUNK ELSE m[q]]

HandOut(m, p, sz, hs) ==
  /\ mem' = Scribble(place_chunk(m, p, sz), Block(p, sz))
  /\ heads' = PlacedHeads(m, p, sz, hs)
  /\ live' = live \cup {Block(p, sz)}

-----------------------------------------------------------------------------
(* Seeded fault: pages are counted by size, not by the pages it touches.   *)
NewPages_BySize(sz) == (Page(brk) + 1) .. (Page(brk) + ((sz + 1) \div PGW))

(* lxbrk for sz words and the epilogue.  vmm_alloc_pages (Vmm) maps all    *)
(* pages or none, and refuses when one is mapped or there is no frame.     *)
NewPages(sz) == (Page(brk) + 1) .. Page(brk + sz + 1)
lxbrk_fits(sz) == brk + sz + 1 < MaxAddr
lxbrk(sz) ==
  /\ lxbrk_fits(sz)
  /\ NewPages(sz) \cap mapped = {}
  /\ mapped' = mapped \cup NewPages(sz)
  /\ brk' = brk + sz          \* + WSIZE by lxbrk, - WSIZE by lx_grow_heap

(* Seeded fault: no new epilogue.                                          *)
Grown_NoEpilogue(sz) ==
  LET free_hdr == PACK(sz, FALSE, mem[brk].pf)
  IN  SW(SW(mem, brk, free_hdr), brk + sz - 1, free_hdr)

(* lx_grow_heap: the old epilogue becomes the header of a free chunk.      *)
Grown(sz) ==
  LET free_hdr == PACK(sz, FALSE, mem[brk].pf)
  IN  SW(SW(SW(mem, brk, free_hdr), brk + sz - 1, free_hdr),
         brk + sz, PACK(0, TRUE, TRUE))
GrownHeads(sz) == MergedHeads(Grown(sz), brk, heads \cup {brk})

lxbrk_fails(sz) == ~lxbrk_fits(sz) \/ NewPages(sz) # {}

(* The caller asserts that kalloc_init succeeds (k_init.c:233), which      *)
(* stops a debug build only.                                               *)
InitFails ==
  /\ pc' \in {"panic", "idle"} /\ size' = 0
  /\ UNCHANGED <<mem, heads, brk, mapped>>

(* kalloc_init up to its first growth: a page, prologue and epilogue.  It  *)
(* returns when dmm_init gets no page.                                     *)
kalloc_init ==
  /\ pc = "start"
  /\ \/ /\ mapped' = {0}
        /\ mem' = SW(SW(mem, 0, PACK(1, TRUE, FALSE)), 1, PACK(0, TRUE, FALSE))
        /\ heads' = {0}
        /\ brk' = 1
        /\ pc' = "init" /\ size' = HEAP_INIT
     \/ InitFails
  /\ UNCHANGED <<ptr, live>>

FirstGrowth ==
  /\ pc = "init"
  /\ \/ /\ lxbrk(size)
        /\ mem' = coalesce(Grown(size), brk)
        /\ heads' = GrownHeads(size)
        /\ pc' = "idle" /\ size' = 0
     \/ lxbrk_fails(size) /\ InitFails
  /\ UNCHANGED <<ptr, live>>

-----------------------------------------------------------------------------
lxmalloc(sz) ==
  /\ pc = "idle"
  /\ pc' = "scan" /\ ptr' = 0 /\ size' = sz
  /\ UNCHANGED <<mem, brk, mapped, live, heads>>

(* Seeded fault: a chunk is taken without regard to its being in use.      *)
Fits_InUse(p) == mem[p].s >= size

Fits(p) == mem[p].s >= size /\ ~mem[p].a
AtEpilogue(p) == mem[p].s = 0 /\ mem[p].a

Return == pc' = "idle" /\ ptr' = 0 /\ size' = 0

(* One turn of the while loop of lx_malloc_internal.                       *)
ScanTake ==
  /\ pc = "scan" /\ ptr < brk
  /\ ~AtEpilogue(ptr) /\ Fits(ptr)
  /\ HandOut(mem, ptr, size, heads)
  /\ Return
  /\ UNCHANGED <<brk, mapped>>

(* Seeded fault: the walk does not move on.                                *)
ScanPass_Stuck ==
  /\ pc = "scan" /\ ptr < brk
  /\ ~AtEpilogue(ptr) /\ ~Fits(ptr)
  /\ UNCHANGED vars

ScanPass ==
  /\ pc = "scan" /\ ptr < brk
  /\ ~AtEpilogue(ptr) /\ ~Fits(ptr)
  /\ ptr' = ptr + mem[ptr].s
  /\ UNCHANGED <<mem, brk, mapped, pc, size, live, heads>>

ScanEnd ==
  /\ pc = "scan"
  /\ IF ptr < brk THEN AtEpilogue(ptr) ELSE TRUE
  /\ pc' = "grow"
  /\ UNCHANGED <<mem, brk, mapped, ptr, size, live, heads>>

GrowTake ==
  /\ pc = "grow" /\ Page(brk) \in mapped
  /\ lxbrk(size)
  /\ HandOut(coalesce(Grown(size), brk), Merged(Grown(size), brk), size,
             GrownHeads(size))
  /\ Return

(* Without the page of dmm_init lx_grow_heap reads the old epilogue where  *)
(* nothing is mapped; the page fault handler spins.                        *)
GrowFault ==
  /\ pc = "grow" /\ Page(brk) \notin mapped
  /\ lxbrk(size)
  /\ pc' = "fault"
  /\ UNCHANGED <<mem, ptr, size, live, heads>>

(* "Well, we are officially OOM!"                                          *)
OutOfMemory ==
  /\ pc = "grow" /\ lxbrk_fails(size)
  /\ Return
  /\ UNCHANGED <<mem, brk, mapped, live, heads>>

(* "unable to brk": a debug build stops when the pages cannot be had.      *)
BrkPanic ==
  /\ pc = "grow" /\ lxbrk_fits(size) /\ NewPages(size) # {}
  /\ pc' = "panic"
  /\ UNCHANGED <<mem, brk, mapped, ptr, size, live, heads>>

Malloc ==
  ScanTake \/ ScanPass \/ ScanEnd \/ GrowTake \/ GrowFault \/ OutOfMemory \/ BrkPanic

-----------------------------------------------------------------------------
lxfree(b) ==
  /\ pc = "idle" \/ (IsrFrees /\ pc \in {"scan", "grow"})
  /\ LET chunk == b.at - 1
         hdr == [mem[chunk] EXCEPT !.a = FALSE]
         next_hdr == chunk + hdr.s
         m == SW(SW(SW(mem, chunk, hdr), chunk + hdr.s - 1, hdr),
                 next_hdr, [mem[next_hdr] EXCEPT !.pf = TRUE])
     IN  /\ mem' = coalesce(m, chunk)
         /\ heads' = MergedHeads(m, chunk, heads)
  /\ live' = live \ {b}
  /\ UNCHANGED <<brk, mapped, pc, ptr, size>>

Next ==
  \/ kalloc_init
  \/ FirstGrowth
  \/ \E sz \in Requests : lxmalloc(sz)
  \/ ScanTake
  \/ ScanPass
  \/ ScanEnd
  \/ GrowTake
  \/ GrowFault
  \/ OutOfMemory
  \/ BrkPanic
  \/ \E b \in live : lxfree(b)

(* The walk of lx_malloc_internal runs on without waiting for anybody.     *)
Spec == Init /\ [][Next]_vars /\ WF_vars(Malloc)

-----------------------------------------------------------------------------
(* The headers tile the heap from its start to the epilogue at brk, so the *)
(* walk of kalloc.c:142-154 visits every chunk and stops (kalloc.c:59 "the *)
(* brk always point to the beginning of epilogue").  A heap that dmm_init  *)
(* got no page for has neither headers nor an epilogue.                    *)
ChunksTile ==
  /\ \A h \in heads :
       /\ mem[h].s > 0
       /\ NEXT_CHK(mem, h) \in heads \cup {brk}
       /\ \A g \in heads : ~(h < g /\ g < NEXT_CHK(mem, h))
  /\ heads # {} => 0 \in heads /\ mem[brk].s = 0 /\ mem[brk].a

(* The boundary tags coalesce relies on (kalloc.c:206-231): the footer of  *)
(* a free chunk repeats its header, the flag M_PREV_FREE after a chunk     *)
(* tells whether it is free, and no two free chunks are neighbours.        *)
BoundaryTags ==
  \A h \in heads :
    LET next == NEXT_CHK(mem, h)
    IN  /\ mem[next].pf = ~mem[h].a
        /\ ~mem[h].a => mem[next - 1] = mem[h] /\ mem[next].a

(* Blocks in use are exactly the allocated chunks, and the allocator never *)
(* writes into them: what their owners wrote is still there.               *)
BlocksIntact ==
  /\ {b.at - 1 : b \in live} = {h \in heads \ {0} : mem[h].a}
  /\ \A b \in live : /\ mem[b.at - 1].s = b.len + 1
                     /\ \A q \in b.at .. (b.at + b.len - 1) : mem[q] = JUNK

(* Every word the allocator and its callers touch lies on a mapped page:   *)
(* those of a chunk with the header behind it (dmm.c:57-67), the epilogue  *)
(* included, and the header the walk looks at; what dmm_init failed to map *)
(* no chunk and no walk gets to.  The read of an epilogue that kalloc_init *)
(* never wrote is left: GrowFault.                                         *)
HeapMapped ==
  /\ \A h \in heads : \A p \in h .. NEXT_CHK(mem, h) : Page(p) \in mapped
  /\ pc = "scan" /\ ptr < brk => Page(ptr) \in mapped

(* A call of lxmalloc ends: it returns, or the machine stops.              *)
MallocReturns == pc \in {"scan", "grow"} ~> pc \in {"idle", "panic", "fault"}

(* Does not hold, and no run claims it.  kalloc.c:163: without memory, "we *)
(* are officially OOM!" and lxmalloc returns NULL.  After a failed         *)
(* dmm_init a release build faults instead, on the epilogue that was never *)
(* written.                                                                *)
RefusesWithoutMemory == pc # "fault"

(* kalloc.c implements the heap its header file promises.                  *)
Abstract == INSTANCE Heap WITH Words <- Words, live <- live
ImplementsHeap == Abstract!Spec
=============================================================================
