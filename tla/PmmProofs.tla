----------------------------- MODULE PmmProofs -----------------------------
(***************************************************************************)
(* Theorems about Pmm for every bitmap size, memory size and region list.  *)
(***************************************************************************)
EXTENDS Pmm, TLAPS

(* A free page lies in the part of the bitmap pmm_free_page accepts: only  *)
(* regions below max_pg are ever made available.                           *)
FreeInMemory == Pages \ occupied \subseteq 0 .. (MaxPg - 1)

(* The inductive invariant.                                                *)
IInv == TypeOK /\ HeldOccupied /\ FreeInMemory /\ HandedOutReturnable

-----------------------------------------------------------------------------
(* Stepping to the next group moves the pointer on (pmm.c:129).            *)
LEMMA NextGroupAdvances ==
  ASSUME NEW p \in Nat
  PROVE  NextGroup(p) \in Nat \ {0}
<1>1. p % GRP \in 0 .. (GRP - 1)
  BY SizeAssumption
<1>2. GRP - (p % GRP) \in Nat \ {0}
  BY <1>1, SizeAssumption
<1> QED
  BY <1>2 DEF NextGroup

(* Page numbers are natural numbers.                                       *)
LEMMA PagesAreNat == Pages \subseteq Nat
  BY SizeAssumption DEF Pages

(* The pages a region frees (pmm.c:58-76) lie in the bitmap and below      *)
(* max_pg.                                                                 *)
LEMMA FreeChunkPages ==
  ASSUME NEW c \in FreeChunks
  PROVE  /\ ChunkPages(c[1], c[2]) \subseteq Pages
         /\ ChunkPages(c[1], c[2]) \subseteq 0 .. (MaxPg - 1)
<1>1. ChunkPages(c[1], c[2]) \subseteq 0 .. (MaxPg - 1)
  BY RegionAssumption
<1>2. 0 .. (MaxPg - 1) \subseteq Pages
  <2>1. GRP * BMP_SIZE \in Nat
    BY SizeAssumption
  <2> QED BY <2>1, SizeAssumption DEF Pages
<1> QED BY <1>1, <1>2

(* The invariant holds when pmm_init (pmm.c:103-114) is done.              *)
LEMMA InitIInv == Init => IInv
<1> SUFFICES ASSUME Init PROVE IInv
  OBVIOUS
<1>1. TypeOK
  BY SizeAssumption DEF Init, TypeOK, NULL, LOOKUP_START
<1>2. HeldOccupied
  BY DEF Init, HeldOccupied
<1>3. FreeInMemory
  BY DEF Init, FreeInMemory
<1>4. HandedOutReturnable
  BY DEF Init, HandedOutReturnable
<1> QED BY <1>1, <1>2, <1>3, <1>4 DEF IInv

(* Every step of the boot code, of pmm_alloc_page and of pmm_free_page     *)
(* preserves the invariant.                                                *)
LEMMA StepIInv == IInv /\ [Next]_vars => IInv'
<1> SUFFICES ASSUME IInv, [Next]_vars PROVE IInv'
  OBVIOUS
<1> USE DEF IInv
<1>1. ASSUME NEW c \in FreeChunks, pmm_mark_chunk_free(c[1], c[2])
      PROVE  IInv'
  <2>0. /\ ChunkPages(c[1], c[2]) \subseteq Pages
        /\ ChunkPages(c[1], c[2]) \subseteq 0 .. (MaxPg - 1)
    BY FreeChunkPages
  <2>1. TypeOK'
    BY <1>1 DEF pmm_mark_chunk_free, TypeOK, locals
  <2>2. HeldOccupied'
    BY <1>1 DEF pmm_mark_chunk_free, HeldOccupied
  <2>3. FreeInMemory'
    BY <1>1, <2>0 DEF pmm_mark_chunk_free, FreeInMemory
  <2>4. HandedOutReturnable'
    BY <1>1 DEF pmm_mark_chunk_free, HandedOutReturnable, FreeAccepted, locals
  <2> QED BY <2>1, <2>2, <2>3, <2>4
<1>2. ASSUME NEW c \in BusyChunks, pmm_mark_chunk_occupied(c[1], c[2])
      PROVE  IInv'
  <2>0. ChunkPages(c[1], c[2]) \subseteq Pages
    BY RegionAssumption
  <2>1. TypeOK'
    BY <1>2, <2>0 DEF pmm_mark_chunk_occupied, TypeOK, locals
  <2>2. HeldOccupied'
    BY <1>2 DEF pmm_mark_chunk_occupied, HeldOccupied
  <2>3. FreeInMemory'
    BY <1>2 DEF pmm_mark_chunk_occupied, FreeInMemory
  <2>4. HandedOutReturnable'
    BY <1>2 DEF pmm_mark_chunk_occupied, HandedOutReturnable, FreeAccepted,
                locals
  <2> QED BY <2>1, <2>2, <2>3, <2>4
<1>3. CASE SetupMemoryDone
  BY <1>3 DEF SetupMemoryDone, TypeOK, HeldOccupied, FreeInMemory,
              HandedOutReturnable, FreeAccepted, locals
<1>4. ASSUME NEW p \in MmioPages, pmm_mark_page_occupied(p)
      PROVE  IInv'
  <2>1. TypeOK'
    BY <1>4, RegionAssumption DEF pmm_mark_page_occupied, TypeOK, locals
  <2>2. HeldOccupied'
    BY <1>4 DEF pmm_mark_page_occupied, HeldOccupied
  <2>3. FreeInMemory'
    BY <1>4 DEF pmm_mark_page_occupied, FreeInMemory
  <2>4. HandedOutReturnable'
    BY <1>4 DEF pmm_mark_page_occupied, HandedOutReturnable, FreeAccepted,
                locals
  <2> QED BY <2>1, <2>2, <2>3, <2>4
<1>5. CASE AllocCall
  <2>1. TypeOK'
    BY <1>5, SizeAssumption DEF AllocCall, TypeOK, NULL
  <2>2. HeldOccupied' /\ FreeInMemory' /\ HandedOutReturnable'
    BY <1>5 DEF AllocCall, HeldOccupied, FreeInMemory, HandedOutReturnable
  <2> QED BY <2>1, <2>2
<1>6. CASE TakePage
  <2>1. PICK p \in Hits : /\ occupied' = occupied \cup {p}
                          /\ pg_lookup_ptr' = p
                          /\ good_page_found' = p
                          /\ held' = held \cup {p}
    BY <1>6 DEF TakePage
  <2>2. p \in Pages \ occupied /\ p >= pg_lookup_ptr
    BY <2>1 DEF Hits
  <2>3. p \in Nat \ {0}
    BY <2>2, PagesAreNat DEF TypeOK
  <2>4. p < MaxPg
    BY <2>2, SizeAssumption DEF FreeInMemory
  <2>5. TypeOK'
    BY <1>6, <2>1, <2>2, <2>3 DEF TakePage, TypeOK
  <2>6. HeldOccupied'
    BY <2>1 DEF HeldOccupied
  <2>7. FreeInMemory'
    BY <2>1 DEF FreeInMemory
  <2>8. HandedOutReturnable'
    BY <2>1, <2>3, <2>4 DEF HandedOutReturnable, FreeAccepted
  <2> QED BY <2>5, <2>6, <2>7, <2>8
<1>7. CASE PassGroup
  <2>1. TypeOK'
    BY <1>7, NextGroupAdvances DEF PassGroup, TypeOK, locals
  <2>2. HeldOccupied' /\ FreeInMemory' /\ HandedOutReturnable'
    BY <1>7 DEF PassGroup, HeldOccupied, FreeInMemory, HandedOutReturnable,
                FreeAccepted, locals
  <2> QED BY <2>1, <2>2
<1>8. CASE SkipFullGroup
  <2>1. TypeOK'
    BY <1>8, SizeAssumption DEF SkipFullGroup, TypeOK, LOOKUP_START
  <2>2. HeldOccupied' /\ FreeInMemory' /\ HandedOutReturnable'
    BY <1>8 DEF SkipFullGroup, HeldOccupied, FreeInMemory,
                HandedOutReturnable, FreeAccepted
  <2> QED BY <2>1, <2>2
<1>9. CASE AllocReturn
  BY <1>9 DEF AllocReturn, TypeOK, HeldOccupied, FreeInMemory,
              HandedOutReturnable, FreeAccepted, locals
<1>10. ASSUME NEW p \in held, pmm_free_page(p)
       PROVE  IInv'
  <2>0. p \in Pages /\ p \in Nat
    BY PagesAreNat DEF TypeOK
  <2>1. TypeOK'
    BY <1>10 DEF pmm_free_page, TypeOK, locals
  <2>2. HeldOccupied'
    BY <1>10 DEF pmm_free_page, HeldOccupied
  <2>3. FreeInMemory'
    BY <1>10, <2>0, SizeAssumption DEF pmm_free_page, FreeInMemory,
                                       FreeAccepted
  <2>4. HandedOutReturnable'
    BY <1>10 DEF pmm_free_page, HandedOutReturnable, FreeAccepted, locals
  <2> QED BY <2>1, <2>2, <2>3, <2>4
<1>11. CASE UNCHANGED vars
  BY <1>11 DEF vars, TypeOK, HeldOccupied, FreeInMemory,
               HandedOutReturnable, FreeAccepted
<1> QED
  BY <1>1, <1>2, <1>3, <1>4, <1>5, <1>6, <1>7, <1>8, <1>9, <1>10, <1>11
  DEF Next

(* The invariant holds in every reachable state of pmm.c.                  *)
LEMMA SpecIInv == Spec => []IInv
  BY InitIInv, StepIInv, PTL DEF Spec

-----------------------------------------------------------------------------
(* The types of pmm.c's globals and locals, in particular that the lookup  *)
(* pointer of pmm.c:101 is never 0.                                        *)
THEOREM TypeCorrectness == Spec => []TypeOK
  BY SpecIInv, PTL DEF IInv

(* A page in use keeps its bit set: pmm_alloc_page (pmm.c:116-150) never   *)
(* hands out a page twice.                                                 *)
THEOREM NoDoubleHandOut == Spec => []HeldOccupied
  BY SpecIInv, PTL DEF IInv

(* Every page pmm_alloc_page hands out is accepted back by pmm_free_page   *)
(* (pmm.c:157), although the search may look beyond max_pg.                *)
THEOREM HandedOutCanBeFreed == Spec => []HandedOutReturnable
  BY SpecIInv, PTL DEF IInv

(* Each step of pmm.c is a step of the abstract allocator, or none.        *)
LEMMA StepRefines == IInv /\ [Next]_vars => [Abstract!Next]_(Abstract!vars)
<1> SUFFICES ASSUME IInv, [Next]_vars
             PROVE  Abstract!Next \/ UNCHANGED <<Pages \ occupied, held, Booting>>
  BY DEF Abstract!vars
<1> USE DEF IInv, Booting
<1>1. ASSUME NEW c \in FreeChunks, pmm_mark_chunk_free(c[1], c[2])
      PROVE  Abstract!Next
  <2>1. ChunkPages(c[1], c[2]) \in SUBSET Pages
    BY FreeChunkPages
  <2>2. Abstract!Donate(ChunkPages(c[1], c[2]))
    BY <1>1, <2>1 DEF pmm_mark_chunk_free, Abstract!Donate
  <2>3. Booting = TRUE
    BY <1>1 DEF pmm_mark_chunk_free
  <2> QED BY <2>1, <2>2, <2>3 DEF Abstract!Next
<1>2. ASSUME NEW c \in BusyChunks, pmm_mark_chunk_occupied(c[1], c[2])
      PROVE  Abstract!Next
  <2>1. ChunkPages(c[1], c[2]) \in SUBSET Pages
    BY RegionAssumption
  <2>2. Abstract!Reserve(ChunkPages(c[1], c[2]))
    BY <1>2, <2>1 DEF pmm_mark_chunk_occupied, Abstract!Reserve
  <2>3. Booting = TRUE
    BY <1>2 DEF pmm_mark_chunk_occupied
  <2> QED BY <2>1, <2>2, <2>3 DEF Abstract!Next
<1>3. CASE SetupMemoryDone
  BY <1>3 DEF SetupMemoryDone, Abstract!BootEnds, Abstract!Next
<1>4. ASSUME NEW p \in MmioPages, pmm_mark_page_occupied(p)
      PROVE  Abstract!Next
  <2>1. Abstract!ReserveDevice
    BY <1>4 DEF pmm_mark_page_occupied, Abstract!ReserveDevice
  <2> QED BY <2>1 DEF Abstract!Next
<1>5. CASE AllocCall
  BY <1>5 DEF AllocCall
<1>6. CASE TakePage
  <2>1. PICK p \in Hits : /\ occupied' = occupied \cup {p}
                          /\ held' = held \cup {p}
    BY <1>6 DEF TakePage
  <2>2. p \in (Pages \ occupied) \ {0}
    BY <2>1, PagesAreNat DEF Hits, TypeOK
  <2>3. ~Booting /\ UNCHANGED Booting
    BY <1>6 DEF TakePage
  <2>4. Abstract!Alloc
    BY <2>1, <2>2, <2>3 DEF Abstract!Alloc
  <2> QED BY <2>4 DEF Abstract!Next
<1>7. CASE PassGroup
  BY <1>7 DEF PassGroup
<1>8. CASE SkipFullGroup
  BY <1>8 DEF SkipFullGroup
<1>9. CASE AllocReturn
  BY <1>9 DEF AllocReturn
<1>10. ASSUME NEW p \in held, pmm_free_page(p)
       PROVE  Abstract!Next \/ UNCHANGED <<Pages \ occupied, held, Booting>>
  <2>1. CASE FreeAccepted(p)
    <3>1. p \in held \ {0} /\ p \in Pages
      BY <2>1 DEF FreeAccepted, TypeOK
    <3>2. /\ Pages \ occupied' = (Pages \ occupied) \cup {p}
          /\ held' = held \ {p}
      BY <1>10, <2>1, <3>1 DEF pmm_free_page
    <3>3. ~Booting /\ UNCHANGED Booting
      BY <1>10 DEF pmm_free_page
    <3>4. Abstract!Release
      BY <3>1, <3>2, <3>3 DEF Abstract!Release
    <3> QED BY <3>4 DEF Abstract!Next
  <2>2. CASE ~FreeAccepted(p)
    BY <1>10, <2>2 DEF pmm_free_page
  <2> QED BY <2>1, <2>2
<1>11. CASE UNCHANGED vars
  BY <1>11 DEF vars
<1> QED
  BY <1>1, <1>2, <1>3, <1>4, <1>5, <1>6, <1>7, <1>8, <1>9, <1>10, <1>11
  DEF Next

(* pmm.c implements the page allocator that vmm.c and dmm.c are written    *)
(* against: only free pages are handed out, never page 0, and only pages   *)
(* in use come back.                                                       *)
THEOREM Refinement == Spec => ImplementsPageAllocator
<1>1. Init => Abstract!Init
  BY DEF Init, Abstract!Init, Booting
<1> QED
  BY <1>1, SpecIInv, StepRefines, PTL
  DEF Spec, ImplementsPageAllocator, Abstract!Spec
=============================================================================
