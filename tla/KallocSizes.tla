---------------------------- MODULE KallocSizes ----------------------------
(***************************************************************************)
(* The size arithmetic of kernel/mm/kalloc.c on unsigned machine words:    *)
(* the product and the overflow check of lxcalloc, and the rounding of     *)
(* lx_malloc_internal.  A request is followed from the arguments to the    *)
(* size of the chunk that is looked for.                                   *)
(***************************************************************************)
EXTENDS Integers

CONSTANT WORD          \* values of a size_t: 2^32 in the code

ASSUME WordAssumption == WORD \in Nat /\ WORD > 8 /\ WORD % 4 = 0

Sizes == 0 .. (WORD - 1)
WSIZE == 4
BOUNDARY == 4

(* Named so that KallocProofs can extend this module beside Kalloc.        *)
VARIABLES calloc_n, calloc_elem,   \* arguments of lxcalloc
          malloc_size,             \* what lxmalloc is asked for
          malloc_chunk,            \* the chunk size lx_malloc_internal looks for
          request_pc               \* "calloc", "malloc", "search" or "null"

sizes_vars == <<calloc_n, calloc_elem, malloc_size, malloc_chunk, request_pc>>

SizesInit ==
  /\ calloc_n \in Sizes /\ calloc_elem \in Sizes
  /\ malloc_size = 0 /\ malloc_chunk = 0
  /\ request_pc = "calloc"

Product(a, b) == (a * b) % WORD

(* Seeded fault: a product equal to a factor counts as overflow.           *)
OverflowDetected_OnEqual(pd) == pd <= calloc_elem \/ pd < calloc_n

OverflowDetected(pd) == pd < calloc_elem \/ pd < calloc_n

lxcalloc ==
  /\ request_pc = "calloc"
  /\ LET pd == Product(calloc_n, calloc_elem)
     IN  IF OverflowDetected(pd)
         THEN request_pc' = "null" /\ UNCHANGED malloc_size
         ELSE request_pc' = "malloc" /\ malloc_size' = pd
  /\ UNCHANGED <<calloc_n, calloc_elem, malloc_chunk>>

Plus(a, b) == IF a + b < WORD THEN a + b ELSE a + b - WORD
Down(v) == v - (v % BOUNDARY)
ROUNDUP(v) == Down(Plus(v, BOUNDARY - 1))

(* Seeded fault: no room for the header.                                   *)
ChunkSize_NoHeader(sz) == ROUNDUP(sz)

ChunkSize(sz) == ROUNDUP(Plus(sz, WSIZE))

lx_malloc_internal ==
  /\ request_pc = "malloc"
  /\ IF malloc_size = 0
     THEN request_pc' = "null" /\ UNCHANGED malloc_chunk
     ELSE request_pc' = "search" /\ malloc_chunk' = ChunkSize(malloc_size)
  /\ UNCHANGED <<calloc_n, calloc_elem, malloc_size>>

SizesNext == lxcalloc \/ lx_malloc_internal

SizesSpec == SizesInit /\ [][SizesNext]_sizes_vars

-----------------------------------------------------------------------------
(* The chunk has room for the header and the request, keeps headers        *)
(* aligned and wastes less than a word (kalloc.c:139-141) up to the top    *)
(* seven sizes, and for none of these: there the sum wraps, nobody checks  *)
(* it, and the chunk looked for is empty or a header without a block.      *)
ChunkHoldsRequest ==
  request_pc = "search" =>
    \/ /\ malloc_size <= WORD - 8
       /\ malloc_chunk >= malloc_size + WSIZE
       /\ malloc_chunk < malloc_size + WSIZE + BOUNDARY
       /\ malloc_chunk % BOUNDARY = 0
    \/ malloc_size > WORD - 8 /\ malloc_chunk \in {0, WSIZE}

(* The check of kalloc.c:88-91 refuses no array that can be had.           *)
NoFalseAlarm == request_pc = "null" => calloc_n = 0 \/ calloc_elem = 0 \/ calloc_n * calloc_elem >= WORD

(* Does not hold, and no run claims it.  kalloc.c:88, "overflow            *)
(* detection": an array that passes has its real size allocated.  A        *)
(* product that overflows may still exceed both factors.                   *)
OverflowIsDetected == request_pc \in {"malloc", "search"} => malloc_size = calloc_n * calloc_elem
=============================================================================
