-------------------------------- MODULE Heap --------------------------------
(***************************************************************************)
(* What lxmalloc and lxfree (includes/awa/mm/kalloc.h) promise: a block is *)
(* a contiguous region of its own.  A request may be refused.              *)
(***************************************************************************)
EXTENDS Integers

CONSTANT Words         \* the words of the heap's address range

VARIABLE live          \* blocks in use: [at |-> first word, len |-> words]

Region(b) == b.at .. (b.at + b.len - 1)

Init == live = {}

Malloc ==
  \E b \in [at : Words, len : Words] :
    /\ Region(b) \subseteq Words
    /\ \A c \in live : Region(b) \cap Region(c) = {} /\ b # c
    /\ live' = live \cup {b}

Free == \E b \in live : live' = live \ {b}

Next == Malloc \/ Free

Spec == Init /\ [][Next]_live
=============================================================================
