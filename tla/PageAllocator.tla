--------------------------- MODULE PageAllocator ---------------------------
(***************************************************************************)
(* What the physical memory manager (kernel/mm/pmm.c) promises its         *)
(* callers, without bitmap, groups or lookup pointer: a set of free page   *)
(* frames and a set of frames in somebody's hands.  A frame handed out     *)
(* comes from the free set, page 0 is never handed out, and a request may  *)
(* always be refused (the implementation gives up although frames are      *)
(* free, so no stronger promise would be honest).                          *)
(***************************************************************************)
CONSTANTS Pages,       \* every page frame number the bitmap can hold
          Devices      \* frames that belong to memory-mapped devices

VARIABLES free,        \* frames that may be handed out
          held,        \* frames in use: handed out, or reserved at boot
          booting      \* the memory map is still being read

vars == <<free, held, booting>>

Init ==
  /\ free = {}
  /\ held = {}
  /\ booting = TRUE

(* Boot code makes the frames P available ... *)
Donate(P) ==
  /\ booting = TRUE
  /\ P \subseteq Pages
  /\ free' = free \cup P
  /\ held' = held \ P
  /\ UNCHANGED booting

(* ... and takes the frames P out of circulation. *)
Reserve(P) ==
  /\ booting = TRUE
  /\ P \subseteq Pages
  /\ free' = free \ P
  /\ held' = held \cup P
  /\ UNCHANGED booting

BootEnds ==
  /\ booting = TRUE
  /\ booting' = FALSE
  /\ UNCHANGED <<free, held>>

(* Once the devices are found, their frames are taken out too. *)
ReserveDevice ==
  /\ booting = FALSE
  /\ \E p \in Devices :
       /\ free' = free \ {p}
       /\ held' = held \cup {p}
  /\ UNCHANGED booting

(* A caller obtains a free frame. *)
Alloc ==
  /\ booting = FALSE
  /\ \E p \in free \ {0} :
       /\ free' = free \ {p}
       /\ held' = held \cup {p}
  /\ UNCHANGED booting

(* A caller gives a frame back. *)
Release ==
  /\ booting = FALSE
  /\ \E p \in held \ {0} :
       /\ free' = free \cup {p}
       /\ held' = held \ {p}
  /\ UNCHANGED booting

Next ==
  \/ /\ booting = TRUE
     /\ \E P \in SUBSET Pages : Donate(P) \/ Reserve(P)
  \/ BootEnds
  \/ ReserveDevice
  \/ Alloc
  \/ Release

Spec == Init /\ [][Next]_vars
=============================================================================
