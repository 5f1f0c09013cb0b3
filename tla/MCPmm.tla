------------------------------- MODULE MCPmm -------------------------------
(* Small instances of Pmm: groups of 4 bits, 3 groups, memory ending in    *)
(* the middle of the last group.                                           *)
EXTENDS Pmm

MC_FreeChunks == {<<0, 6>>, <<5, 5>>, <<2, 3>>}
MC_BusyChunks == {<<0, 2>>, <<6, 1>>}
MC_MmioPages == {11}
=============================================================================
