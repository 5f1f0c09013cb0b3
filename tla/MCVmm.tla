------------------------------- MODULE MCVmm -------------------------------
(* Small instance of Vmm: three entries per table, the last one recursive. *)
EXTENDS Vmm, TLC

CONSTANTS f1, f2, f3, vga, mmio

MC_Pool == {f1, f2, f3}
MC_LowMap == (0 :> mmio) @@ (1 :> f1) @@ (2 :> PTE_NULL)
=============================================================================
