-------------------------------- MODULE Boot --------------------------------
(***************************************************************************)
(* From the loader to _kernel_main: arch/x86/boot.S and hhk.c build the    *)
(* first page tables, kernel/k_init.c hands memory to the allocators and   *)
(* takes the boot's own memory away from under itself, hal/acpi (Acpi)     *)
(* reads the firmware's tables in between.                                 *)
(*                                                                         *)
(* Page tables are kept as the directory dir and the entries pte of all    *)
(* tables; Vmm has the detail of the recursive slot.  The frame allocator  *)
(* is used by its contract (PageAllocator).  The order of physical memory  *)
(* is the code's: the first megabyte, hhk_init, the kernel, its tables.    *)
(***************************************************************************)
EXTENDS Acpi

CONSTANTS
  PAGE, ENT,         \* units in a page, PG_MAX_ENTRIES
  LOW, HHK, KERNEL,  \* pages: first megabyte, hhk_init, kernel up to .kpg
  HIGHER,            \* HIGHER_HLF_BASE, as a page number
  VGA, VGA_V,        \* pages of VGA_BUFFER_PADDR and VGA_BUFFER_VADDR
  STACK,             \* pages of K_STACK_SIZE
  MAX_PG,            \* pmm.c's max_pg
  APIC_P             \* page of __APIC_BASE_PADDR

SELF == ENT - 1
Slots == 0 .. ENT - 1
UserVAs == 0 .. ENT * SELF - 1
kernel_start == LOW + HHK                  \* physical, as the next two
ptd == kernel_start + KERNEL               \* _k_ptd: directory and 5 tables
kernel_end == ptd + 6
K_STACK_START == ENT * SELF - STACK
APIC_V == 1
IOAPIC_V == 2
Hhk == LOW .. LOW + HHK - 1                \* also mb_info and boot stack
PageOf(a) == a \div PAGE

Available(r) == r.type = "AVAILABLE"

(* The whole of page p, or a part of it, is in region r.                   *)
Holds(r, p) == r.addr <= p * PAGE /\ (p + 1) * PAGE <= r.addr + r.len
Meets(r, p) == r.addr < (p + 1) * PAGE /\ p * PAGE < r.addr + r.len

(* Where the linker and the headers put things: low memory, hhk_init and   *)
(* kernel in the tables _init_page writes, the screen's page above the low *)
(* pages that are released, the addresses the kernel uses apart.           *)
ASSUME LayoutAssumption ==
  /\ {PAGE, ENT, LOW, HHK, KERNEL, HIGHER, VGA, VGA_V, STACK, MAX_PG, APIC_P, SCAN} \subseteq Nat
  /\ PAGE > 0 /\ NONE \notin Nat
  /\ LOW + HHK <= ENT /\ HIGHER % ENT = 0
  /\ (kernel_start % ENT) + KERNEL + 6 <= 3 * ENT /\ HIGHER \div ENT + 3 < SELF
  /\ PageOf(SCAN) > IOAPIC_V /\ VGA > IOAPIC_V /\ VGA < LOW
  /\ ENT <= VGA_V /\ VGA_V < HIGHER /\ HIGHER + kernel_end < K_STACK_START

(* The regions of the map are apart.  Available ones begin on pages, end   *)
(* in the memory the bitmap knows and have the low pages that are          *)
(* released, others are above those and end on pages (see k_init.c:139,    *)
(* 181).                                                                   *)
ASSUME MapAssumption ==
  \A m \in Machines :
    /\ m.mmap \in Seq([addr : Nat, len : Nat, type : STRING])
    /\ \A k, l \in DOMAIN m.mmap :
         k = l \/ m.mmap[k].addr + m.mmap[k].len <= m.mmap[l].addr
               \/ m.mmap[l].addr + m.mmap[l].len <= m.mmap[k].addr
    /\ \A k \in DOMAIN m.mmap :
         LET r == m.mmap[k] IN
           IF Available(r) THEN r.addr % PAGE = 0 /\ r.addr + r.len <= MAX_PG * PAGE
           ELSE /\ PageOf(r.addr) > IOAPIC_V /\ r.addr + r.len <= ENT * ENT * PAGE
                /\ PageOf(r.addr) > LOW => (r.addr + r.len) % PAGE = 0
    /\ \A p \in {APIC_V, IOAPIC_V} \cup Hhk : \E k \in DOMAIN m.mmap : Available(m.mmap[k]) /\ Holds(m.mmap[k], p)

(* Addresses of what acpi.c and madt_parser.c read above the first         *)
(* megabyte.                                                               *)
Tables(m) ==
  (DOMAIN m.mem \ Of(m.mem, {"rsdp", "copy"}))
  \cup UNION {a .. a + m.mem[a].length - 1 : a \in Of(m.mem, {"rsdt"})}

(* The firmware's tables are in the area that is searched, or in regions   *)
(* that are not available and away from the addresses the kernel uses; the *)
(* devices are not in available memory.                                    *)
ASSUME FirmwareAssumption ==
  \A m \in Machines :
    /\ \A a \in Tables(m) :
         \/ PageOf(a) \in PageOf(SCAN) .. LOW - 1
         \/ /\ PageOf(a) < HIGHER /\ PageOf(a) # VGA_V
            /\ \E k \in DOMAIN m.mmap :
                 LET r == m.mmap[k] IN
                   ~Available(r) /\ PageOf(r.addr) > LOW /\ r.addr <= a /\ a < r.addr + r.len
    /\ \A e \in Ics(m.mem) : e.type = "IOAPIC" => PageOf(e.ioapic_addr) \in Nat
    /\ \A k \in DOMAIN m.mmap : Available(m.mmap[k]) =>
         /\ ~Holds(m.mmap[k], APIC_P)
         /\ \A e \in Ics(m.mem) :
              e.type = "IOAPIC" => ~Holds(m.mmap[k], PageOf(e.ioapic_addr))

(* There are frames for the stack, the heap and the tables of every page   *)
(* that is mapped: nobody asks whether an allocation failed.               *)
BootSlots == {0, SELF} \cup {(HIGHER + kernel_start) \div ENT + t : t \in 0 .. 2}
UsedSlots(m) ==
  {(K_STACK_START + k) \div ENT : k \in 0 .. STACK - 1}
  \cup {VGA_V \div ENT, (HIGHER + kernel_end) \div ENT}
  \cup {p \div ENT : p \in {q \in UserVAs : \E k \in DOMAIN m.mmap :
                               ~Available(m.mmap[k]) /\ Meets(m.mmap[k], q)}}
FreeFrames(m) ==
  {f \in kernel_end .. MAX_PG - 1 : \E k \in DOMAIN m.mmap :
     Available(m.mmap[k]) /\ Holds(m.mmap[k], f)}

ASSUME MemoryAssumption ==
  \A m \in Machines :
    Cardinality(FreeFrames(m)) >= STACK + 1 + Cardinality(UsedSlots(m) \ BootSlots)

VARIABLES
  mb_info,           \* the saved memory map
  kpg,               \* the kernel's page tables, before paging
  mm,                \* [dir, pte, free]: page tables, frames the pmm can give
  vga,               \* page of tty_vga_buffer
  sp,                \* the stack in use
  j                  \* lock_reserved_memory: page in the region

boot_vars == <<mb_info, kpg, mm, vga, sp, j>>
vars == <<acpi_vars, boot_vars>>
acpi_rest == <<machine, rsdt, ics_start, ics_end, toc, redtbl>>

Init ==
  /\ machine \in Machines
  /\ pc = "start" /\ i = 0 /\ j = 0
  /\ AcpiInit
  /\ mb_info = <<>>
  /\ kpg = [x \in 0 .. 6 * ENT - 1 |-> "garbage"]
  /\ mm = [dir |-> [s \in Slots |-> NONE], pte |-> [v \in UserVAs |-> NONE], free |-> {}]
  /\ vga = VGA /\ sp = "boot"

-----------------------------------------------------------------------------
(* boot.S and hhk.c, before paging.                                        *)

_save_multiboot_info ==
  /\ pc = "start" /\ pc' = "hhk"
  /\ mb_info' = machine.mmap
  /\ UNCHANGED <<acpi_rest, i, kpg, mm, vga, sp, j>>

PT_ADDR(t) == (t + 1) * ENT
Run(first, n, val) == [x \in first .. first + n - 1 |-> val + (x - first)]

(* _init_page: entries by their index in the six pages; where two writes   *)
(* meet, the later one, further to the left, counts.                       *)
kernel_pde_index == (HIGHER + kernel_start) \div ENT
kernel_pte_index == (HIGHER + kernel_start) % ENT

Over(f, g) ==
  [x \in DOMAIN f \cup DOMAIN g |-> IF x \in DOMAIN f THEN f[x] ELSE g[x]]

_init_page ==
  Over(Run(SELF, 1, ptd),
  Over(Run(PT_ADDR(1) + kernel_pte_index, kernel_end - kernel_start, kernel_start),
  Over(Run(kernel_pde_index, 3, ptd + 2),
  Over(Run(PT_ADDR(0) + LOW, HHK, LOW),
  Over(Run(PT_ADDR(0), LOW, 0),
       Run(0, 1, ptd + 1))))))

_hhk_init ==
  /\ pc = "hhk" /\ pc' = "paging"
  /\ kpg' = Over(_init_page, [x \in DOMAIN kpg |-> NONE])
  /\ UNCHANGED <<acpi_rest, i, mb_info, mm, vga, sp, j>>

(* CR3 and CR0: from here the processor walks the tables.                  *)
EnablePaging ==
  /\ pc = "paging" /\ pc' = "pre_init"
  /\ mm' = [mm EXCEPT !.dir = [s \in Slots |-> kpg[s]],
                      !.pte = [v \in UserVAs |->
                        LET table == kpg[v \div ENT]
                        IN  IF table = NONE THEN NONE
                            ELSE kpg[(table - ptd) * ENT + (v % ENT)]]]
  /\ UNCHANGED <<acpi_rest, i, mb_info, kpg, vga, sp, j>>

-----------------------------------------------------------------------------
(* What the memory managers do to m; the set of possible results.          *)

__vmm_map_internal(m, v, p) ==
  LET s == v \div ENT
  IN  IF m.dir[s] # NONE
      THEN {IF m.pte[v] = NONE THEN [m EXCEPT !.pte[v] = p] ELSE m}
      ELSE IF m.free = {} THEN {m}
      ELSE {[dir |-> [m.dir EXCEPT ![s] = t],
             pte |-> [m.pte EXCEPT ![v] = p],
             free |-> m.free \ {t}] : t \in m.free}

vmm_set_mapping(m, v, p) ==
  IF v \div ENT = SELF THEN {m} ELSE __vmm_map_internal(m, v, p)

vmm_map_page(m, v, p) ==
  LET at == Min({w \in UserVAs : w >= v /\ (m.dir[w \div ENT] = NONE \/ m.pte[w] = NONE)})
  IN  __vmm_map_internal(m, at, p)

vmm_alloc_page(m, v) ==
  UNION {vmm_map_page([m EXCEPT !.free = @ \ {p}], v, p) : p \in m.free}

vmm_unmap_page(m, v) ==
  [m EXCEPT !.pte[v] = NONE,
            !.free = @ \cup ({m.pte[v]} \cap (1 .. MAX_PG - 1))]

-----------------------------------------------------------------------------
(* _kernel_pre_init and setup_memory.                                      *)

_kernel_pre_init ==
  /\ pc = "pre_init" /\ pc' = "memory"
  /\ mm' = [mm EXCEPT !.free = {}]
  /\ vga' = VGA /\ i' = 1
  /\ UNCHANGED <<acpi_rest, mb_info, kpg, sp, j>>

(* Seeded fault: a page that is available in part counts.                  *)
RegionPages_RoundedUp(r) ==
  LET pg == (r.addr + PAGE - 1) \div PAGE
  IN  pg .. pg + (r.len + PAGE - 1) \div PAGE - 1

RegionPages(r) ==
  LET pg == (r.addr + PAGE - 1) \div PAGE
  IN  pg .. pg + r.len \div PAGE - 1

FreeRegion ==
  /\ pc = "memory" /\ i <= Len(mb_info)
  /\ i' = i + 1
  /\ mm' = IF Available(mb_info[i])
           THEN [mm EXCEPT !.free = @ \cup RegionPages(mb_info[i])] ELSE mm
  /\ UNCHANGED <<acpi_rest, pc, mb_info, kpg, vga, sp, j>>

OccupyKernel ==
  /\ pc = "memory" /\ i > Len(mb_info)
  /\ pc' = "vga"
  /\ mm' = [mm EXCEPT !.free = @ \ (0 .. kernel_end - 1 \cup {VGA})]
  /\ UNCHANGED <<acpi_rest, i, mb_info, kpg, vga, sp, j>>

MapVga ==
  /\ pc = "vga" /\ pc' = "stack"
  /\ mm' \in vmm_map_page(mm, VGA_V, VGA)
  /\ vga' = VGA_V /\ i' = 0
  /\ UNCHANGED <<acpi_rest, mb_info, kpg, sp, j>>

(* setup_kernel_runtime.                                                   *)
AllocStack ==
  /\ pc = "stack" /\ i < STACK
  /\ mm' \in vmm_alloc_page(mm, K_STACK_START + i)
  /\ i' = i + 1
  /\ UNCHANGED <<acpi_rest, pc, mb_info, kpg, vga, sp, j>>

kalloc_init ==
  /\ pc = "stack" /\ i >= STACK
  /\ mm' \in vmm_alloc_page(mm, HIGHER + kernel_end)
  /\ pc' = "switch"
  /\ UNCHANGED <<acpi_rest, i, mb_info, kpg, vga, sp, j>>

(* Between _kernel_init and _kernel_post_init prologue.S changes stacks.   *)
SwitchStack ==
  /\ pc = "switch" /\ pc' = "low"
  /\ sp' = "kernel" /\ i' = 0
  /\ UNCHANGED <<acpi_rest, mb_info, kpg, mm, vga, j>>

-----------------------------------------------------------------------------
(* _kernel_post_init.                                                      *)

(* Seeded fault: a page less is released.                                  *)
Released_KeepsOne == 2

Released == 3

ReleaseLow ==
  /\ pc = "low" /\ i < Released
  /\ mm' = vmm_unmap_page(mm, i)
  /\ i' = i + 1
  /\ UNCHANGED <<acpi_rest, pc, mb_info, kpg, vga, sp, j>>

ReleaseLowEnd ==
  /\ pc = "low" /\ i >= Released
  /\ pc' = "lock" /\ i' = 1 /\ j' = 0
  /\ UNCHANGED <<acpi_rest, mb_info, kpg, mm, vga, sp>>

(* Seeded fault: only what is marked reserved is mapped.                   *)
Locked_ReservedOnly(r) == r.type = "RESERVED"

Locked(r) == ~Available(r)

pg_num(r) == (r.len + PAGE - 1) \div PAGE

LockPage ==
  /\ pc = "lock" /\ i <= Len(mb_info)
  /\ Locked(mb_info[i]) /\ j < pg_num(mb_info[i])
  /\ LET pa == PageOf(mb_info[i].addr) + j IN mm' \in vmm_set_mapping(mm, pa, pa)
  /\ j' = j + 1
  /\ UNCHANGED <<acpi_rest, pc, i, mb_info, kpg, vga, sp>>

NextRegion ==
  /\ pc = "lock" /\ i <= Len(mb_info)
  /\ Locked(mb_info[i]) => j >= pg_num(mb_info[i])
  /\ i' = i + 1 /\ j' = 0
  /\ UNCHANGED <<acpi_rest, pc, mb_info, kpg, mm, vga, sp>>

LockEnd ==
  /\ pc = "lock" /\ i > Len(mb_info)
  /\ pc' = "acpi"
  /\ UNCHANGED <<acpi_rest, i, boot_vars>>

ioapic_addr == PageOf(toc.ioapic.ioapic_addr)

MapDevices ==
  /\ pc = "devices" /\ pc' = "ioapic"
  /\ \E m \in vmm_set_mapping([mm EXCEPT !.free = @ \ {APIC_P, ioapic_addr}], APIC_V, APIC_P) :
       mm' \in vmm_set_mapping(m, IOAPIC_V, ioapic_addr)
  /\ UNCHANGED <<acpi_rest, i, mb_info, kpg, vga, sp, j>>

(* timer_init, which turns interrupts on, is Calibration's.                *)
timer_init ==
  /\ pc = "timer" /\ pc' = "release"
  /\ i' = LOW
  /\ UNCHANGED <<acpi_rest, boot_vars>>

ReleaseHhk ==
  /\ pc = "release" /\ i < LOW + HHK
  /\ mm' = vmm_unmap_page(mm, i)
  /\ i' = i + 1
  /\ UNCHANGED <<acpi_rest, pc, mb_info, kpg, vga, sp, j>>

ReleaseEnd ==
  /\ pc = "release" /\ i >= LOW + HHK
  /\ pc' = "main"
  /\ UNCHANGED <<acpi_rest, i, boot_vars>>

Next ==
  \/ _save_multiboot_info \/ _hhk_init \/ EnablePaging
  \/ _kernel_pre_init \/ FreeRegion \/ OccupyKernel \/ MapVga
  \/ AllocStack \/ kalloc_init \/ SwitchStack
  \/ ReleaseLow \/ ReleaseLowEnd \/ LockPage \/ NextRegion \/ LockEnd
  \/ MapDevices \/ timer_init \/ ReleaseHhk \/ ReleaseEnd
  \/ (AcpiNext /\ UNCHANGED boot_vars)

Spec == Init /\ [][Next]_vars

-----------------------------------------------------------------------------
Early == {"start", "hhk", "paging", "pre_init", "memory"}

(* The pages with what is read or written at pc: code and data, stack,     *)
(* screen, the saved memory map, the firmware's tables, the devices.       *)
Touched ==
  (IF pc \in {"start", "hhk", "paging"} THEN {}
   ELSE {HIGHER + p : p \in kernel_start .. kernel_end - 1}
        \cup (IF sp = "boot" THEN Hhk ELSE K_STACK_START .. K_STACK_START + STACK - 1)
        \cup {vga})
  \cup CASE pc \in {"pre_init", "memory", "lock"} -> Hhk
         [] pc = "acpi" -> PageOf(SCAN) .. LOW - 1
         [] pc = "rsdt" -> {PageOf(rsdt)} \cup
              (IF i < entry_n THEN {PageOf(rsdt + i + HDR), PageOf(sdthdr)} ELSE {})
         [] pc = "madt" /\ ics_start < ics_end -> {PageOf(ics_start)}
         [] pc = "devices" -> {PageOf(a) : a \in Of(mem, {"ics"})}
         [] pc \in {"ioapic", "ioapic_high"} ->
              {APIC_V, IOAPIC_V} \cup {PageOf(a) : a \in Of(mem, {"ics"})}
         [] pc \in {"timer", "release", "main"} -> {APIC_V}
         [] OTHER -> {}

(* What the page must lead to: the kernel is linked HIGHER up, the stack   *)
(* is wherever the allocator said, what boot set up is identity mapped.    *)
Reaches(v) ==
  CASE v >= K_STACK_START -> 1 .. MAX_PG - 1
    [] v = VGA_V -> {VGA}
    [] v \in {APIC_V, IOAPIC_V} -> Nat
    [] v \in HIGHER .. K_STACK_START - 1 -> {v - HIGHER}
    [] OTHER -> {v}

(* Nothing the boot still needs is taken away from under it: every page it *)
(* touches is mapped to the right frame, which nobody else can be given    *)
(* (boot.S:135-146, k_init.c:104-126, acpi.c:117-126).                     *)
NoFault ==
  \A v \in Touched :
    /\ mm.dir[v \div ENT] # NONE /\ mm.pte[v] \in Reaches(v)
    /\ pc \notin Early => mm.pte[v] \notin mm.free

(* The frames the allocator can give are memory the firmware declared      *)
(* available, and none of them is mapped or is a page table                *)
(* (k_init.c:181-195, 104-126).                                            *)
FreeIsUsable ==
  pc \notin Early => \A f \in mm.free :
    /\ \E k \in DOMAIN machine.mmap :
         LET r == machine.mmap[k] IN
           Available(r) /\ f * PAGE >= r.addr /\ (f + 1) * PAGE <= r.addr + r.len
    /\ \A v \in UserVAs : mm.pte[v] # f
    /\ \A s \in Slots : mm.dir[s] # f

(* The interrupt controllers are where the kernel looks for them, although *)
(* a mapping that is in the way would win in silence (k_init.c:117-118).   *)
DevicesReached ==
  pc \in {"ioapic", "ioapic_high", "timer", "release", "main"} =>
    /\ mm.pte[APIC_V] = APIC_P
    /\ \E e \in Ics(mem) : e.type = "IOAPIC" /\ mm.pte[IOAPIC_V] = PageOf(e.ioapic_addr)
=============================================================================
