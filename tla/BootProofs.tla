----------------------------- MODULE BootProofs -----------------------------
(***************************************************************************)
(* Theorems about Boot and Acpi, for every layout, memory map and set of   *)
(* tables that meet their assumptions, and every choice of the allocator.  *)
(***************************************************************************)
EXTENDS Boot, FiniteSetTheorems, TLAPS

Unpaged == {"start", "hhk", "paging"}
BeforeVga == {"pre_init", "memory", "vga"}
BeforeLow == BeforeVga \cup {"stack", "switch"}
WithDevices == {"ioapic", "ioapic_high", "timer", "release", "main"}
AcpiWalk == {"acpi", "rsdt", "madt", "devices"}

(* The first megabyte and hhk_init, but for the pages that are released.   *)
RamLow == {APIC_V, IOAPIC_V} \cup Hhk
Below == 0 .. kernel_start - 1

MM == [dir : [Slots -> Nat \cup {NONE}],
       pte : [UserVAs -> Nat \cup {NONE}],
       free : SUBSET Nat]

Types ==
  /\ machine \in Machines /\ i \in Nat /\ j \in Nat /\ mm \in MM
  /\ pc \in Unpaged \cup BeforeLow \cup {"low", "lock"} \cup AcpiWalk \cup WithDevices
  /\ pc # "start" => mb_info = machine.mmap
  /\ (pc = "release" => i >= LOW) /\ (pc = "lock" => i >= 1)
  /\ sp = IF pc \in Unpaged \cup BeforeLow THEN "boot" ELSE "kernel"
  /\ vga = IF pc \in Unpaged \cup BeforeVga THEN VGA ELSE VGA_V

(* Before paging there are only the entries hhk_init writes.               *)
BootTables ==
  /\ pc \in Unpaged => mm.free = {}
  /\ pc \in {"start", "hhk"} => DOMAIN kpg = 0 .. 6 * ENT - 1
  /\ pc = "paging" => kpg = Over(_init_page, [x \in 0 .. 6 * ENT - 1 |-> NONE])

(* Pages of the boot that are still identity mapped.                       *)
Kept(v) ==
  \/ v > IOAPIC_V /\ v < LOW
  \/ v <= IOAPIC_V /\ (pc \in BeforeLow \/ (pc = "low" /\ i <= v))
  \/ v \in Hhk /\ pc # "main" /\ (pc = "release" => i <= v)

Identity == \A v \in Below : Kept(v) => mm.pte[v] = v

(* What the page tables hold: entries belong to tables; the kernel, the    *)
(* screen and the stack are mapped; anything else below the kernel is      *)
(* mapped to itself, so a locked page is, if it is mapped at all.          *)
Rooted(m) ==
  /\ \A s \in BootSlots : m.dir[s] # NONE
  /\ \A v \in UserVAs : m.pte[v] # NONE => m.dir[v \div ENT] # NONE

KernelMapped == \A p \in kernel_start .. kernel_end - 1 : mm.pte[HIGHER + p] = p

VgaMapped == mm.pte[VGA_V] = IF pc \in BeforeVga THEN NONE ELSE VGA

StackMapped ==
  \A k \in 0 .. STACK - 1 :
    IF pc \in BeforeVga \/ (pc = "stack" /\ k >= i)
    THEN mm.pte[K_STACK_START + k] = NONE
    ELSE mm.pte[K_STACK_START + k] \in 1 .. MAX_PG - 1

HeapFree == pc \in BeforeVga \cup {"stack"} => mm.pte[HIGHER + kernel_end] = NONE

LowerIdentity ==
  \A v \in 0 .. HIGHER - 1 :
    v # VGA_V /\ (v \in {APIC_V, IOAPIC_V} => pc \notin WithDevices) => mm.pte[v] \in {NONE, v}

DevicesMapped ==
  /\ \A v \in {APIC_V, IOAPIC_V} :
       (pc = "low" /\ v < i) \/ pc \in {"lock"} \cup AcpiWalk => mm.pte[v] = NONE
  /\ pc \in WithDevices =>
       mm.pte[APIC_V] = APIC_P /\ mm.pte[IOAPIC_V] = PageOf(toc.ioapic.ioapic_addr)

LockPages(r) == PageOf(r.addr) .. PageOf(r.addr) + pg_num(r) - 1

(* lock_reserved_memory has come so far.                                   *)
LockedMapped ==
  \A k \in DOMAIN machine.mmap : Locked(machine.mmap[k]) =>
    \A p \in LockPages(machine.mmap[k]) :
      /\ p \div ENT # SELF
      /\ \/ pc = "lock" /\ (k < i \/ (k = i /\ p < PageOf(machine.mmap[k].addr) + j))
         \/ pc \in AcpiWalk \cup WithDevices
      => mm.pte[p] # NONE

(* Who may have a frame: the free ones are of available memory and in no   *)
(* table; a page of low memory that is to be released is mapped once.      *)
Held(f) == \E k \in DOMAIN machine.mmap : Available(machine.mmap[k]) /\ Holds(machine.mmap[k], f)

Unused(m) == \A f \in m.free : (\A v \in UserVAs : m.pte[v] # f) /\ (\A s \in Slots : m.dir[s] # f)

Free ==
  /\ \A f \in mm.free : Held(f)
  /\ pc \notin Early => Unused(mm) /\ 0 \notin mm.free
  /\ pc \in Early \ Unpaged =>
       /\ \A v \in UserVAs : mm.pte[v] \in 0 .. kernel_end - 1 \cup {NONE}
       /\ \A s \in Slots : mm.dir[s] \in 0 .. kernel_end - 1 \cup {NONE}

(* No allocation finds the pool empty: there is a frame for each page and  *)
(* for each table that is still to come.                                   *)
Missing(m) == {s \in UsedSlots(machine) : m.dir[s] = NONE}
PagesLeft ==
  CASE pc \in BeforeVga -> STACK + 1 [] pc = "stack" -> STACK + 1 - i [] OTHER -> 0

Enough ==
  /\ pc = "memory" => i >= 1 /\ \A k \in DOMAIN machine.mmap :
       k < i /\ Available(machine.mmap[k]) => RegionPages(machine.mmap[k]) \subseteq mm.free
  /\ pc = "stack" => i <= STACK
  /\ pc \notin Early => Cardinality(mm.free) >= PagesLeft + Cardinality(Missing(mm))

Sole(m) ==
  \A p \in RamLow : m.pte[p] = p =>
    (\A v \in UserVAs : m.pte[v] = p => v = p) /\ (\A s \in Slots : m.dir[s] # p)

Paged ==
  /\ Rooted(mm) /\ Sole(mm)
  /\ Identity /\ KernelMapped /\ VgaMapped /\ StackMapped /\ HeapFree
  /\ LowerIdentity /\ DevicesMapped /\ LockedMapped

BootInv == Types /\ BootTables /\ Free /\ Enough /\ (pc \notin Unpaged => Paged)

-----------------------------------------------------------------------------
(* The walk over the tables.                                               *)

MadtAt == CHOOSE a \in Of(mem, {"madt"}) : TRUE
Override(e, s) == e.type = "INTSO" /\ e.source = s

(* What the context holds of the entries before address c.                 *)
ParsedBelow(c) ==
  /\ \A s \in 0 .. PINS - 1 :
       toc.irq_exception[s] # NONE =>
         toc.irq_exception[s] \in Ics(mem) /\ Override(toc.irq_exception[s], s)
  /\ \A x \in Of(mem, {"ics"}) : x < c =>
       /\ mem[x].type = "INTSO" => toc.irq_exception[mem[x].source] # NONE
       /\ mem[x].type = "IOAPIC" => toc.ioapic \in Ics(mem) /\ toc.ioapic.type = "IOAPIC"

ApicAddrs == UNION {{m.mem[a].apic_addr : a \in Of(m.mem, {"madt"})} : m \in Machines}

TocType ==
  toc \in [apic_addr : ApicAddrs \cup {NONE},
           apic : Ics(mem) \cup {NONE}, ioapic : Ics(mem) \cup {NONE},
           irq_exception : {NONE} \cup [0 .. PINS - 1 -> Ics(mem) \cup {NONE}]]

Complete ==
  /\ toc.irq_exception \in [0 .. PINS - 1 -> Ics(mem) \cup {NONE}]
  /\ \A c \in Nat : ParsedBelow(c)

Walking ==
  /\ pc \in {"rsdt", "madt"} =>
       /\ rsdt \in Of(mem, {"rsdt"}) /\ TocType
       /\ i <= Len(mem[rsdt].entry)
  /\ pc = "rsdt" => ((\E k \in 1 .. i : mem[mem[rsdt].entry[k]].kind = "madt") => Complete)
  /\ pc = "madt" =>
       /\ i < Len(mem[rsdt].entry)
       /\ \E a \in Of(mem, {"madt"}) : ics_end = a + mem[a].length
       /\ ics_start \in Of(mem, {"ics"}) \cup {ics_end}
       /\ toc.irq_exception \in [0 .. PINS - 1 -> Ics(mem) \cup {NONE}]
       /\ ParsedBelow(ics_start)
  /\ pc \in {"devices"} \cup WithDevices => TocType /\ Complete

Regs == IOREDTBL_BASE .. IOREDTBL_BASE + 2 * PINS - 1
Masked == [r \in Regs |-> IF r % 2 = 0 THEN IOAPIC_MASKED ELSE 0]

Redirected ==
  redtbl = CASE pc \in {"timer", "release", "main"} ->
                  [Masked EXCEPT ![reg_sel] = RTC_TIMER_IV, ![reg_sel + 1] = 0]
             [] pc = "ioapic_high" -> [Masked EXCEPT ![reg_sel] = RTC_TIMER_IV]
             [] OTHER -> Masked

AcpiInv == Walking /\ Redirected

IInv == BootInv /\ AcpiInv

-----------------------------------------------------------------------------
(* Numbers.                                                                *)

LEMMA Division ==
  ASSUME NEW d \in Nat, d > 0, NEW x \in Nat
  PROVE  x \div d \in Nat /\ x % d \in 0 .. d - 1 /\ x = d * (x \div d) + (x % d)
OBVIOUS

LEMMA Multiples ==
  ASSUME NEW d \in Nat, NEW a \in Nat, NEW b \in Nat
  PROVE  /\ d * a \in Nat
         /\ a <= b => d * a <= d * b
         /\ a < b => d * a + d <= d * b
<1>1. \A k \in Nat : d * k \in Nat /\ d * (a + k) = d * a + d * k /\ d * (a + k + 1) = d * a + d * k + d
  OBVIOUS
<1>2. ASSUME a <= b PROVE d * a <= d * b
  <2>1. PICK k \in Nat : b = a + k
    BY <1>2
  <2>. QED
    BY <2>1, <1>1
<1>3. ASSUME a < b PROVE d * a + d <= d * b
  <2>1. PICK k \in Nat : b = a + k + 1
    BY <1>3
  <2>. QED
    BY <2>1, <1>1
<1>. QED
  BY <1>1, <1>2, <1>3

(* A quotient and a remainder are the only ones.                           *)
LEMMA Quotient ==
  ASSUME NEW d \in Nat, d > 0, NEW q \in Nat, NEW r \in 0 .. d - 1
  PROVE  (d * q + r) \div d = q /\ (d * q + r) % d = r
<1>1. PICK x \in Nat : x = d * q + r
  BY Multiples
<1>2. PICK p \in Nat, s \in 0 .. d - 1 : p = x \div d /\ s = x % d
  BY Division
<1>3. d * q + r = d * p + s
  BY <1>1, <1>2, Division
<1>4. d * p \in Nat /\ d * q \in Nat
  BY Multiples
<1>5. ~(p < q)
  <2>1. p < q => d * p + d <= d * q
    BY Multiples
  <2>. QED
    BY <2>1, <1>3, <1>4
<1>6. ~(q < p)
  <2>1. q < p => d * q + d <= d * p
    BY Multiples
  <2>. QED
    BY <2>1, <1>3, <1>4
<1>7. p = q
  BY <1>5, <1>6
<1>8. s = r
  BY <1>3, <1>4, <1>7
<1>. QED
  BY <1>1, <1>2, <1>7, <1>8

(* A quotient compared with a number.                                      *)
LEMMA QuotientBelow ==
  ASSUME NEW d \in Nat, d > 0, NEW x \in Nat, NEW q \in Nat
  PROVE  x \div d < q <=> x < d * q
<1>1. PICK p \in Nat, s \in 0 .. d - 1 : p = x \div d /\ s = x % d /\ x = d * p + s
  BY Division
<1>2. d * p \in Nat /\ d * q \in Nat
  BY Multiples
<1>3. p < q => d * p + d <= d * q
  BY Multiples
<1>4. q <= p => d * q <= d * p
  BY Multiples
<1>. QED
  BY <1>1, <1>2, <1>3, <1>4

(* The constants are numbers, and the parts of memory and of the address   *)
(* space follow one another.                                               *)
LEMMA Layout ==
  /\ PAGE \in Nat /\ PAGE > 0 /\ NONE \notin Nat
  /\ ENT \in Nat /\ ENT > 5 /\ SELF = ENT - 1 /\ SELF \in Nat
  /\ LOW \in Nat /\ HHK \in Nat /\ KERNEL \in Nat /\ MAX_PG \in Nat /\ STACK \in Nat
  /\ kernel_start = LOW + HHK /\ kernel_start \in Nat /\ kernel_start <= ENT
  /\ kernel_end = kernel_start + KERNEL + 6 /\ ptd = kernel_start + KERNEL
  /\ Below = 0 .. kernel_start - 1 /\ Hhk = LOW .. kernel_start - 1
  /\ APIC_V = 1 /\ IOAPIC_V = 2
  /\ VGA \in Nat /\ VGA > 2 /\ VGA < LOW
  /\ VGA_V \in Nat /\ ENT <= VGA_V /\ VGA_V < HIGHER
  /\ HIGHER \in Nat /\ K_STACK_START \in Nat
  /\ HIGHER + kernel_end < K_STACK_START /\ K_STACK_START + STACK = ENT * SELF
  /\ ENT * SELF \in Nat /\ UserVAs = 0 .. ENT * SELF - 1
  /\ APIC_P \in Nat
<1>1. /\ {PAGE, ENT, LOW, HHK, KERNEL, HIGHER, VGA, VGA_V, STACK, MAX_PG, APIC_P, SCAN} \subseteq Nat
      /\ LOW + HHK <= ENT /\ HIGHER \div ENT + 3 < SELF
      /\ PAGE > 0 /\ NONE \notin Nat
      /\ VGA > 2 /\ VGA < LOW
      /\ ENT <= VGA_V /\ VGA_V < HIGHER /\ HIGHER + kernel_end < K_STACK_START
  BY LayoutAssumption DEF IOAPIC_V
<1>2. ENT > 0
  BY <1>1
<1>3. HIGHER \div ENT \in Nat /\ HIGHER \div ENT >= 1
  <2>1. HIGHER \div ENT < 1 <=> HIGHER < ENT * 1
    BY <1>1, <1>2, QuotientBelow
  <2>2. ENT * 1 = ENT /\ HIGHER \div ENT \in Nat
    BY <1>1, <1>2, Division
  <2>. QED
    BY <2>1, <2>2, <1>1
<1>4. ENT > 5 /\ SELF \in Nat /\ SELF = ENT - 1
  BY <1>1, <1>3 DEF SELF
<1>5. ENT * SELF \in Nat
  BY <1>1, <1>4, Multiples
<1>6. kernel_start = LOW + HHK /\ ptd = kernel_start + KERNEL /\ kernel_end = kernel_start + KERNEL + 6
  BY <1>1 DEF kernel_start, ptd, kernel_end
<1>7. K_STACK_START + STACK = ENT * SELF /\ K_STACK_START \in Nat
  BY <1>1, <1>5, <1>6 DEF K_STACK_START
<1>8. /\ PAGE \in Nat /\ ENT \in Nat /\ LOW \in Nat /\ HHK \in Nat /\ KERNEL \in Nat
      /\ MAX_PG \in Nat /\ STACK \in Nat /\ VGA \in Nat /\ VGA_V \in Nat
      /\ HIGHER \in Nat /\ APIC_P \in Nat
  BY <1>1
<1>9. kernel_start \in Nat /\ kernel_start <= ENT /\ kernel_start - 1 = LOW + HHK - 1
  BY <1>1, <1>6, <1>8
<1>10. Below = 0 .. kernel_start - 1 /\ Hhk = LOW .. kernel_start - 1
  BY <1>6, <1>9 DEF Below, Hhk
<1>11. UserVAs = 0 .. ENT * SELF - 1 /\ APIC_V = 1 /\ IOAPIC_V = 2
  BY DEF UserVAs, APIC_V, IOAPIC_V
<1>. QED
  BY <1>1, <1>4, <1>5, <1>6, <1>7, <1>8, <1>9, <1>10, <1>11

(* Addresses the kernel uses, and the table each is in.                    *)
LEMMA Addresses ==
  /\ Slots = 0 .. SELF
  /\ \A v \in UserVAs : v \in Nat /\ v \div ENT \in 0 .. SELF - 1
  /\ \A v \in UserVAs : v \div ENT \in Slots /\ v \div ENT # SELF
  /\ \A p \in 0 .. kernel_end : HIGHER + p \in UserVAs
  /\ \A v \in 0 .. HIGHER - 1 : v \in UserVAs
  /\ \A k \in 0 .. STACK - 1 : K_STACK_START + k \in UserVAs
  /\ VGA_V \in UserVAs /\ Below \subseteq 0 .. HIGHER - 1
<1>1. ASSUME NEW v \in UserVAs PROVE v \in Nat /\ v \div ENT \in 0 .. SELF - 1
  <2>1. v \in Nat /\ v < ENT * SELF
    BY Layout
  <2>2. v \div ENT < SELF /\ v \div ENT \in Nat
    BY <2>1, Layout, QuotientBelow, Division
  <2>. QED
    BY <2>1, <2>2, Layout
<1>2. PICK top \in Nat : top = ENT * SELF
  BY Layout
<1>3. UserVAs = 0 .. top - 1 /\ K_STACK_START + STACK = top
  BY <1>2, Layout
<1>4. /\ HIGHER \in Nat /\ kernel_end \in Nat /\ K_STACK_START \in Nat /\ STACK \in Nat
      /\ HIGHER + kernel_end < K_STACK_START /\ kernel_start <= ENT /\ ENT <= VGA_V
      /\ VGA_V < HIGHER /\ VGA_V \in Nat /\ kernel_start \in Nat /\ Below = 0 .. kernel_start - 1
  BY Layout
<1>5. Slots = 0 .. SELF
  BY Layout DEF Slots
<1>8. ASSUME NEW v \in UserVAs PROVE v \div ENT \in Slots /\ v \div ENT # SELF
  <2>1. v \div ENT \in 0 .. SELF - 1 /\ SELF \in Nat
    BY <1>1, Layout
  <2>. QED
    BY <2>1, <1>5
<1>6. /\ \A p \in 0 .. kernel_end : HIGHER + p \in UserVAs
      /\ \A v \in 0 .. HIGHER - 1 : v \in UserVAs
      /\ \A k \in 0 .. STACK - 1 : K_STACK_START + k \in UserVAs
  BY <1>3, <1>4
<1>7. VGA_V \in UserVAs /\ Below \subseteq 0 .. HIGHER - 1
  <2>1. VGA_V \in 0 .. HIGHER - 1 /\ \A x \in 0 .. kernel_start - 1 : x \in 0 .. HIGHER - 1
    <3>1. PICK e \in Nat : e = ENT
      BY Layout
    <3>. QED
      BY <3>1, <1>4
  <2>. QED
    BY <2>1, <1>6, <1>4
<1>. QED
  BY <1>1, <1>5, <1>6, <1>7, <1>8

(* The tables of the kernel are three, behind the first one.               *)
LEMMA KernelTables ==
  /\ kernel_pde_index \in Nat /\ kernel_pde_index >= 1 /\ kernel_pde_index + 2 < SELF
  /\ kernel_pte_index \in 0 .. ENT - 1
  /\ HIGHER + kernel_start = ENT * kernel_pde_index + kernel_pte_index
  /\ kernel_pte_index + KERNEL + 6 <= 3 * ENT
  /\ BootSlots = {0, SELF, kernel_pde_index, kernel_pde_index + 1, kernel_pde_index + 2}
  /\ BootSlots \subseteq Slots
<1>1. PICK h \in Nat : h = HIGHER \div ENT
  BY Layout, Division
<1>2. PICK a \in Nat, c \in 0 .. ENT - 1 :
        a = kernel_start \div ENT /\ c = kernel_start % ENT /\ kernel_start = ENT * a + c
  <2>1. ENT \in Nat /\ ENT > 0 /\ kernel_start \in Nat
    BY Layout
  <2>2. /\ kernel_start \div ENT \in Nat /\ kernel_start % ENT \in 0 .. ENT - 1
        /\ kernel_start = ENT * (kernel_start \div ENT) + (kernel_start % ENT)
    BY <2>1, Division
  <2>. QED
    BY <2>2
<1>3. HIGHER % ENT = 0 /\ h + 3 < SELF /\ c + KERNEL + 6 <= 3 * ENT
  BY <1>1, <1>2, LayoutAssumption
<1>4. HIGHER = ENT * h
  <2>1. HIGHER = ENT * (HIGHER \div ENT) + (HIGHER % ENT)
    BY Layout, Division
  <2>2. ENT * h \in Nat
    BY Layout, Multiples
  <2>. QED
    BY <2>1, <2>2, <1>1, <1>3, Layout
<1>5. HIGHER + kernel_start = ENT * (h + a) + c
  BY <1>2, <1>4, Layout
<1>6. kernel_pde_index = h + a /\ kernel_pte_index = c
  <2>1. h + a \in Nat
    OBVIOUS
  <2>2. (ENT * (h + a) + c) \div ENT = h + a /\ (ENT * (h + a) + c) % ENT = c
    BY <2>1, Layout, Quotient
  <2>. QED
    BY <2>2, <1>5 DEF kernel_pde_index, kernel_pte_index
<1>7. a <= 1
  <2>1. kernel_start \div ENT < 2 <=> kernel_start < ENT * 2
    BY Layout, QuotientBelow
  <2>. QED
    BY <2>1, <1>2, Layout
<1>8. h >= 1
  <2>1. h < 1 <=> HIGHER < ENT * 1
    BY <1>1, Layout, QuotientBelow
  <2>. QED
    BY <2>1, <1>1, Layout
<1>9. BootSlots = {0, SELF, kernel_pde_index, kernel_pde_index + 1, kernel_pde_index + 2}
  <2>1. 0 .. 2 = {0, 1, 2}
    OBVIOUS
  <2>2. kernel_pde_index + 0 = kernel_pde_index
    BY <1>6
  <2>. QED
    BY <2>1, <2>2 DEF BootSlots, kernel_pde_index
<1>10. kernel_pde_index \in Nat /\ kernel_pde_index >= 1 /\ kernel_pde_index + 2 < SELF
  BY <1>3, <1>6, <1>7, <1>8, Layout
<1>11. HIGHER + kernel_start = ENT * kernel_pde_index + kernel_pte_index
  BY <1>5, <1>6
<1>12. BootSlots \subseteq Slots
  <2>1. SELF \in Nat /\ Slots = 0 .. SELF
    BY Layout, Addresses
  <2>2. /\ 0 \in Slots /\ SELF \in Slots /\ kernel_pde_index \in Slots
        /\ kernel_pde_index + 1 \in Slots /\ kernel_pde_index + 2 \in Slots
    BY <2>1, <1>10
  <2>. QED
    BY <2>2, <1>9
<1>. QED
  BY <1>3, <1>6, <1>9, <1>10, <1>11, <1>12

(* What _hhk_init writes, entry by entry: the writes do not meet           *)
(* (hhk.c:119-200).                                                        *)
LEMMA PagesInitialised ==
  ASSUME NEW k, k = Over(_init_page, [x \in 0 .. 6 * ENT - 1 |-> NONE])
  PROVE  /\ \A s \in Slots :
              k[s] = IF s = 0 THEN ptd + 1 ELSE IF s = SELF THEN ptd
                     ELSE IF s >= kernel_pde_index /\ s <= kernel_pde_index + 2
                          THEN ptd + 2 + (s - kernel_pde_index) ELSE NONE
         /\ \A v \in 0 .. ENT - 1 : k[ENT + v] = IF v < kernel_start THEN v ELSE NONE
         /\ \A x \in 0 .. 3 * ENT - 1 :
              k[2 * ENT + x] = IF x >= kernel_pte_index /\ x < kernel_pte_index + KERNEL + 6
                               THEN kernel_start + (x - kernel_pte_index) ELSE NONE
<1>0. PICK q, d, f1, f2, f3, f4, f5, f6, g :
       /\ q = kernel_pte_index /\ d = kernel_pde_index
       /\ f1 = Run(SELF, 1, ptd)
       /\ f2 = Run(2 * ENT + q, KERNEL + 6, kernel_start)
       /\ f3 = Run(d, 3, ptd + 2)
       /\ f4 = Run(ENT + LOW, HHK, LOW)
       /\ f5 = Run(ENT, LOW, 0)
       /\ f6 = Run(0, 1, ptd + 1)
       /\ g = [x \in 0 .. 6 * ENT - 1 |-> NONE]
  OBVIOUS
<1>1. k = Over(Over(f1, Over(f2, Over(f3, Over(f4, Over(f5, f6))))), g)
  <2>1. PT_ADDR(1) = 2 * ENT /\ PT_ADDR(0) = ENT /\ kernel_end - kernel_start = KERNEL + 6
    BY Layout DEF PT_ADDR
  <2>. QED
    BY <1>0, <2>1 DEF _init_page
<1>2. /\ d \in Nat /\ d >= 1 /\ d + 2 < SELF /\ q \in 0 .. ENT - 1 /\ q + KERNEL + 6 <= 3 * ENT
      /\ kernel_start \in Nat /\ kernel_start = LOW + HHK /\ kernel_start <= ENT
      /\ ptd \in Nat /\ LOW \in Nat /\ HHK \in Nat /\ KERNEL \in Nat /\ ENT \in Nat /\ ENT > 5 /\ SELF = ENT - 1
      /\ Slots = 0 .. ENT - 1
  BY <1>0, Layout, KernelTables DEF Slots
<1>3. /\ DOMAIN f1 = {SELF} /\ f1[SELF] = ptd
      /\ DOMAIN f6 = {0} /\ f6[0] = ptd + 1
  <2>1. DOMAIN f1 = SELF .. SELF + 1 - 1 /\ DOMAIN f6 = 0 .. 0 + 1 - 1
    BY <1>0 DEF Run
  <2>2. SELF .. SELF + 1 - 1 = {SELF} /\ 0 .. 0 + 1 - 1 = {0}
    BY <1>2
  <2>3. \A x \in DOMAIN f1 : f1[x] = ptd + (x - SELF)
    BY <1>0 DEF Run
  <2>4. \A x \in DOMAIN f6 : f6[x] = ptd + 1 + (x - 0)
    BY <1>0 DEF Run
  <2>5. ptd + (SELF - SELF) = ptd /\ ptd + 1 + (0 - 0) = ptd + 1
    BY <1>2
  <2>. QED
    BY <2>1, <2>2, <2>3, <2>4, <2>5
<1>4. /\ DOMAIN f2 = 2 * ENT + q .. 2 * ENT + q + KERNEL + 5
      /\ \A x \in DOMAIN f2 : f2[x] = kernel_start + (x - (2 * ENT + q))
  <2>1. /\ DOMAIN f2 = 2 * ENT + q .. 2 * ENT + q + (KERNEL + 6) - 1
        /\ \A x \in DOMAIN f2 : f2[x] = kernel_start + (x - (2 * ENT + q))
    BY <1>0 DEF Run
  <2>2. 2 * ENT + q + (KERNEL + 6) - 1 = 2 * ENT + q + KERNEL + 5
    BY <1>2
  <2>. QED
    BY <2>1, <2>2
<1>5. DOMAIN f3 = d .. d + 2 /\ \A x \in DOMAIN f3 : f3[x] = ptd + 2 + (x - d)
  <2>1. DOMAIN f3 = d .. d + 3 - 1 /\ \A x \in DOMAIN f3 : f3[x] = ptd + 2 + (x - d)
    BY <1>0 DEF Run
  <2>2. d + 3 - 1 = d + 2
    BY <1>2
  <2>. QED
    BY <2>1, <2>2
<1>6. /\ DOMAIN f4 = ENT + LOW .. ENT + LOW + HHK - 1
      /\ \A x \in DOMAIN f4 : f4[x] = LOW + (x - (ENT + LOW))
      /\ DOMAIN f5 = ENT .. ENT + LOW - 1
      /\ \A x \in DOMAIN f5 : f5[x] = 0 + (x - ENT)
  BY <1>0 DEF Run
<1>7. DOMAIN g = 0 .. 6 * ENT - 1 /\ \A x \in DOMAIN g : g[x] = NONE
  BY <1>0
<1>8. ASSUME NEW x \in 0 .. 6 * ENT - 1
      PROVE  k[x] = IF x \in DOMAIN f1 THEN f1[x] ELSE IF x \in DOMAIN f2 THEN f2[x]
                    ELSE IF x \in DOMAIN f3 THEN f3[x] ELSE IF x \in DOMAIN f4 THEN f4[x]
                    ELSE IF x \in DOMAIN f5 THEN f5[x] ELSE IF x \in DOMAIN f6 THEN f6[x] ELSE NONE
  <2>1. x \in DOMAIN g /\ g[x] = NONE
    BY <1>7
  <2>3. PICK r5 : r5 = Over(f5, f6)
    OBVIOUS
  <2>4. PICK r4 : r4 = Over(f4, r5)
    OBVIOUS
  <2>5. PICK r3 : r3 = Over(f3, r4)
    OBVIOUS
  <2>6. PICK r2 : r2 = Over(f2, r3)
    OBVIOUS
  <2>7. PICK r1 : r1 = Over(f1, r2)
    OBVIOUS
  <2>8. /\ x \in DOMAIN r5 <=> x \in DOMAIN f5 \/ x \in DOMAIN f6
        /\ x \in DOMAIN f5 => r5[x] = f5[x]
        /\ x \notin DOMAIN f5 /\ x \in DOMAIN f6 => r5[x] = f6[x]
    BY <2>3 DEF Over
  <2>9. /\ x \in DOMAIN r4 <=> x \in DOMAIN f4 \/ x \in DOMAIN r5
        /\ x \in DOMAIN f4 => r4[x] = f4[x]
        /\ x \notin DOMAIN f4 /\ x \in DOMAIN r5 => r4[x] = r5[x]
    BY <2>4 DEF Over
  <2>10. /\ x \in DOMAIN r3 <=> x \in DOMAIN f3 \/ x \in DOMAIN r4
         /\ x \in DOMAIN f3 => r3[x] = f3[x]
         /\ x \notin DOMAIN f3 /\ x \in DOMAIN r4 => r3[x] = r4[x]
    BY <2>5 DEF Over
  <2>11. /\ x \in DOMAIN r2 <=> x \in DOMAIN f2 \/ x \in DOMAIN r3
         /\ x \in DOMAIN f2 => r2[x] = f2[x]
         /\ x \notin DOMAIN f2 /\ x \in DOMAIN r3 => r2[x] = r3[x]
    BY <2>6 DEF Over
  <2>12. /\ x \in DOMAIN r1 <=> x \in DOMAIN f1 \/ x \in DOMAIN r2
         /\ x \in DOMAIN f1 => r1[x] = f1[x]
         /\ x \notin DOMAIN f1 /\ x \in DOMAIN r2 => r1[x] = r2[x]
    BY <2>7 DEF Over
  <2>13. (x \in DOMAIN r1 => k[x] = r1[x]) /\ (x \notin DOMAIN r1 => k[x] = NONE)
    <3>1. k = Over(r1, g)
      BY <1>1, <2>3, <2>4, <2>5, <2>6, <2>7
    <3>. QED
      BY <3>1, <2>1 DEF Over
  <2>14. CASE x \in DOMAIN f1 \/ x \in DOMAIN f2
    BY <2>11, <2>12, <2>13, <2>14
  <2>15. CASE x \notin DOMAIN f1 /\ x \notin DOMAIN f2 /\ (x \in DOMAIN f3 \/ x \in DOMAIN f4)
    BY <2>9, <2>10, <2>11, <2>12, <2>13, <2>15
  <2>16. CASE x \notin DOMAIN f1 /\ x \notin DOMAIN f2 /\ x \notin DOMAIN f3 /\ x \notin DOMAIN f4
    BY <2>8, <2>9, <2>10, <2>11, <2>12, <2>13, <2>16
  <2>. QED
    BY <2>14, <2>15, <2>16
<1>9. ASSUME NEW s \in Slots
      PROVE  k[s] = IF s = 0 THEN ptd + 1 ELSE IF s = SELF THEN ptd
                    ELSE IF s >= d /\ s <= d + 2 THEN ptd + 2 + (s - d) ELSE NONE
  <2>1. s \in 0 .. 6 * ENT - 1 /\ s \notin DOMAIN f2 /\ s \notin DOMAIN f4 /\ s \notin DOMAIN f5
    BY <1>2, <1>4, <1>6
  <2>2. s \in DOMAIN f3 <=> s >= d /\ s <= d + 2
    BY <1>2, <1>5
  <2>3. k[s] = IF s \in DOMAIN f1 THEN f1[s] ELSE IF s \in DOMAIN f3 THEN f3[s]
               ELSE IF s \in DOMAIN f6 THEN f6[s] ELSE NONE
    BY <2>1, <1>8
  <2>4. s \in Nat /\ SELF # 0 /\ d > 0
    BY <1>2
  <2>. QED
    BY <2>2, <2>3, <2>4, <1>2, <1>3, <1>5
<1>10. ASSUME NEW v \in 0 .. ENT - 1 PROVE k[ENT + v] = IF v < kernel_start THEN v ELSE NONE
  <2>1. /\ ENT + v \in 0 .. 6 * ENT - 1 /\ ENT + v \notin DOMAIN f1 /\ ENT + v \notin DOMAIN f2
        /\ ENT + v \notin DOMAIN f3 /\ ENT + v \notin DOMAIN f6
    BY <1>2, <1>3, <1>4, <1>5
  <2>2. ENT + v \in DOMAIN f4 <=> v >= LOW /\ v < kernel_start
    BY <1>2, <1>6
  <2>3. ENT + v \in DOMAIN f5 <=> v < LOW
    BY <1>2, <1>6
  <2>4. LOW + (ENT + v - (ENT + LOW)) = v /\ 0 + (ENT + v - ENT) = v
    BY <1>2
  <2>5. k[ENT + v] = IF ENT + v \in DOMAIN f4 THEN f4[ENT + v]
                     ELSE IF ENT + v \in DOMAIN f5 THEN f5[ENT + v] ELSE NONE
    BY <2>1, <1>8
  <2>6. v \in Nat /\ LOW \in Nat /\ HHK \in Nat /\ kernel_start = LOW + HHK
    BY <1>2
  <2>7. ENT + v \in DOMAIN f4 => f4[ENT + v] = v
    <3>1. \A x \in DOMAIN f4 : f4[x] = LOW + (x - (ENT + LOW))
      BY <1>6
    <3>2. PICK y \in Nat : y = ENT + v
      BY <1>2
    <3>3. y \in DOMAIN f4 => f4[y] = v
      BY <3>1, <3>2, <1>2
    <3>. QED
      BY <3>2, <3>3
  <2>8. ENT + v \in DOMAIN f5 => f5[ENT + v] = v
    <3>1. \A x \in DOMAIN f5 : f5[x] = 0 + (x - ENT)
      BY <1>6
    <3>2. PICK y \in Nat : y = ENT + v
      BY <1>2
    <3>3. y \in DOMAIN f5 => f5[y] = v
      BY <3>1, <3>2, <1>2
    <3>. QED
      BY <3>2, <3>3
  <2>. QED
    BY <2>2, <2>3, <2>5, <2>6, <2>7, <2>8
<1>11. ASSUME NEW x \in 0 .. 3 * ENT - 1
       PROVE  k[2 * ENT + x] = IF x >= q /\ x < q + KERNEL + 6
                               THEN kernel_start + (x - q) ELSE NONE
  <2>1. /\ 2 * ENT + x \in 0 .. 6 * ENT - 1 /\ 2 * ENT + x \notin DOMAIN f1
        /\ 2 * ENT + x \notin DOMAIN f3 /\ 2 * ENT + x \notin DOMAIN f4
        /\ 2 * ENT + x \notin DOMAIN f5 /\ 2 * ENT + x \notin DOMAIN f6
    <3>1. PICK y \in Nat : y = 2 * ENT + x
      BY <1>2
    <3>2. y \in 0 .. 6 * ENT - 1 /\ y # SELF /\ y > d + 2 /\ y > ENT + LOW + HHK - 1 /\ y # 0
      BY <1>2, <3>1
    <3>3. y \notin DOMAIN f1 /\ y \notin DOMAIN f6
      BY <1>3, <3>2
    <3>4. y \notin DOMAIN f3
      BY <1>2, <1>5, <3>2
    <3>5. y \notin DOMAIN f4 /\ y \notin DOMAIN f5
      BY <1>2, <1>6, <3>2
    <3>. QED
      BY <3>1, <3>2, <3>3, <3>4, <3>5
  <2>2. 2 * ENT + x \in DOMAIN f2 <=> x >= q /\ x < q + KERNEL + 6
    BY <1>2, <1>4
  <2>3. 2 * ENT + x - (2 * ENT + q) = x - q
    BY <1>2
  <2>4. k[2 * ENT + x] = IF 2 * ENT + x \in DOMAIN f2 THEN f2[2 * ENT + x] ELSE NONE
    BY <2>1, <1>8
  <2>5. 2 * ENT + x \in DOMAIN f2 => f2[2 * ENT + x] = kernel_start + (x - q)
    <3>1. PICK y \in Nat, b \in Nat : y = 2 * ENT + x /\ b = 2 * ENT + q
      BY <1>2
    <3>2. y - b = x - q
      <4>1. x \in Nat /\ q \in Nat /\ ENT \in Nat
        BY <1>2
      <4>. QED
        BY <4>1, <3>1
    <3>3. y \in DOMAIN f2 => f2[y] = kernel_start + (y - b)
      BY <1>4, <3>1
    <3>. QED
      BY <3>1, <3>2, <3>3
  <2>. QED
    BY <2>2, <2>4, <2>5
<1>. QED
  BY <1>0, <1>9, <1>10, <1>11

(* What the processor finds in those tables: low memory and hhk_init where *)
(* they are, the kernel HIGHER up, nothing else (hhk.c:119-200).           *)
LEMMA FirstTables ==
  ASSUME NEW k, k = Over(_init_page, [x \in 0 .. 6 * ENT - 1 |-> NONE]),
         NEW v \in UserVAs
  PROVE  LET table == k[v \div ENT]
         IN  (IF table = NONE THEN NONE ELSE k[(table - ptd) * ENT + (v % ENT)]) =
             IF v < kernel_start THEN v
             ELSE IF v >= HIGHER + kernel_start /\ v < HIGHER + kernel_end THEN v - HIGHER
             ELSE NONE
<1>1. PICK t \in 0 .. SELF - 1, r \in 0 .. ENT - 1 :
        t = v \div ENT /\ r = v % ENT /\ v = ENT * t + r
  <2>1. ENT \in Nat /\ ENT > 0 /\ v \in Nat /\ v \div ENT \in 0 .. SELF - 1
    <3>1. v \in Nat /\ v \div ENT \in 0 .. SELF - 1
      BY Addresses
    <3>. QED
      BY <3>1, Layout
  <2>2. v % ENT \in 0 .. ENT - 1 /\ v = ENT * (v \div ENT) + (v % ENT)
    BY <2>1, Division
  <2>. QED
    BY <2>1, <2>2
<1>2. PICK d \in Nat, q \in 0 .. ENT - 1 : d = kernel_pde_index /\ q = kernel_pte_index
  BY KernelTables
<1>3. /\ d >= 1 /\ d + 2 < SELF /\ HIGHER + kernel_start = ENT * d + q
      /\ q + KERNEL + 6 <= 3 * ENT
      /\ kernel_end = kernel_start + KERNEL + 6 /\ kernel_start <= ENT
      /\ kernel_start \in Nat /\ HIGHER \in Nat /\ KERNEL \in Nat /\ ENT \in Nat /\ ENT > 5
      /\ ptd \in Nat /\ SELF \in Nat /\ kernel_end \in Nat /\ ENT <= HIGHER
      /\ NONE \notin Nat /\ SELF = ENT - 1
  <2>1. ptd \in Nat /\ ENT <= HIGHER
    BY Layout
  <2>. QED
    BY <1>2, <2>1, Layout, KernelTables
<1>4. /\ k[t] = IF t = 0 THEN ptd + 1
                ELSE IF t >= d /\ t <= d + 2 THEN ptd + 2 + (t - d) ELSE NONE
      /\ \A w \in 0 .. ENT - 1 : k[ENT + w] = IF w < kernel_start THEN w ELSE NONE
      /\ \A x \in 0 .. 3 * ENT - 1 :
           k[2 * ENT + x] = IF x >= q /\ x < q + KERNEL + 6 THEN kernel_start + (x - q) ELSE NONE
  <2>1. t \in Slots /\ t # SELF
    BY <1>3 DEF Slots
  <2>. QED
    BY <2>1, <1>2, PagesInitialised
<1>5. v \in Nat /\ ENT * d \in Nat /\ ENT * t \in Nat
  BY <1>3, Layout, Multiples, Addresses
<1>6. CASE t = 0
  <2>1. v = r
    BY <1>1, <1>3, <1>6
  <2>2. k[t] = ptd + 1 /\ ptd + 1 # NONE
    BY <1>3, <1>4, <1>6
  <2>4. k[ENT + v] = IF v < kernel_start THEN v ELSE NONE
    BY <2>1, <1>4
  <2>5. v < HIGHER + kernel_start
    BY <2>1, <1>3
  <2>6. k[(k[t] - ptd) * ENT + r] = k[ENT + v]
    <3>1. k[t] - ptd = 1
      BY <2>2, <1>3
    <3>2. (k[t] - ptd) * ENT + r = ENT + v
      BY <3>1, <2>1, <1>3
    <3>. QED
      BY <3>2
  <2>7. k[(k[t] - ptd) * ENT + r] = IF v < kernel_start THEN v ELSE NONE
    BY <2>4, <2>6
  <2>8. k[t] # NONE /\ ~(v >= HIGHER + kernel_start)
    BY <2>2, <2>5, <1>3, <1>5
  <2>. QED
    BY <1>1, <2>7, <2>8
<1>7. CASE t >= d /\ t <= d + 2
  <2>1. PICK c \in 0 .. 2 : t = d + c
    BY <1>7, <1>2
  <2>2. PICK e \in Nat, b \in Nat, x \in Nat : e = ENT * c /\ b = ENT * d /\ x = e + r
    <3>1. ENT * c \in Nat
      BY <1>3, Multiples
    <3>. QED
      BY <3>1, <1>5, <1>3
  <2>3. ENT * t = b + e
    BY <2>1, <2>2, <1>3, Multiples
  <2>4. (2 + c) * ENT = 2 * ENT + e
    BY <2>2, <1>3
  <2>5. (c = 0 => e = 0) /\ (c = 1 => e = ENT) /\ (c = 2 => e = 2 * ENT)
    BY <2>2, <1>3
  <2>6. x \in 0 .. 3 * ENT - 1
    BY <2>1, <2>2, <2>5, <1>3
  <2>7. k[t] = ptd + 2 + c /\ k[t] # NONE
    <3>1. t # 0 /\ ptd + 2 + (t - d) = ptd + 2 + c /\ ptd + 2 + c \in Nat
      BY <2>1, <1>3, <1>7
    <3>. QED
      BY <3>1, <1>3, <1>4, <1>7
  <2>8. (k[t] - ptd) * ENT + r = 2 * ENT + x
    <3>1. k[t] - ptd = 2 + c
      BY <2>7, <1>3
    <3>. QED
      BY <3>1, <2>2, <2>4, <1>3
  <2>9. v = b + x /\ HIGHER + kernel_start = b + q
    <3>1. v = ENT * t + r /\ ENT * t = b + e /\ x = e + r /\ b \in Nat /\ e \in Nat
      BY <2>2, <2>3, <1>1
    <3>2. v = b + x
      BY <3>1
    <3>. QED
      BY <3>2, <2>2, <1>3
  <2>10. /\ v >= HIGHER + kernel_start /\ v < HIGHER + kernel_end <=> x >= q /\ x < q + KERNEL + 6
         /\ x >= q => kernel_start + (x - q) = v - HIGHER
    BY <2>2, <2>9, <1>3, <1>5
  <2>11. ~(v < kernel_start)
    <3>1. b >= ENT
      <4>1. d = 1 \/ 1 < d
        BY <1>3
      <4>2. ENT * 1 <= ENT * d /\ ENT * 1 = ENT
        BY <4>1, <1>3, Multiples
      <4>. QED
        BY <4>2, <2>2
    <3>. QED
      BY <3>1, <2>9, <2>2, <1>3
  <2>12. k[2 * ENT + x] = IF x >= q /\ x < q + KERNEL + 6 THEN kernel_start + (x - q) ELSE NONE
    BY <2>6, <1>4
  <2>. QED
    BY <1>1, <2>7, <2>8, <2>10, <2>11, <2>12
<1>8. CASE t # 0 /\ ~(t >= d /\ t <= d + 2)
  <2>1. k[t] = NONE
    BY <1>4, <1>8
  <2>2. v >= ENT
    <3>1. ENT * 1 <= ENT * t /\ ENT * 1 = ENT
      BY <1>3, <1>8, Multiples
    <3>. QED
      BY <3>1, <1>1, <1>3, <1>5
  <2>3. t < d => v < HIGHER + kernel_start
    <3>1. t < d => ENT * t + ENT <= ENT * d
      BY <1>2, <1>3, Multiples
    <3>. QED
      BY <3>1, <1>1, <1>3, <1>5
  <2>4. t > d + 2 => v >= HIGHER + kernel_end
    <3>1. t > d + 2 => ENT * (d + 2) + ENT <= ENT * t
      <4>1. d + 2 \in Nat /\ t \in Nat /\ ENT \in Nat
        BY <1>2, <1>3
      <4>. QED
        BY <4>1, Multiples
    <3>2. ENT * (d + 2) + ENT = ENT * d + 3 * ENT
      BY <1>2, <1>3
    <3>. QED
      BY <3>1, <3>2, <1>1, <1>3, <1>5
  <2>. QED
    BY <1>1, <1>3, <1>8, <2>1, <2>2, <2>3, <2>4
<1>. QED
  BY <1>6, <1>7, <1>8

-----------------------------------------------------------------------------
(* Page tables.                                                            *)

(* Page v has been mapped to p: no other entry changed, a new table is in  *)
(* a frame that was free, and there are still enough of them.              *)
Mapped(m, n, v, p) ==
  /\ n \in MM /\ Rooted(n) /\ n.free \subseteq m.free
  /\ \A w \in UserVAs : n.pte[w] = IF w = v /\ m.pte[w] = NONE THEN p ELSE m.pte[w]
  /\ \A s \in Slots : n.dir[s] = m.dir[s] \/ (m.dir[s] = NONE /\ n.dir[s] \in m.free)
  /\ Unused(m) /\ p \notin m.free => Unused(n)
  /\ \A c \in Nat : Cardinality(m.free) >= c + Cardinality(Missing(m))
                      => Cardinality(n.free) >= c + Cardinality(Missing(n))

LEMMA UsedAreSlots ==
  ASSUME NEW m
  PROVE  UsedSlots(m) \subseteq Slots /\ IsFiniteSet(UsedSlots(m))
<1>1. \A v \in UserVAs : v \div ENT \in Slots
  BY Addresses
<1>2. \A k \in 0 .. STACK - 1 : K_STACK_START + k \in UserVAs
  BY Addresses
<1>3. VGA_V \in UserVAs /\ HIGHER + kernel_end \in UserVAs
  BY Addresses, Layout
<1>4. UsedSlots(m) \subseteq Slots
  BY <1>1, <1>2, <1>3 DEF UsedSlots
<1>5. IsFiniteSet(Slots)
  BY Addresses, Layout, FS_Interval
<1>. QED
  BY <1>4, <1>5, FS_Subset

(* A mapping where no table is needed, or one may be made (vmm.c:79-128).  *)
LEMMA MapInternal ==
  ASSUME NEW m \in MM, Rooted(m), IsFiniteSet(m.free), NEW v \in UserVAs, NEW p \in Nat,
         m.dir[v \div ENT] # NONE \/ v \div ENT \in UsedSlots(machine),
         Cardinality(m.free) >= Cardinality(Missing(m)),
         NEW n \in __vmm_map_internal(m, v, p)
  PROVE  Mapped(m, n, v, p)
<1>1. PICK s \in Slots : s = v \div ENT
  BY Addresses, Layout DEF Slots
<1>2. /\ m.dir \in [Slots -> Nat \cup {NONE}] /\ m.pte \in [UserVAs -> Nat \cup {NONE}]
      /\ m.free \subseteq Nat /\ NONE \notin Nat
      /\ m = [dir |-> m.dir, pte |-> m.pte, free |-> m.free]
  BY Layout DEF MM
<1>3. CASE m.dir[s] # NONE
  <2>1. n = IF m.pte[v] = NONE THEN [m EXCEPT !.pte[v] = p] ELSE m
    BY <1>1, <1>3 DEF __vmm_map_internal
  <2>2. n.dir = m.dir /\ n.free = m.free
    BY <2>1, <1>2
  <2>3. /\ n.pte \in [UserVAs -> Nat \cup {NONE}]
        /\ \A w \in UserVAs : n.pte[w] = IF w = v /\ m.pte[w] = NONE THEN p ELSE m.pte[w]
    BY <2>1, <1>2
  <2>4. n \in MM
    BY <2>1, <2>2, <2>3, <1>2 DEF MM
  <2>5. Rooted(n)
    BY <2>2, <2>3, <1>1, <1>3 DEF Rooted
  <2>6. Unused(m) /\ p \notin m.free => Unused(n)
    BY <2>2, <2>3 DEF Unused
  <2>7. Missing(n) = Missing(m)
    BY <2>2 DEF Missing
  <2>. QED
    BY <2>2, <2>3, <2>4, <2>5, <2>6, <2>7 DEF Mapped
<1>4. CASE m.dir[s] = NONE
  <2>1. s \in Missing(m) /\ IsFiniteSet(Missing(m))
    <3>1. Missing(m) \subseteq UsedSlots(machine) /\ IsFiniteSet(UsedSlots(machine))
      BY UsedAreSlots DEF Missing
    <3>. QED
      BY <3>1, <1>1, <1>4, FS_Subset DEF Missing
  <2>2. m.free # {}
    <3>1. Cardinality(Missing(m)) # 0 /\ Cardinality(Missing(m)) \in Nat
      BY <2>1, FS_EmptySet, FS_CardinalityType
    <3>2. Cardinality(m.free) # 0
      BY <3>1, FS_CardinalityType
    <3>. QED
      BY <3>2, FS_EmptySet
  <2>3. PICK t \in m.free :
          n = [dir |-> [m.dir EXCEPT ![s] = t], pte |-> [m.pte EXCEPT ![v] = p],
               free |-> m.free \ {t}]
    BY <2>2, <1>1, <1>4 DEF __vmm_map_internal
  <2>4. m.pte[v] = NONE
    BY <1>1, <1>4 DEF Rooted
  <2>5. t \in Nat /\ t # NONE
    BY <1>2
  <2>6. /\ n.dir \in [Slots -> Nat \cup {NONE}] /\ n.pte \in [UserVAs -> Nat \cup {NONE}]
        /\ n.free \subseteq Nat
    BY <2>3, <2>5, <1>2
  <2>7. n \in MM /\ n.free = m.free \ {t}
    BY <2>3, <2>6, <1>2 DEF MM
  <2>8. \A w \in UserVAs : n.pte[w] = IF w = v /\ m.pte[w] = NONE THEN p ELSE m.pte[w]
    BY <2>3, <2>4, <1>2
  <2>9. \A x \in Slots : n.dir[x] = IF x = s THEN t ELSE m.dir[x]
    BY <2>3, <1>2
  <2>10. Rooted(n)
    <3>1. \A w \in UserVAs : w \div ENT \in Slots
      BY Addresses
    <3>2. BootSlots \subseteq Slots
      BY KernelTables
    <3>3. \A w \in UserVAs : n.pte[w] # NONE => n.dir[w \div ENT] # NONE
      BY <3>1, <2>5, <2>8, <2>9, <1>1 DEF Rooted
    <3>4. \A x \in BootSlots : n.dir[x] # NONE
      BY <3>2, <2>5, <2>9 DEF Rooted
    <3>. QED
      BY <3>3, <3>4 DEF Rooted
  <2>11. Unused(m) /\ p \notin m.free => Unused(n)
    BY <2>7, <2>8, <2>9 DEF Unused
  <2>12. Cardinality(n.free) = Cardinality(m.free) - 1
    <3>1. PICK F : F = m.free
      OBVIOUS
    <3>2. IsFiniteSet(F) /\ t \in F
      BY <3>1
    <3>3. Cardinality(F \ {t}) = Cardinality(F) - 1
      BY <3>2, FS_RemoveElement
    <3>. QED
      BY <3>1, <3>3, <2>7
  <2>13. Cardinality(Missing(n)) = Cardinality(Missing(m)) - 1
    <3>1. UsedSlots(machine) \subseteq Slots
      BY UsedAreSlots
    <3>2. Missing(n) = Missing(m) \ {s}
      BY <3>1, <2>5, <2>9 DEF Missing
    <3>. QED
      BY <3>2, <2>1, FS_RemoveElement
  <2>14. \A c \in Nat : Cardinality(m.free) >= c + Cardinality(Missing(m))
                          => Cardinality(n.free) >= c + Cardinality(Missing(n))
    <3>1. Cardinality(m.free) \in Nat /\ Cardinality(Missing(m)) \in Nat
      BY <2>1, FS_CardinalityType
    <3>. QED
      BY <3>1, <2>12, <2>13
  <2>15. \A x \in Slots : n.dir[x] = m.dir[x] \/ (m.dir[x] = NONE /\ n.dir[x] \in m.free)
    BY <2>9, <1>4
  <2>16. n.free \subseteq m.free
    BY <2>7
  <2>. QED
    BY <2>7, <2>8, <2>10, <2>11, <2>14, <2>15, <2>16 DEF Mapped
<1>. QED
  BY <1>3, <1>4

LEMMA SetMapping ==
  ASSUME NEW m \in MM, Rooted(m), IsFiniteSet(m.free), NEW v \in UserVAs, NEW p \in Nat,
         m.dir[v \div ENT] # NONE \/ v \div ENT \in UsedSlots(machine),
         Cardinality(m.free) >= Cardinality(Missing(m)),
         NEW n \in vmm_set_mapping(m, v, p)
  PROVE  Mapped(m, n, v, p)
<1>1. v \div ENT # SELF
  BY Addresses
<1>2. n \in __vmm_map_internal(m, v, p)
  BY <1>1 DEF vmm_set_mapping
<1>. QED
  BY <1>2, MapInternal

(* vmm_map_page looks no further when the page itself is free.             *)
LEMMA MapPage ==
  ASSUME NEW m \in MM, Rooted(m), IsFiniteSet(m.free), NEW v \in UserVAs, NEW p \in Nat,
         m.pte[v] = NONE,
         m.dir[v \div ENT] # NONE \/ v \div ENT \in UsedSlots(machine),
         Cardinality(m.free) >= Cardinality(Missing(m)),
         NEW n \in vmm_map_page(m, v, p)
  PROVE  Mapped(m, n, v, p)
<1>1. PICK A : A = {w \in UserVAs : w >= v /\ (m.dir[w \div ENT] = NONE \/ m.pte[w] = NONE)}
  OBVIOUS
<1>2. v \in Nat /\ \A w \in UserVAs : w \in Nat
  BY Addresses
<1>3. v \in A /\ \A w \in A : w \in Nat /\ w >= v
  BY <1>1, <1>2
<1>4. Min(A) = v
  <2>1. \A x \in A : (\A y \in A : x <= y) => x = v
    BY <1>2, <1>3
  <2>2. \A y \in A : v <= y
    BY <1>2, <1>3
  <2>. QED
    BY <2>1, <2>2, <1>3 DEF Min
<1>5. n \in __vmm_map_internal(m, v, p)
  BY <1>1, <1>4 DEF vmm_map_page
<1>. QED
  BY <1>5, MapInternal

(* A page gets a frame that was free; there is one less for the others.    *)
LEMMA AllocPage ==
  ASSUME NEW m \in MM, Rooted(m), IsFiniteSet(m.free), NEW v \in UserVAs, m.pte[v] = NONE,
         v \div ENT \in UsedSlots(machine),
         NEW c \in Nat, Cardinality(m.free) >= c + 1 + Cardinality(Missing(m)),
         NEW n \in vmm_alloc_page(m, v)
  PROVE  /\ n \in MM /\ Rooted(n) /\ n.free \subseteq m.free
         /\ \E p \in m.free : \A w \in UserVAs : n.pte[w] = IF w = v THEN p ELSE m.pte[w]
         /\ \A s \in Slots : n.dir[s] = m.dir[s] \/ (m.dir[s] = NONE /\ n.dir[s] \in m.free)
         /\ Unused(m) => Unused(n)
         /\ Cardinality(n.free) >= c + Cardinality(Missing(n))
<1>1. PICK p \in m.free : n \in vmm_map_page([m EXCEPT !.free = @ \ {p}], v, p)
  BY DEF vmm_alloc_page
<1>2. PICK l : l = [m EXCEPT !.free = @ \ {p}]
  OBVIOUS
<1>3. l \in MM /\ l.dir = m.dir /\ l.pte = m.pte /\ l.free = m.free \ {p} /\ p \in Nat
  BY <1>2 DEF MM
<1>4. Rooted(l) /\ Missing(l) = Missing(m) /\ IsFiniteSet(l.free)
  <2>1. IsFiniteSet(l.free)
    BY <1>3, FS_RemoveElement
  <2>. QED
    BY <2>1, <1>3 DEF Rooted, Missing
<1>5. Cardinality(l.free) >= c + Cardinality(Missing(l)) /\ Cardinality(Missing(l)) \in Nat
  <2>1. Cardinality(l.free) = Cardinality(m.free) - 1 /\ Cardinality(m.free) \in Nat
    BY <1>3, FS_RemoveElement, FS_CardinalityType
  <2>2. IsFiniteSet(Missing(m))
    BY UsedAreSlots, FS_Subset DEF Missing
  <2>3. Cardinality(Missing(m)) \in Nat
    BY <2>2, FS_CardinalityType
  <2>. QED
    BY <2>1, <2>3, <1>4
<1>6. Cardinality(l.free) >= Cardinality(Missing(l))
  <2>1. Cardinality(l.free) \in Nat
    BY <1>4, FS_CardinalityType
  <2>. QED
    BY <2>1, <1>5
<1>7. Mapped(l, n, v, p)
  BY <1>1, <1>2, <1>3, <1>4, <1>6, MapPage
<1>8. n \in MM /\ Rooted(n) /\ n.free \subseteq m.free
  BY <1>3, <1>7 DEF Mapped
<1>9. \A w \in UserVAs : n.pte[w] = IF w = v THEN p ELSE m.pte[w]
  BY <1>3, <1>7 DEF Mapped
<1>10. \A s \in Slots : n.dir[s] = m.dir[s] \/ (m.dir[s] = NONE /\ n.dir[s] \in m.free)
  BY <1>3, <1>7 DEF Mapped
<1>11. Unused(m) => Unused(n)
  <2>1. Unused(m) => Unused(l)
    BY <1>3 DEF Unused
  <2>. QED
    BY <2>1, <1>3, <1>7 DEF Mapped
<1>12. Cardinality(n.free) >= c + Cardinality(Missing(n))
  BY <1>5, <1>7 DEF Mapped
<1>. QED
  BY <1>8, <1>9, <1>10, <1>11, <1>12

(* A released page of low memory goes to the allocator, which is its only  *)
(* holder (k_init.c:107-109, 123-126).                                     *)
LEMMA UnmapPage ==
  ASSUME NEW m \in MM, Rooted(m), IsFiniteSet(m.free), NEW v \in UserVAs, m.pte[v] = v
  PROVE  LET n == vmm_unmap_page(m, v)
         IN  /\ n \in MM /\ Rooted(n) /\ n.dir = m.dir
             /\ n.free = IF v = 0 \/ v >= MAX_PG THEN m.free ELSE m.free \cup {v}
             /\ \A w \in UserVAs : n.pte[w] = IF w = v THEN NONE ELSE m.pte[w]
             /\ Missing(n) = Missing(m)
             /\ Cardinality(n.free) >= Cardinality(m.free)
<1>. DEFINE n == vmm_unmap_page(m, v)
<1>1. v \in Nat /\ MAX_PG \in Nat
  BY Layout, Addresses
<1>2. n = [m EXCEPT !.pte[v] = NONE, !.free = m.free \cup ({v} \cap (1 .. MAX_PG - 1))]
  BY DEF vmm_unmap_page
<1>. HIDE DEF n
<1>3. n.dir = m.dir /\ n.free = m.free \cup ({v} \cap (1 .. MAX_PG - 1)) /\ n \in MM
  <2>1. n.dir = m.dir /\ n.free = m.free \cup ({v} \cap (1 .. MAX_PG - 1))
    BY <1>2 DEF MM
  <2>2. n.pte \in [UserVAs -> Nat \cup {NONE}] /\ n.free \subseteq Nat
    BY <1>1, <1>2 DEF MM
  <2>. QED
    BY <1>2, <2>1, <2>2 DEF MM
<1>4. \A w \in UserVAs : n.pte[w] = IF w = v THEN NONE ELSE m.pte[w]
  BY <1>2 DEF MM
<1>5. n.free = IF v = 0 \/ v >= MAX_PG THEN m.free ELSE m.free \cup {v}
  <2>1. v \in 1 .. MAX_PG - 1 <=> ~(v = 0 \/ v >= MAX_PG)
    BY <1>1
  <2>. QED
    BY <2>1, <1>3
<1>6. Cardinality(n.free) >= Cardinality(m.free)
  <2>1. IsFiniteSet(n.free)
    BY <1>5, FS_AddElement
  <2>2. m.free \subseteq n.free
    BY <1>3
  <2>3. Cardinality(m.free) <= Cardinality(n.free) /\ Cardinality(m.free) \in Nat /\ Cardinality(n.free) \in Nat
    BY <2>1, <2>2, FS_Subset, FS_CardinalityType
  <2>. QED
    BY <2>3
<1>7. Rooted(n) /\ Missing(n) = Missing(m)
  BY <1>3, <1>4 DEF Rooted, Missing
<1>. QED
  BY <1>3, <1>4, <1>5, <1>6, <1>7 DEF n

-----------------------------------------------------------------------------
(* The memory map.                                                         *)

(* Pages are measured in the units of addresses.                           *)
LEMMA Regions ==
  ASSUME machine \in Machines
  PROVE  /\ \A k \in DOMAIN machine.mmap :
              machine.mmap[k].addr \in Nat /\ machine.mmap[k].len \in Nat
         /\ \A k \in DOMAIN machine.mmap : k \in 1 .. Len(machine.mmap)
         /\ \A k \in 1 .. Len(machine.mmap) : k \in DOMAIN machine.mmap
         /\ Len(machine.mmap) \in Nat
<1>1. machine.mmap \in Seq([addr : Nat, len : Nat, type : STRING])
  BY MapAssumption
<1>2. DOMAIN machine.mmap = 1 .. Len(machine.mmap) /\ Len(machine.mmap) \in Nat
  BY <1>1
<1>3. \A k \in DOMAIN machine.mmap : machine.mmap[k] \in [addr : Nat, len : Nat, type : STRING]
  <2>1. PICK S : S = [addr : Nat, len : Nat, type : STRING]
    OBVIOUS
  <2>2. machine.mmap \in Seq(S)
    BY <1>1, <2>1
  <2>3. \A k \in DOMAIN machine.mmap : machine.mmap[k] \in S
    BY <2>2
  <2>. QED
    BY <2>1, <2>3
<1>. QED
  BY <1>2, <1>3

(* Memory that is available is not in a region that is not.                *)
LEMMA HeldNotMet ==
  ASSUME machine \in Machines, NEW f \in Nat, Held(f),
         NEW k \in DOMAIN machine.mmap, ~Available(machine.mmap[k])
  PROVE  ~Meets(machine.mmap[k], f)
<1>1. PICK l \in DOMAIN machine.mmap : Available(machine.mmap[l]) /\ Holds(machine.mmap[l], f)
  BY DEF Held
<1>2. PICK a \in Nat, b \in Nat, c \in Nat, d \in Nat :
        /\ machine.mmap[k].addr = a /\ machine.mmap[k].len = b
        /\ machine.mmap[l].addr = c /\ machine.mmap[l].len = d
  BY Regions
<1>3. k # l
  BY <1>1
<1>4. a + b <= c \/ c + d <= a
  BY <1>2, <1>3, MapAssumption
<1>5. PICK x \in Nat, y \in Nat : x = f * PAGE /\ y = (f + 1) * PAGE
  BY Layout
<1>6. x + PAGE = y /\ PAGE \in Nat /\ PAGE > 0
  BY <1>5, Layout
<1>7. c <= x /\ y <= c + d
  BY <1>1, <1>2, <1>5 DEF Holds
<1>8. ~(a < y /\ x < a + b)
  BY <1>4, <1>6, <1>7
<1>. QED
  BY <1>2, <1>5, <1>8 DEF Meets

(* Rounding up: the quotient reaches the number and goes no page further.  *)
LEMMA Ceiling ==
  ASSUME NEW d \in Nat, d > 0, NEW x \in Nat
  PROVE  LET g == (x + d - 1) \div d
         IN  g \in Nat /\ x <= d * g /\ d * g <= x + d - 1 /\ d * g \in Nat
<1>1. PICK y \in Nat : y = x + d - 1
  OBVIOUS
<1>2. PICK g \in Nat, r \in 0 .. d - 1 : g = y \div d /\ y = d * g + r
  <2>1. y \div d \in Nat /\ y % d \in 0 .. d - 1 /\ y = d * (y \div d) + (y % d)
    BY Division
  <2>. QED
    BY <2>1
<1>3. d * g \in Nat
  BY Multiples
<1>. QED
  BY <1>1, <1>2, <1>3

(* The pages that are locked are those the region meets.                   *)
LEMMA LockedPages ==
  ASSUME machine \in Machines, NEW k \in DOMAIN machine.mmap, ~Available(machine.mmap[k]),
         NEW p \in LockPages(machine.mmap[k])
  PROVE  /\ p \in Nat /\ Meets(machine.mmap[k], p)
         /\ p > IOAPIC_V /\ p \div ENT \in 0 .. SELF
         /\ p \div ENT # SELF => p \in UserVAs
<1>1. PICK a \in Nat, b \in Nat : a = machine.mmap[k].addr /\ b = machine.mmap[k].len
  BY Regions
<1>2. PAGE \in Nat /\ PAGE > 0 /\ ENT \in Nat /\ ENT > 0 /\ SELF = ENT - 1 /\ SELF \in Nat
  BY Layout
<1>3. PICK h \in Nat, s \in 0 .. PAGE - 1 : h = a \div PAGE /\ a = PAGE * h + s
  <2>1. a \div PAGE \in Nat /\ a % PAGE \in 0 .. PAGE - 1 /\ a = PAGE * (a \div PAGE) + (a % PAGE)
    BY <1>2, Division
  <2>. QED
    BY <2>1
<1>4. PICK g \in Nat : g = (b + PAGE - 1) \div PAGE /\ PAGE * g <= b + PAGE - 1 /\ PAGE * g \in Nat
  BY <1>2, Ceiling
<1>5. p \in h .. h + g - 1
  BY <1>1, <1>3, <1>4 DEF LockPages, PageOf, pg_num
<1>6. PICK x \in Nat : p = h + x /\ x < g
  BY <1>5
<1>7. PICK u \in Nat, w \in Nat : u = PAGE * h /\ w = PAGE * x
  BY <1>2, Multiples
<1>8. PAGE * p = u + w /\ p * PAGE = u + w /\ (p + 1) * PAGE = u + w + PAGE
  BY <1>2, <1>6, <1>7
<1>9. w + PAGE <= PAGE * g
  BY <1>2, <1>6, <1>7, Multiples
<1>10. a < u + w + PAGE /\ u + w < a + b
  BY <1>2, <1>3, <1>4, <1>7, <1>9
<1>11. p \in Nat /\ Meets(machine.mmap[k], p)
  BY <1>1, <1>6, <1>8, <1>10 DEF Meets
<1>12. h > IOAPIC_V /\ a + b <= ENT * ENT * PAGE
  BY <1>1, <1>3, MapAssumption DEF PageOf
<1>13. p > IOAPIC_V
  BY <1>6, <1>12 DEF IOAPIC_V
<1>14. p < ENT * ENT
  <2>1. PICK e \in Nat : e = ENT * ENT
    BY <1>2
  <2>2. ENT * ENT * PAGE = PAGE * e
    BY <1>2, <2>1
  <2>3. ~(p >= e)
    <3>1. e <= p => PAGE * e <= PAGE * p
      BY <1>2, <1>11, <2>1, Multiples
    <3>2. PAGE * e \in Nat
      BY <1>2, <2>1, Multiples
    <3>. QED
      BY <3>1, <3>2, <2>2, <1>8, <1>10, <1>12
  <2>. QED
    BY <2>1, <2>3, <1>11
<1>15. p \div ENT < ENT /\ p \div ENT \in Nat
  BY <1>2, <1>11, <1>14, QuotientBelow, Division
<1>16. p \div ENT # SELF => p \in UserVAs
  <2>1. p \div ENT < SELF => p < ENT * SELF
    BY <1>2, <1>11, QuotientBelow
  <2>2. ENT * SELF \in Nat /\ UserVAs = 0 .. ENT * SELF - 1
    BY Layout
  <2>. QED
    BY <2>1, <2>2, <1>2, <1>11, <1>15
<1>17. p \div ENT \in 0 .. SELF
  BY <1>2, <1>15
<1>. QED
  BY <1>11, <1>13, <1>16, <1>17

(* The table of a page that is locked is counted among those to come.      *)
LEMMA LockedSlot ==
  ASSUME machine \in Machines, NEW k \in DOMAIN machine.mmap, ~Available(machine.mmap[k]),
         NEW p \in LockPages(machine.mmap[k]), p \div ENT # SELF
  PROVE  p \in UserVAs /\ p \div ENT \in UsedSlots(machine)
<1>1. p \in UserVAs /\ Meets(machine.mmap[k], p)
  BY LockedPages
<1>. QED
  BY <1>1 DEF UsedSlots

(* The frames setup_memory gives to the allocator are the whole pages of   *)
(* available memory (k_init.c:181-195).                                    *)
LEMMA AvailablePages ==
  ASSUME machine \in Machines, NEW k \in DOMAIN machine.mmap, Available(machine.mmap[k]),
         NEW f \in Nat
  PROVE  /\ f \in RegionPages(machine.mmap[k]) <=> Holds(machine.mmap[k], f)
         /\ Holds(machine.mmap[k], f) => f < MAX_PG
<1>1. PICK a \in Nat, b \in Nat : a = machine.mmap[k].addr /\ b = machine.mmap[k].len
  BY Regions
<1>2. PAGE \in Nat /\ PAGE > 0 /\ MAX_PG \in Nat
  BY Layout
<1>3. PICK h \in Nat : a = PAGE * h /\ a \div PAGE = h
  <2>1. a \div PAGE \in Nat /\ a = PAGE * (a \div PAGE) + (a % PAGE)
    BY <1>2, Division
  <2>2. a % PAGE = 0
    BY <1>1, MapAssumption
  <2>3. PAGE * (a \div PAGE) \in Nat
    BY <1>2, <2>1, Multiples
  <2>. QED
    BY <2>1, <2>2, <2>3
<1>4. (a + PAGE - 1) \div PAGE = h
  <2>1. a + PAGE - 1 = PAGE * h + (PAGE - 1) /\ PAGE - 1 \in 0 .. PAGE - 1
    BY <1>2, <1>3
  <2>. QED
    BY <2>1, <1>2, Quotient
<1>5. PICK g \in Nat, s \in 0 .. PAGE - 1 : g = b \div PAGE /\ b = PAGE * g + s
  <2>1. b \div PAGE \in Nat /\ b % PAGE \in 0 .. PAGE - 1 /\ b = PAGE * (b \div PAGE) + (b % PAGE)
    BY <1>2, Division
  <2>. QED
    BY <2>1
<1>6. f \in RegionPages(machine.mmap[k]) <=> f >= h /\ f < h + g
  BY <1>1, <1>4, <1>5 DEF RegionPages
<1>7. PICK x \in Nat, y \in Nat : x = PAGE * f /\ y = PAGE * (h + g)
  BY <1>2, Multiples
<1>8. f * PAGE = x /\ (f + 1) * PAGE = x + PAGE /\ y = a + PAGE * g /\ PAGE * g \in Nat
  BY <1>2, <1>3, <1>7, Multiples
<1>9. Holds(machine.mmap[k], f) <=> a <= x /\ x + PAGE <= a + b
  BY <1>1, <1>8 DEF Holds
<1>10. (h <= f => a <= x) /\ (f < h => x + PAGE <= a)
  BY <1>2, <1>3, <1>7, Multiples
<1>11. (f < h + g => x + PAGE <= y) /\ (h + g <= f => y <= x)
  <2>1. h + g \in Nat
    OBVIOUS
  <2>. QED
    BY <2>1, <1>2, <1>7, Multiples
<1>12. (f >= h /\ f < h + g) <=> (a <= x /\ x + PAGE <= a + b)
  <2>1. a + b = y + s
    <3>1. PICK z \in Nat : z = PAGE * g
      BY <1>8
    <3>2. b = z + s
      BY <3>1, <1>5
    <3>3. y = a + z
      BY <3>1, <1>8
    <3>. QED
      BY <3>1, <3>2, <3>3, <1>5
  <2>. QED
    BY <2>1, <1>2, <1>5, <1>7, <1>10, <1>11
<1>13. a + b <= MAX_PG * PAGE
  BY <1>1, MapAssumption
<1>14. x + PAGE <= a + b => f < MAX_PG
  <2>1. MAX_PG <= f => PAGE * MAX_PG <= x
    BY <1>2, <1>7, Multiples
  <2>2. PICK z \in Nat : z = PAGE * MAX_PG /\ z = MAX_PG * PAGE
    BY <1>2
  <2>. QED
    BY <2>1, <2>2, <1>2, <1>13, <1>7
<1>. QED
  BY <1>6, <1>9, <1>12, <1>14

(* The pages that are held are finitely many.                              *)
LEMMA HeldBelow ==
  ASSUME machine \in Machines, NEW F \in SUBSET Nat, \A f \in F : Held(f)
  PROVE  F \subseteq 0 .. MAX_PG - 1 /\ IsFiniteSet(F)
<1>1. \A f \in F : f < MAX_PG
  BY AvailablePages DEF Held
<1>2. F \subseteq 0 .. MAX_PG - 1
  BY <1>1, Layout
<1>3. IsFiniteSet(0 .. MAX_PG - 1)
  BY Layout, FS_Interval
<1>. QED
  BY <1>2, <1>3, FS_Subset

(* The pages that are released are of available memory, so no region that  *)
(* is locked has them.                                                     *)
LEMMA RamHeld ==
  ASSUME machine \in Machines, NEW p \in RamLow
  PROVE  p \in Nat /\ Held(p) /\ p \in Below
<1>1. {APIC_V, IOAPIC_V} \cup Hhk = RamLow
  BY DEF RamLow
<1>2. Held(p)
  BY <1>1, MapAssumption DEF Held
<1>3. p \in Below
  BY <1>1, Layout
<1>. QED
  BY <1>2, <1>3, Layout

(* A table of the firmware above the first megabyte is on a page that is   *)
(* locked, and not where the kernel has its own things.                    *)
LEMMA TablePage ==
  ASSUME machine \in Machines, NEW a \in Tables(machine)
  PROVE  \/ PageOf(a) \in PageOf(SCAN) .. LOW - 1
         \/ /\ PageOf(a) \in 0 .. HIGHER - 1 /\ PageOf(a) # VGA_V /\ PageOf(a) > LOW
            /\ PageOf(a) \in UserVAs /\ PageOf(a) \div ENT # SELF
            /\ \E k \in DOMAIN machine.mmap :
                 Locked(machine.mmap[k]) /\ PageOf(a) \in LockPages(machine.mmap[k])
<1>1. PAGE \in Nat /\ PAGE > 0 /\ LOW \in Nat /\ HIGHER \in Nat
  BY Layout
<1>2. CASE ~(PageOf(a) \in PageOf(SCAN) .. LOW - 1)
  <2>1. PICK k \in DOMAIN machine.mmap :
          /\ PageOf(a) < HIGHER /\ PageOf(a) # VGA_V
          /\ ~Available(machine.mmap[k]) /\ PageOf(machine.mmap[k].addr) > LOW
          /\ machine.mmap[k].addr <= a /\ a < machine.mmap[k].addr + machine.mmap[k].len
    BY <1>2, FirmwareAssumption
  <2>2. PICK r \in Nat, b \in Nat : r = machine.mmap[k].addr /\ b = machine.mmap[k].len
    BY Regions
  <2>3. a \in Nat
    <3>1. DOMAIN machine.mem \subseteq Nat
      BY AcpiAssumption
    <3>2. a \in DOMAIN machine.mem \/ \E x \in DOMAIN machine.mem : a \in x .. x + machine.mem[x].length - 1
      BY DEF Tables, Of
    <3>3. ASSUME NEW x \in DOMAIN machine.mem, a \in x .. x + machine.mem[x].length - 1 PROVE a \in Nat
      BY <3>1, <3>3, <2>1, <2>2
    <3>. QED
      BY <3>1, <3>2, <3>3
  <2>4. PICK h \in Nat, s \in 0 .. PAGE - 1 : h = r \div PAGE /\ r = PAGE * h + s
    <3>1. r \div PAGE \in Nat /\ r % PAGE \in 0 .. PAGE - 1 /\ r = PAGE * (r \div PAGE) + (r % PAGE)
      BY <1>1, Division
    <3>. QED
      BY <3>1
  <2>5. PICK q \in Nat, t \in 0 .. PAGE - 1 : q = PageOf(a) /\ a = PAGE * q + t
    <3>1. a \div PAGE \in Nat /\ a % PAGE \in 0 .. PAGE - 1 /\ a = PAGE * (a \div PAGE) + (a % PAGE)
      BY <1>1, <2>3, Division
    <3>. QED
      BY <3>1 DEF PageOf
  <2>6. PICK g \in Nat : g = (b + PAGE - 1) \div PAGE /\ b <= PAGE * g /\ PAGE * g \in Nat
    BY <1>1, Ceiling
  <2>7. PICK e \in Nat : r + b = PAGE * e
    <3>1. (r + b) % PAGE = 0
      BY <2>1, <2>2, MapAssumption
    <3>2. /\ (r + b) \div PAGE \in Nat
          /\ r + b = PAGE * ((r + b) \div PAGE) + ((r + b) % PAGE)
      BY <1>1, Division
    <3>3. PAGE * ((r + b) \div PAGE) \in Nat
      BY <1>1, <3>2, Multiples
    <3>. QED
      BY <3>1, <3>2, <3>3
  <2>8. q >= h
    <3>1. q < h => PAGE * q + PAGE <= PAGE * h
      BY <1>1, Multiples
    <3>2. PAGE * q \in Nat /\ PAGE * h \in Nat
      BY <1>1, Multiples
    <3>. QED
      BY <3>1, <3>2, <1>1, <2>1, <2>2, <2>4, <2>5
  <2>9. q < e
    <3>1. e <= q => PAGE * e <= PAGE * q
      BY <1>1, Multiples
    <3>2. PAGE * q \in Nat /\ PAGE * e \in Nat
      BY <1>1, Multiples
    <3>. QED
      BY <3>1, <3>2, <1>1, <2>1, <2>2, <2>5, <2>7
  <2>10. e <= h + g
    <3>1. h + g < e => PAGE * (h + g) + PAGE <= PAGE * e
      BY <1>1, Multiples
    <3>2. PAGE * (h + g) = PAGE * h + PAGE * g /\ PAGE * h \in Nat /\ PAGE * e \in Nat
      BY <1>1, Multiples
    <3>. QED
      BY <3>1, <3>2, <1>1, <2>4, <2>6, <2>7
  <2>11. q \in LockPages(machine.mmap[k])
    <3>1. LockPages(machine.mmap[k]) = h .. h + g - 1
      BY <2>2, <2>4, <2>6 DEF LockPages, PageOf, pg_num
    <3>. QED
      BY <3>1, <2>8, <2>9, <2>10
  <2>12. q \in 0 .. HIGHER - 1 /\ q # VGA_V
    BY <2>1, <2>5, <1>1
  <2>13. q \in UserVAs /\ q \div ENT # SELF
    BY <2>12, Addresses
  <2>14. q > LOW
    BY <2>1, <2>2, <2>4, <2>8, <1>1 DEF PageOf
  <2>15. Locked(machine.mmap[k])
    BY <2>1 DEF Locked
  <2>. QED
    BY <2>5, <2>11, <2>12, <2>13, <2>14, <2>15
<1>. QED
  BY <1>2

-----------------------------------------------------------------------------
(* The firmware's tables.                                                  *)

(* What AcpiAssumption says of the machine at hand.                        *)
LEMMA Firmware ==
  ASSUME machine \in Machines
  PROVE  /\ DOMAIN mem \subseteq Nat /\ \A x \in Of(mem, {"ics"}) : x \in Nat
         /\ acpi_locate_rsdp \in Of(mem, {"rsdp"})
         /\ \A a \in Of(mem, {"rsdp"}) : mem[a].rsdt \in Of(mem, {"rsdt"})
         /\ \A a \in Of(mem, {"rsdt"}) :
              /\ Len(mem[a].entry) \in Nat /\ mem[a].length = 1 + Len(mem[a].entry)
              /\ \A k \in 1 .. Len(mem[a].entry) :
                   mem[a].entry[k] \in DOMAIN mem \ Of(mem, {"rsdp", "copy"})
              /\ \E k \in 1 .. Len(mem[a].entry) : mem[mem[a].entry[k]].kind = "madt"
         /\ \A e \in Ics(mem) :
              /\ e # NONE /\ e.length \in Nat /\ e.length > 0
              /\ e.type = "INTSO" => e.source \in 0 .. PINS - 1 /\ e.gsi \in 0 .. PINS - 1
         /\ \E x \in Of(mem, {"ics"}) : mem[x].type = "IOAPIC"
<1>1. mem = machine.mem
  BY DEF mem
<1>2. DOMAIN mem \subseteq Nat /\ \A a \in Of(mem, {"rsdp"}) : mem[a].rsdt \in Of(mem, {"rsdt"})
  BY <1>1, AcpiAssumption
<1>3. \A x \in Of(mem, {"ics"}) : x \in Nat
  BY <1>2 DEF Of
<1>4. acpi_locate_rsdp \in Of(mem, {"rsdp"})
  <2>1. PICK a \in Of(mem, {"rsdp"}) :
          a \in SCAN .. MEM_1MB - 1 /\ \A b \in Of(mem, {"rsdp", "copy"}) : a <= b
    BY <1>1, AcpiAssumption
  <2>2. PICK A : A = {b \in SCAN .. MEM_1MB - 1 : b \in Of(mem, {"rsdp", "copy"})}
    OBVIOUS
  <2>3. a \in Of(mem, {"rsdp", "copy"})
    BY <2>1 DEF Of
  <2>4. a \in A /\ \A b \in A : b \in Nat /\ a <= b
    BY <1>2, <2>1, <2>2, <2>3 DEF Of
  <2>5. \A x \in A : (\A y \in A : x <= y) => x = a
    BY <2>4
  <2>6. Min(A) = a
    BY <2>4, <2>5 DEF Min
  <2>. QED
    BY <2>1, <2>2, <2>6 DEF acpi_locate_rsdp
<1>5. ASSUME NEW a \in Of(mem, {"rsdt"})
      PROVE  /\ Len(mem[a].entry) \in Nat /\ mem[a].length = 1 + Len(mem[a].entry)
             /\ \A k \in 1 .. Len(mem[a].entry) :
                  mem[a].entry[k] \in DOMAIN mem \ Of(mem, {"rsdp", "copy"})
             /\ \E k \in 1 .. Len(mem[a].entry) : mem[mem[a].entry[k]].kind = "madt"
  <2>1. PICK tables, S : tables = mem[a].entry /\ S = DOMAIN mem \ Of(mem, {"rsdp", "copy"})
    OBVIOUS
  <2>2. /\ tables \in Seq(S) /\ mem[a].length = 1 + Len(tables)
        /\ \E k \in DOMAIN tables : mem[tables[k]].kind = "madt"
    BY <1>1, <2>1, AcpiAssumption DEF HDR
  <2>3. /\ DOMAIN tables = 1 .. Len(tables) /\ Len(tables) \in Nat
        /\ \A k \in 1 .. Len(tables) : tables[k] \in S
    BY <2>2
  <2>. QED
    BY <2>1, <2>2, <2>3
<1>6. \A e \in Ics(mem) :
        /\ e # NONE /\ e.length \in Nat /\ e.length > 0
        /\ e.type = "INTSO" => e.source \in 0 .. PINS - 1 /\ e.gsi \in 0 .. PINS - 1
  <2>1. ASSUME NEW e \in Ics(mem)
        PROVE  /\ e # NONE /\ e.length \in Nat \ {0}
               /\ e.type = "INTSO" => e.source \in 0 .. PINS - 1 /\ e.gsi \in 0 .. PINS - 1
    BY <1>1, AcpiAssumption
  <2>2. \A l \in Nat \ {0} : l > 0 /\ l \in Nat
    OBVIOUS
  <2>. QED
    BY <2>1, <2>2
<1>7. \E x \in Of(mem, {"ics"}) : mem[x].type = "IOAPIC"
  <2>1. Cardinality({e \in Ics(mem) : e.type = "IOAPIC"}) = 1
    BY <1>1, AcpiAssumption
  <2>2. {e \in Ics(mem) : e.type = "IOAPIC"} # {}
    BY <2>1, FS_EmptySet
  <2>. QED
    BY <2>2 DEF Ics
<1>. QED
  BY <1>2, <1>3, <1>4, <1>5, <1>6, <1>7

(* The MADT's entries follow one another up to its end.                    *)
LEMMA MadtEntries ==
  ASSUME machine \in Machines, NEW a \in Of(mem, {"madt"})
  PROVE  /\ a \in Nat /\ a + mem[a].length \in Nat
         /\ a + HDR \in Of(mem, {"ics"}) \cup {a + mem[a].length}
         /\ \A x \in Of(mem, {"ics"}) :
              /\ x >= a + HDR /\ x < a + mem[a].length
              /\ x + mem[x].length \in Of(mem, {"ics"}) \cup {a + mem[a].length}
              /\ \A y \in Of(mem, {"ics"}) : x < y => x + mem[x].length <= y
         /\ \A e, f \in Ics(mem) :
              e.type = "INTSO" /\ f.type = "INTSO" /\ e.source = f.source => e.gsi = f.gsi
         /\ Of(mem, {"madt"}) = {a}
<1>1. mem = machine.mem
  BY DEF mem
<1>2. a \in Nat
  BY Firmware DEF Of
<1>3. Of(mem, {"madt"}) = {a}
  BY <1>1, AcpiAssumption
<1>. QED
  BY <1>1, <1>2, <1>3, MadtAssumption

LEMMA WalkStarts ==
  ASSUME machine \in Machines, acpi_init
  PROVE  Walking'
<1>1. /\ mem' = mem /\ pc' = "rsdt" /\ i' = 0 /\ rsdt' = mem[acpi_locate_rsdp].rsdt
      /\ toc' = [apic_addr |-> NONE, apic |-> NONE, ioapic |-> NONE, irq_exception |-> NONE]
  BY DEF acpi_init, mem
<1>2. rsdt' \in Of(mem', {"rsdt"}) /\ i' <= Len(mem'[rsdt'].entry)
  BY <1>1, Firmware
<1>3. TocType'
  <2>1. \A X : NONE \in X \cup {NONE} /\ NONE \in {NONE} \cup X
    OBVIOUS
  <2>. QED
    BY <2>1, <1>1 DEF TocType
<1>4. ~(\E k \in 1 .. i' : mem'[mem'[rsdt'].entry[k]].kind = "madt")
  BY <1>1
<1>. QED
  BY <1>1, <1>2, <1>3, <1>4 DEF Walking, WithDevices

LEMMA WalkSkips ==
  ASSUME machine \in Machines, i \in Nat, Walking, SkipTable
  PROVE  Walking'
<1>1. mem' = mem /\ pc = "rsdt" /\ pc' = "rsdt" /\ i' = i + 1 /\ rsdt' = rsdt /\ toc' = toc
  BY DEF SkipTable, mem
<1>2. PICK n \in Nat : n = Len(mem[rsdt].entry) /\ entry_n = n /\ rsdt \in Of(mem, {"rsdt"})
  <2>1. rsdt \in Of(mem, {"rsdt"})
    BY <1>1 DEF Walking
  <2>2. mem[rsdt].length = 1 + Len(mem[rsdt].entry) /\ Len(mem[rsdt].entry) \in Nat
    BY <2>1, Firmware
  <2>. QED
    BY <2>1, <2>2 DEF entry_n, HDR
<1>3. rsdt' \in Of(mem', {"rsdt"}) /\ i' <= Len(mem'[rsdt'].entry)
  <2>1. i + 1 <= n
    BY <1>2 DEF SkipTable
  <2>. QED
    BY <2>1, <1>1, <1>2
<1>4. TocType'
  BY <1>1 DEF Walking, TocType
<1>5. (\E k \in 1 .. i' : mem'[mem'[rsdt'].entry[k]].kind = "madt") => Complete'
  <2>1. mem[mem[rsdt].entry[i + 1]].kind # "madt"
    BY DEF SkipTable, sdthdr
  <2>2. ASSUME NEW k \in 1 .. i + 1, mem[mem[rsdt].entry[k]].kind = "madt" PROVE k \in 1 .. i
    BY <2>1, <2>2
  <2>3. Complete => Complete'
    BY <1>1 DEF Complete, ParsedBelow
  <2>. QED
    BY <2>2, <2>3, <1>1 DEF Walking
<1>. QED
  BY <1>1, <1>2, <1>3, <1>4, <1>5 DEF Walking, WithDevices

LEMMA WalkEnters ==
  ASSUME machine \in Machines, i \in Nat, Walking, madt_parse
  PROVE  Walking'
<1>1. /\ mem' = mem /\ pc = "rsdt" /\ pc' = "madt" /\ i' = i /\ rsdt' = rsdt
      /\ rsdt \in Of(mem, {"rsdt"}) /\ TocType
      /\ toc' = [toc EXCEPT !.apic_addr = mem[sdthdr].apic_addr,
                            !.irq_exception = [s \in 0 .. PINS - 1 |-> NONE]]
      /\ ics_start' = sdthdr + HDR /\ ics_end' = sdthdr + mem[sdthdr].length
  BY DEF madt_parse, mem, Walking
<1>2. PICK n \in Nat : n = Len(mem[rsdt].entry) /\ entry_n = n
  <2>1. mem[rsdt].length = 1 + Len(mem[rsdt].entry) /\ Len(mem[rsdt].entry) \in Nat
    BY <1>1, Firmware
  <2>. QED
    BY <2>1 DEF entry_n, HDR
<1>3. i + 1 \in 1 .. n
  BY <1>2 DEF madt_parse
<1>4. sdthdr \in Of(mem, {"madt"})
  <2>1. sdthdr \in DOMAIN mem
    BY <1>1, <1>2, <1>3, Firmware DEF sdthdr
  <2>. QED
    BY <2>1 DEF madt_parse, Of
<1>5. /\ toc'.irq_exception = [s \in 0 .. PINS - 1 |-> NONE]
      /\ toc'.irq_exception \in [0 .. PINS - 1 -> Ics(mem) \cup {NONE}]
  BY <1>1 DEF TocType
<1>6. TocType'
  <2>1. mem[sdthdr].apic_addr \in ApicAddrs
    <3>1. mem[sdthdr].apic_addr \in {machine.mem[a].apic_addr : a \in Of(machine.mem, {"madt"})}
      BY <1>4 DEF mem
    <3>. QED
      BY <3>1 DEF ApicAddrs
  <2>. QED
    BY <2>1, <1>1, <1>5 DEF TocType
<1>7. /\ ics_start' \in Of(mem, {"ics"}) \cup {ics_end'}
      /\ \A x \in Of(mem, {"ics"}) : x \in Nat /\ x >= ics_start' /\ ics_start' \in Nat
  BY <1>1, <1>4, MadtEntries, Firmware DEF HDR
<1>8. ParsedBelow(ics_start)'
  <2>1. \A s \in 0 .. PINS - 1 : toc'.irq_exception[s] = NONE
    BY <1>5
  <2>2. \A x \in Of(mem, {"ics"}) : ~(x < ics_start')
    BY <1>7
  <2>. QED
    BY <2>1, <2>2, <1>1 DEF ParsedBelow
<1>9. i' < Len(mem'[rsdt'].entry)
  BY <1>1, <1>2, <1>3
<1>10. \E a \in Of(mem', {"madt"}) : ics_end' = a + mem'[a].length
  BY <1>1, <1>4
<1>11. i' <= Len(mem'[rsdt'].entry)
  BY <1>1, <1>2, <1>3
<1>. QED
  BY <1>1, <1>5, <1>6, <1>7, <1>8, <1>9, <1>10, <1>11 DEF Walking, WithDevices

(* One entry more is in the context (madt_parser.c:35-58).                 *)
LEMMA WalkParses ==
  ASSUME machine \in Machines, i \in Nat, Walking, ParseEntry
  PROVE  Walking'
<1>1. /\ mem' = mem /\ pc = "madt" /\ pc' = "madt" /\ i' = i /\ rsdt' = rsdt
      /\ rsdt \in Of(mem, {"rsdt"}) /\ TocType /\ ics_end' = ics_end
      /\ i < Len(mem[rsdt].entry) /\ i <= Len(mem[rsdt].entry)
      /\ toc.irq_exception \in [0 .. PINS - 1 -> Ics(mem) \cup {NONE}]
      /\ ics_start \in Of(mem, {"ics"}) \cup {ics_end} /\ ParsedBelow(ics_start)
  BY DEF ParseEntry, mem, Walking
<1>2. PICK a \in Of(mem, {"madt"}) : ics_end = a + mem[a].length
  BY <1>1 DEF Walking
<1>3. PICK x \in Of(mem, {"ics"}) : x = ics_start
  <2>1. ics_end \in Nat /\ ics_start < ics_end
    BY <1>2, MadtEntries DEF ParseEntry
  <2>. QED
    BY <2>1, <1>1
<1>4. PICK e \in Ics(mem) : e = mem[x]
  BY DEF Ics
<1>5. toc' = Parsed(toc, e) /\ ics_start' = x + e.length
  BY <1>3, <1>4 DEF ParseEntry
<1>6. ics_start' \in Of(mem, {"ics"}) \cup {ics_end}
  BY <1>2, <1>4, <1>5, MadtEntries
<1>7. e # NONE /\ (e.type = "INTSO" => e.source \in 0 .. PINS - 1)
  BY Firmware
<1>8. toc \in [apic_addr : ApicAddrs \cup {NONE},
               apic : Ics(mem) \cup {NONE}, ioapic : Ics(mem) \cup {NONE},
               irq_exception : {NONE} \cup [0 .. PINS - 1 -> Ics(mem) \cup {NONE}]]
  BY <1>1 DEF TocType
<1>9. /\ toc'.ioapic = IF e.type = "IOAPIC" THEN e ELSE toc.ioapic
      /\ toc'.irq_exception \in [0 .. PINS - 1 -> Ics(mem) \cup {NONE}]
      /\ \A s \in 0 .. PINS - 1 :
           toc'.irq_exception[s] = IF Override(e, s) THEN e ELSE toc.irq_exception[s]
      /\ TocType'
  <2>1. CASE e.type = "LAPIC"
    <3>1. toc' = [toc EXCEPT !.apic = e]
      BY <1>5, <2>1 DEF Parsed
    <3>. QED
      BY <3>1, <2>1, <1>1, <1>8 DEF TocType, Override
  <2>2. CASE e.type = "IOAPIC"
    <3>1. toc' = [toc EXCEPT !.ioapic = e]
      BY <1>5, <2>2 DEF Parsed
    <3>. QED
      BY <3>1, <2>2, <1>1, <1>8 DEF TocType, Override
  <2>3. CASE e.type = "INTSO"
    <3>1. toc' = [toc EXCEPT !.irq_exception[e.source] = e]
      BY <1>5, <2>3 DEF Parsed
    <3>. QED
      BY <3>1, <2>3, <1>1, <1>7, <1>8 DEF TocType, Override
  <2>4. CASE e.type \notin {"LAPIC", "IOAPIC", "INTSO"}
    <3>1. toc' = toc
      BY <1>5, <2>4 DEF Parsed
    <3>. QED
      BY <3>1, <2>4, <1>1, <1>8 DEF TocType, Override
  <2>. QED
    BY <2>1, <2>2, <2>3, <2>4
<1>10. ParsedBelow(ics_start)'
  <2>1. \A s \in 0 .. PINS - 1 :
          toc'.irq_exception[s] # NONE =>
            toc'.irq_exception[s] \in Ics(mem) /\ Override(toc'.irq_exception[s], s)
    BY <1>1, <1>9 DEF ParsedBelow
  <2>2. ASSUME NEW y \in Of(mem, {"ics"}), y < ics_start'
        PROVE  /\ mem[y].type = "INTSO" => toc'.irq_exception[mem[y].source] # NONE
               /\ mem[y].type = "IOAPIC" => toc'.ioapic \in Ics(mem) /\ toc'.ioapic.type = "IOAPIC"
    <3>1. x \in Nat /\ y \in Nat /\ e.length \in Nat
      BY Firmware
    <3>2. x < y => x + e.length <= y
      BY <1>2, <1>4, MadtEntries
    <3>3. y = x \/ y < x
      BY <3>1, <3>2, <2>2, <1>5
    <3>4. mem[y] \in Ics(mem)
      BY DEF Ics
    <3>5. mem[y].type = "INTSO" => mem[y].source \in 0 .. PINS - 1
      BY <3>4, Firmware
    <3>6. CASE y = x
      BY <3>5, <3>6, <1>4, <1>7, <1>9 DEF Override
    <3>7. CASE y < x
      <4>1. /\ mem[y].type = "INTSO" => toc.irq_exception[mem[y].source] # NONE
            /\ mem[y].type = "IOAPIC" => toc.ioapic \in Ics(mem) /\ toc.ioapic.type = "IOAPIC"
        BY <3>7, <1>1, <1>3 DEF ParsedBelow
      <4>. QED
        BY <4>1, <3>5, <1>7, <1>9
    <3>. QED
      BY <3>3, <3>6, <3>7
  <2>. QED
    BY <2>1, <2>2, <1>1 DEF ParsedBelow
<1>. QED
  BY <1>1, <1>2, <1>6, <1>9, <1>10 DEF Walking, WithDevices

LEMMA WalkLeaves ==
  ASSUME machine \in Machines, i \in Nat, Walking, ParseEnd
  PROVE  Walking'
<1>1. /\ mem' = mem /\ pc = "madt" /\ pc' = "rsdt" /\ i' = i + 1 /\ rsdt' = rsdt /\ toc' = toc
      /\ rsdt \in Of(mem, {"rsdt"}) /\ TocType /\ i < Len(mem[rsdt].entry)
      /\ toc.irq_exception \in [0 .. PINS - 1 -> Ics(mem) \cup {NONE}]
      /\ ics_start \in Of(mem, {"ics"}) \cup {ics_end} /\ ParsedBelow(ics_start)
  BY DEF ParseEnd, mem, Walking
<1>2. PICK a \in Of(mem, {"madt"}) : ics_end = a + mem[a].length
  BY <1>1 DEF Walking
<1>3. ics_start = ics_end /\ \A x \in Of(mem, {"ics"}) : x < ics_end
  <2>1. ics_end \in Nat /\ \A x \in Of(mem, {"ics"}) : x < ics_end /\ x \in Nat
    BY <1>2, MadtEntries, Firmware
  <2>2. ics_start >= ics_end
    BY DEF ParseEnd
  <2>. QED
    BY <2>1, <2>2, <1>1
<1>5. Complete'
  <2>1. \A c \in Nat : ParsedBelow(c)
    BY <1>1, <1>3 DEF ParsedBelow
  <2>. QED
    BY <2>1, <1>1 DEF Complete, ParsedBelow
<1>6. TocType'
  BY <1>1 DEF TocType
<1>7. rsdt' \in Of(mem', {"rsdt"}) /\ i' <= Len(mem'[rsdt'].entry)
  <2>1. Len(mem[rsdt].entry) \in Nat
    BY <1>1, Firmware
  <2>. QED
    BY <2>1, <1>1
<1>. QED
  BY <1>1, <1>5, <1>6, <1>7 DEF Walking, WithDevices

(* At the end the MADT has been among the tables (acpi.c:43-52).           *)
LEMMA WalkEnds ==
  ASSUME machine \in Machines, i \in Nat, Walking, AcpiDone
  PROVE  Walking'
<1>1. /\ mem' = mem /\ pc = "rsdt" /\ pc' = "devices" /\ toc' = toc
      /\ rsdt \in Of(mem, {"rsdt"}) /\ TocType /\ i <= Len(mem[rsdt].entry)
  BY DEF AcpiDone, mem, Walking
<1>2. /\ Len(mem[rsdt].entry) \in Nat /\ mem[rsdt].length = 1 + Len(mem[rsdt].entry)
      /\ \E k \in 1 .. Len(mem[rsdt].entry) : mem[mem[rsdt].entry[k]].kind = "madt"
  BY <1>1, Firmware
<1>3. i = Len(mem[rsdt].entry)
  BY <1>1, <1>2 DEF AcpiDone, entry_n, HDR
<1>4. Complete
  BY <1>1, <1>2, <1>3 DEF Walking
<1>5. Complete' /\ TocType'
  BY <1>1, <1>4 DEF Complete, ParsedBelow, TocType
<1>. QED
  BY <1>1, <1>5 DEF Walking, WithDevices

(* Outside of the walk the context only stays as it is.                    *)
LEMMA WalkStays ==
  ASSUME Walking, machine' = machine, toc' = toc,
         pc' \notin {"rsdt", "madt"},
         pc' \in {"devices"} \cup WithDevices => pc \in {"devices"} \cup WithDevices
  PROVE  Walking'
<1>1. mem' = mem
  BY DEF mem
<1>2. (Complete => Complete') /\ (TocType => TocType')
  BY <1>1 DEF Complete, ParsedBelow, TocType
<1>. QED
  BY <1>2 DEF Walking

(* What the walk leaves: an I/O APIC, and the override of the clock's      *)
(* line if there is one.                                                   *)
LEMMA WalkFound ==
  ASSUME machine \in Machines, Complete
  PROVE  /\ toc.ioapic \in Ics(mem) /\ toc.ioapic.type = "IOAPIC"
         /\ \A s \in 0 .. PINS - 1 :
              toc.irq_exception[s] # NONE =>
                toc.irq_exception[s] \in Ics(mem) /\ Override(toc.irq_exception[s], s)
         /\ \A e \in Ics(mem) : e.type = "INTSO" => toc.irq_exception[e.source] # NONE
<1>1. ASSUME NEW x \in Of(mem, {"ics"})
      PROVE  /\ mem[x].type = "INTSO" => toc.irq_exception[mem[x].source] # NONE
             /\ mem[x].type = "IOAPIC" => toc.ioapic \in Ics(mem) /\ toc.ioapic.type = "IOAPIC"
  <2>1. x + 1 \in Nat /\ x < x + 1
    BY Firmware
  <2>2. ParsedBelow(x + 1)
    BY <2>1 DEF Complete
  <2>. QED
    BY <2>1, <2>2 DEF ParsedBelow
<1>2. ParsedBelow(0)
  BY DEF Complete
<1>3. \E x \in Of(mem, {"ics"}) : mem[x].type = "IOAPIC"
  BY Firmware
<1>4. \A e \in Ics(mem) : e.type = "INTSO" => toc.irq_exception[e.source] # NONE
  BY <1>1 DEF Ics
<1>5. toc.ioapic \in Ics(mem) /\ toc.ioapic.type = "IOAPIC"
  BY <1>1, <1>3
<1>. QED
  BY <1>2, <1>4, <1>5 DEF ParsedBelow

-----------------------------------------------------------------------------
(* The boot, action by action.                                             *)

LEMMA BootStarts == Init => BootInv
<1>. SUFFICES ASSUME Init PROVE BootInv
  OBVIOUS
<1>1. /\ pc = "start" /\ machine \in Machines /\ i = 0 /\ j = 0 /\ vga = VGA /\ sp = "boot"
      /\ DOMAIN kpg = 0 .. 6 * ENT - 1
      /\ mm = [dir |-> [s \in Slots |-> NONE], pte |-> [v \in UserVAs |-> NONE], free |-> {}]
  BY DEF Init
<1>2. mm \in MM /\ mm.free = {}
  BY <1>1 DEF MM
<1>3. Types
  BY <1>1, <1>2 DEF Types, Unpaged, BeforeLow, BeforeVga
<1>4. BootTables /\ Free /\ Enough /\ pc \in Unpaged
  BY <1>1, <1>2 DEF BootTables, Free, Enough, Unpaged, Early
<1>. QED
  BY <1>3, <1>4 DEF BootInv

LEMMA BootBeforePaging ==
  ASSUME BootInv, _save_multiboot_info \/ _hhk_init
  PROVE  BootInv'
<1>1. /\ pc \in {"start", "hhk"} /\ pc' \in {"hhk", "paging"} /\ machine' = machine
      /\ i' = i /\ j' = j /\ mm' = mm /\ vga' = vga /\ sp' = sp /\ mb_info' = machine.mmap
  BY DEF _save_multiboot_info, _hhk_init, acpi_rest, BootInv, Types
<1>2. Types'
  BY <1>1 DEF BootInv, Types, Unpaged, BeforeLow, BeforeVga
<1>3. mm.free = {} /\ DOMAIN kpg = 0 .. 6 * ENT - 1
  BY <1>1 DEF BootInv, BootTables, Unpaged
<1>4. BootTables'
  <2>1. CASE _save_multiboot_info
    BY <2>1, <1>3 DEF _save_multiboot_info, BootTables, Unpaged
  <2>2. CASE _hhk_init
    BY <2>2, <1>3 DEF _hhk_init, BootTables, Unpaged
  <2>. QED
    BY <2>1, <2>2
<1>5. Free' /\ Enough' /\ pc' \in Unpaged
  BY <1>1, <1>3 DEF Free, Enough, Unpaged, Early
<1>. QED
  BY <1>2, <1>4, <1>5 DEF BootInv

(* With paging on, the entries are those of FirstTables (boot.S:101-116).  *)
LEMMA BootPaging ==
  ASSUME BootInv, EnablePaging
  PROVE  BootInv'
<1>1. /\ pc = "paging" /\ pc' = "pre_init" /\ machine' = machine /\ i' = i /\ j' = j
      /\ vga' = vga /\ sp' = sp /\ mb_info' = mb_info /\ mm'.free = {}
      /\ mm' = [dir |-> [s \in Slots |-> kpg[s]],
                pte |-> [v \in UserVAs |->
                           LET table == kpg[v \div ENT]
                           IN  IF table = NONE THEN NONE
                               ELSE kpg[(table - ptd) * ENT + (v % ENT)]],
                free |-> {}]
      /\ kpg = Over(_init_page, [x \in 0 .. 6 * ENT - 1 |-> NONE])
  BY DEF EnablePaging, acpi_rest, BootInv, BootTables, Types, MM, Unpaged
<1>2. ASSUME NEW v \in UserVAs
      PROVE  /\ mm'.pte[v] = IF v < kernel_start THEN v
                             ELSE IF v >= HIGHER + kernel_start /\ v < HIGHER + kernel_end
                                  THEN v - HIGHER ELSE NONE
             /\ mm'.pte[v] # NONE => mm'.dir[v \div ENT] # NONE
  <2>1. v \div ENT \in Slots
    BY Addresses
  <2>2. mm'.pte[v] = LET table == kpg[v \div ENT]
                     IN  IF table = NONE THEN NONE ELSE kpg[(table - ptd) * ENT + (v % ENT)]
    BY <1>1
  <2>3. mm'.dir[v \div ENT] = kpg[v \div ENT]
    BY <2>1, <1>1
  <2>4. mm'.pte[v] = IF v < kernel_start THEN v
                     ELSE IF v >= HIGHER + kernel_start /\ v < HIGHER + kernel_end
                          THEN v - HIGHER ELSE NONE
    BY <2>2, <1>1, FirstTables
  <2>. QED
    BY <2>2, <2>3, <2>4
<1>3. ASSUME NEW s \in Slots
      PROVE  /\ mm'.dir[s] \in ptd .. ptd + 4 \cup {NONE}
             /\ s \in BootSlots => mm'.dir[s] # NONE
  <2>1. mm'.dir[s] = IF s = 0 THEN ptd + 1 ELSE IF s = SELF THEN ptd
                     ELSE IF s >= kernel_pde_index /\ s <= kernel_pde_index + 2
                          THEN ptd + 2 + (s - kernel_pde_index) ELSE NONE
    BY <1>1, PagesInitialised
  <2>2. ptd \in Nat /\ NONE \notin Nat /\ SELF \in Nat
    BY Layout
  <2>3. kernel_pde_index \in Nat /\ s \in Nat
    BY <2>2, KernelTables, Addresses
  <2>4. mm'.dir[s] \in ptd .. ptd + 4 \cup {NONE}
    BY <2>1, <2>2, <2>3
  <2>5. s \in BootSlots => mm'.dir[s] # NONE
    <3>1. s \in BootSlots => s = 0 \/ s = SELF \/ (s >= kernel_pde_index /\ s <= kernel_pde_index + 2)
      BY <2>3, KernelTables
    <3>. QED
      BY <3>1, <2>1, <2>2, <2>3
  <2>. QED
    BY <2>4, <2>5
<1>4. /\ kernel_start \in Nat /\ kernel_end \in Nat /\ HIGHER \in Nat /\ ptd \in Nat /\ NONE \notin Nat
      /\ kernel_start <= ptd /\ ptd + 6 = kernel_end /\ kernel_start <= HIGHER /\ ENT \in Nat
      /\ Below = 0 .. kernel_start - 1 /\ VGA_V \in Nat /\ kernel_start <= VGA_V /\ VGA_V < HIGHER
      /\ HIGHER + kernel_end < K_STACK_START /\ K_STACK_START \in Nat /\ STACK \in Nat
  BY Layout
<1>5. /\ \A v \in UserVAs : v \in Nat
      /\ \A p \in 0 .. kernel_end : HIGHER + p \in UserVAs
      /\ \A v \in 0 .. HIGHER - 1 : v \in UserVAs
      /\ \A k \in 0 .. STACK - 1 : K_STACK_START + k \in UserVAs
      /\ VGA_V \in UserVAs /\ Below \subseteq UserVAs
  BY Addresses
<1>6. /\ \A v \in UserVAs : mm'.pte[v] \in 0 .. kernel_end - 1 \cup {NONE}
      /\ \A s \in Slots : mm'.dir[s] \in 0 .. kernel_end - 1 \cup {NONE}
  BY <1>2, <1>3, <1>4, <1>5
<1>7. mm' \in MM
  <2>1. mm'.dir \in [Slots -> Nat \cup {NONE}]
    BY <1>1, <1>4, <1>6
  <2>2. mm'.pte \in [UserVAs -> Nat \cup {NONE}]
    <3>1. \A v \in UserVAs : mm'.pte[v] \in Nat \cup {NONE}
      BY <1>4, <1>6
    <3>2. DOMAIN mm'.pte = UserVAs /\ mm'.pte = [v \in UserVAs |-> mm'.pte[v]]
      BY <1>1
    <3>. QED
      BY <3>1, <3>2
  <2>3. mm' = [dir |-> mm'.dir, pte |-> mm'.pte, free |-> {}]
    BY <1>1
  <2>. QED
    BY <2>1, <2>2, <2>3 DEF MM
<1>8. Rooted(mm)'
  <2>1. BootSlots \subseteq Slots
    BY KernelTables
  <2>. QED
    BY <2>1, <1>2, <1>3 DEF Rooted
<1>9. Sole(mm)'
  <2>1. ASSUME NEW p \in RamLow
        PROVE  (\A v \in UserVAs : mm'.pte[v] = p => v = p) /\ (\A s \in Slots : mm'.dir[s] # p)
    <3>1. p \in Nat /\ p < kernel_start
      <4>1. machine \in Machines
        BY DEF BootInv, Types
      <4>. QED
        BY <4>1, <1>4, RamHeld
    <3>2. \A v \in UserVAs : mm'.pte[v] = p => v = p
      BY <3>1, <1>2, <1>4, <1>5
    <3>3. \A s \in Slots : mm'.dir[s] # p
      BY <3>1, <1>3, <1>4
    <3>. QED
      BY <3>2, <3>3
  <2>. QED
    BY <2>1 DEF Sole
<1>10. Identity'
  BY <1>2, <1>4, <1>5 DEF Identity
<1>11. KernelMapped'
  <2>1. ASSUME NEW p \in kernel_start .. kernel_end - 1 PROVE mm'.pte[HIGHER + p] = p
    <3>1. PICK w \in UserVAs : w = HIGHER + p
      BY <1>4, <1>5
    <3>2. ~(w < kernel_start) /\ w >= HIGHER + kernel_start /\ w < HIGHER + kernel_end /\ w - HIGHER = p
      BY <3>1, <1>4
    <3>. QED
      BY <3>1, <3>2, <1>2
  <2>. QED
    BY <2>1 DEF KernelMapped
<1>12. VgaMapped'
  <2>1. VGA_V \in UserVAs /\ ~(VGA_V < kernel_start) /\ ~(VGA_V >= HIGHER + kernel_start)
    BY <1>4, <1>5
  <2>2. mm'.pte[VGA_V] = NONE
    BY <2>1, <1>2
  <2>. QED
    BY <2>2, <1>1 DEF VgaMapped, BeforeVga
<1>13. StackMapped'
  <2>1. ASSUME NEW k \in 0 .. STACK - 1 PROVE mm'.pte[K_STACK_START + k] = NONE
    <3>1. PICK w \in UserVAs : w = K_STACK_START + k
      BY <1>5
    <3>2. ~(w < kernel_start) /\ ~(w < HIGHER + kernel_end)
      BY <3>1, <1>4
    <3>. QED
      BY <3>1, <3>2, <1>2
  <2>. QED
    BY <2>1, <1>1 DEF StackMapped, BeforeVga
<1>14. HeapFree'
  <2>1. PICK w \in UserVAs : w = HIGHER + kernel_end
    BY <1>4, <1>5
  <2>2. ~(w < kernel_start) /\ ~(w < HIGHER + kernel_end)
    BY <2>1, <1>4
  <2>. QED
    BY <2>1, <2>2, <1>2 DEF HeapFree
<1>15. LowerIdentity'
  <2>1. ASSUME NEW v \in 0 .. HIGHER - 1 PROVE mm'.pte[v] \in {NONE, v}
    BY <1>2, <1>4, <1>5
  <2>. QED
    BY <2>1 DEF LowerIdentity
<1>16. DevicesMapped' /\ LockedMapped'
  BY <1>1 DEF DevicesMapped, LockedMapped, AcpiWalk, WithDevices
<1>17. Paged'
  BY <1>8, <1>9, <1>10, <1>11, <1>12, <1>13, <1>14, <1>15, <1>16 DEF Paged
<1>18. Types'
  BY <1>1, <1>7 DEF BootInv, Types, Unpaged, BeforeLow, BeforeVga
<1>19. BootTables' /\ Free' /\ Enough'
  BY <1>1, <1>6 DEF BootTables, Free, Enough, Unpaged, Early
<1>. QED
  BY <1>17, <1>18, <1>19 DEF BootInv

(* What holds of the tables goes on to hold while they stay as they are    *)
(* and no new page is counted as mapped.                                   *)
LEMMA PagedStays ==
  ASSUME Paged, machine' = machine, mm'.dir = mm.dir, mm'.pte = mm.pte,
         \A v \in Below : Kept(v)' => Kept(v),
         pc' \in BeforeVga <=> pc \in BeforeVga,
         \A k \in 0 .. STACK - 1 :
           (pc' \in BeforeVga \/ (pc' = "stack" /\ k >= i'))
             <=> (pc \in BeforeVga \/ (pc = "stack" /\ k >= i)),
         pc' \in BeforeVga \cup {"stack"} => pc \in BeforeVga \cup {"stack"},
         pc \in WithDevices => pc' \in WithDevices,
         \A v \in {APIC_V, IOAPIC_V} :
           (pc' = "low" /\ v < i') \/ pc' \in {"lock"} \cup AcpiWalk
             => (pc = "low" /\ v < i) \/ pc \in {"lock"} \cup AcpiWalk,
         pc' \in WithDevices => pc \in WithDevices /\ toc' = toc,
         LockedMapped'
  PROVE  Paged'
<1>1. Rooted(mm)' /\ Sole(mm)'
  BY DEF Paged, Rooted, Sole
<1>2. Identity'
  BY DEF Paged, Identity
<1>3. KernelMapped' /\ VgaMapped'
  BY DEF Paged, KernelMapped, VgaMapped
<1>4. StackMapped'
  BY DEF Paged, StackMapped
<1>5. HeapFree'
  BY DEF Paged, HeapFree
<1>6. LowerIdentity'
  BY DEF Paged, LowerIdentity
<1>7. DevicesMapped'
  BY DEF Paged, DevicesMapped
<1>. QED
  BY <1>1, <1>2, <1>3, <1>4, <1>5, <1>6, <1>7 DEF Paged

(* Memory is handed to the allocator (k_init.c:181-195).                   *)
LEMMA BootMemory ==
  ASSUME BootInv, _kernel_pre_init \/ FreeRegion \/ OccupyKernel
  PROVE  BootInv'
<1>1. /\ pc \in {"pre_init", "memory"} /\ pc' \in {"memory", "vga"} /\ machine' = machine
      /\ j' = j /\ sp' = sp /\ mb_info' = mb_info
      /\ mm'.dir = mm.dir /\ mm'.pte = mm.pte
      /\ mm' = [mm EXCEPT !.free = mm'.free]
  BY DEF _kernel_pre_init, FreeRegion, OccupyKernel, acpi_rest, BootInv, Types, MM
<1>2. /\ machine \in Machines /\ mm \in MM /\ i \in Nat /\ mb_info = machine.mmap /\ vga = VGA
      /\ sp = "boot" /\ Paged
  BY <1>1 DEF BootInv, Types, Unpaged, BeforeLow, BeforeVga
<1>3. vga' = VGA /\ i' \in Nat
  BY <1>2 DEF _kernel_pre_init, FreeRegion, OccupyKernel
<1>4. mm'.free \subseteq Nat /\ \A f \in mm'.free : Held(f)
  <2>1. \A f \in mm.free : Held(f) /\ f \in Nat
    BY <1>2 DEF BootInv, Free, MM
  <2>2. CASE _kernel_pre_init
    BY <2>2, <1>2 DEF _kernel_pre_init, MM
  <2>3. CASE FreeRegion /\ Available(mb_info[i])
    <3>1. i \in DOMAIN machine.mmap
      <4>1. i >= 1
        BY <1>1, <2>3 DEF FreeRegion, BootInv, Enough
      <4>. QED
        BY <4>1, <2>3, <1>2, Regions DEF FreeRegion
    <3>2. mm'.free = mm.free \cup RegionPages(machine.mmap[i])
      BY <2>3, <1>2 DEF FreeRegion, MM
    <3>3. RegionPages(machine.mmap[i]) \subseteq Nat
      <4>1. PICK a \in Nat, b \in Nat : a = machine.mmap[i].addr /\ b = machine.mmap[i].len
        BY <3>1, <1>2, Regions
      <4>2. (a + PAGE - 1) \div PAGE \in Nat
        <5>1. a + PAGE - 1 \in Nat
          BY Layout
        <5>. QED
          BY <5>1, Layout, Division
      <4>3. b \div PAGE \in Nat
        BY Layout, Division
      <4>4. \A x, y \in Nat : x .. x + y - 1 \subseteq Nat
        OBVIOUS
      <4>. QED
        BY <4>1, <4>2, <4>3, <4>4 DEF RegionPages
    <3>4. ASSUME NEW f \in RegionPages(machine.mmap[i]) PROVE Held(f)
      BY <3>1, <3>3, <3>4, <2>3, <1>2, AvailablePages DEF Held
    <3>. QED
      BY <2>1, <3>2, <3>3, <3>4
  <2>4. CASE FreeRegion /\ ~Available(mb_info[i])
    BY <2>1, <2>4 DEF FreeRegion
  <2>5. CASE OccupyKernel
    <3>1. mm'.free \subseteq mm.free
      BY <2>5, <1>2 DEF OccupyKernel, MM
    <3>. QED
      BY <2>1, <3>1
  <2>. QED
    BY <2>2, <2>3, <2>4, <2>5
<1>5. mm' \in MM
  BY <1>1, <1>2, <1>4 DEF MM
<1>6. Types'
  BY <1>1, <1>2, <1>3, <1>5 DEF BootInv, Types, Unpaged, BeforeLow, BeforeVga
<1>7. Paged'
  <2>1. LockedMapped'
    BY <1>1 DEF LockedMapped, AcpiWalk, WithDevices
  <2>2. \A v \in Below : Kept(v)' => Kept(v)
    BY <1>1 DEF Kept, BeforeLow, BeforeVga
  <2>. QED
    BY <1>1, <1>2, <2>1, <2>2, PagedStays DEF BeforeVga, WithDevices, AcpiWalk
<1>8. /\ \A v \in UserVAs : mm'.pte[v] \in 0 .. kernel_end - 1 \cup {NONE}
      /\ \A s \in Slots : mm'.dir[s] \in 0 .. kernel_end - 1 \cup {NONE}
  BY <1>1 DEF BootInv, Free, Early, Unpaged
<1>9. Free' /\ Enough' /\ BootTables'
  <2>1. BootTables'
    BY <1>1 DEF BootTables, Unpaged
  <2>2. \A f \in mm'.free : Held(f)'
    BY <1>1, <1>4 DEF Held
  <2>3. CASE _kernel_pre_init
    <3>1. pc' = "memory" /\ i' = 1
      BY <2>3 DEF _kernel_pre_init
    <3>2. Free'
      BY <3>1, <2>2, <1>8 DEF Free, Early
    <3>3. \A k \in DOMAIN machine.mmap : ~(k < 1)
      BY <1>2, Regions
    <3>4. Enough'
      BY <3>1, <3>3, <1>1 DEF Enough, Early
    <3>. QED
      BY <3>2, <3>4, <2>1
  <2>4. CASE FreeRegion
    <3>1. pc' = "memory" /\ pc = "memory" /\ i' = i + 1 /\ i >= 1
      BY <2>4 DEF FreeRegion, BootInv, Enough
    <3>2. Free'
      BY <3>1, <2>2, <1>8 DEF Free, Early
    <3>3. ASSUME NEW k \in DOMAIN machine.mmap, k < i + 1, Available(machine.mmap[k])
          PROVE  RegionPages(machine.mmap[k]) \subseteq mm'.free
      <4>1. k = i \/ k < i
        BY <3>3, <1>2, Regions
      <4>2. mm'.free = IF Available(mb_info[i]) THEN mm.free \cup RegionPages(mb_info[i]) ELSE mm.free
        BY <2>4, <1>2 DEF FreeRegion, MM
      <4>3. k < i => RegionPages(machine.mmap[k]) \subseteq mm.free
        BY <3>1, <3>3 DEF BootInv, Enough
      <4>. QED
        BY <3>3, <4>1, <4>2, <4>3, <1>2
    <3>4. Enough'
      BY <3>1, <3>3, <1>1, <1>2 DEF Enough, Early
    <3>. QED
      BY <3>2, <3>4, <2>1
  <2>5. CASE OccupyKernel
    <3>1. pc = "memory" /\ pc' = "vga" /\ i > Len(machine.mmap)
      BY <2>5, <1>2 DEF OccupyKernel
    <3>2. mm'.free = mm.free \ (0 .. kernel_end - 1 \cup {VGA})
      BY <2>5, <1>2 DEF OccupyKernel, MM
    <3>3. kernel_end \in Nat /\ kernel_end > 0 /\ NONE \notin Nat /\ VGA < kernel_end /\ VGA \in Nat /\ MAX_PG \in Nat
      BY Layout
    <3>4. Unused(mm') /\ 0 \notin mm'.free
      <4>1. \A f \in mm'.free : f \in Nat /\ f \notin 0 .. kernel_end - 1 \cup {NONE}
        BY <3>2, <3>3, <1>4
      <4>. QED
        BY <4>1, <3>3, <1>8 DEF Unused
    <3>5. Free'
      BY <3>1, <3>4, <2>2 DEF Free, Early, Unused
    <3>6. FreeFrames(machine) \subseteq mm'.free
      <4>1. ASSUME NEW f \in kernel_end .. MAX_PG - 1, NEW k \in DOMAIN machine.mmap,
                   Available(machine.mmap[k]), Holds(machine.mmap[k], f)
            PROVE  f \in mm'.free
        <5>1. f \in Nat /\ f >= kernel_end
          BY <3>3
        <5>2. f \in RegionPages(machine.mmap[k])
          BY <4>1, <5>1, <1>2, AvailablePages
        <5>3. k < i
          BY <3>1, <1>2, Regions
        <5>4. f \in mm.free
          BY <4>1, <5>2, <5>3, <3>1 DEF BootInv, Enough
        <5>. QED
          BY <5>1, <5>4, <3>2, <3>3
      <4>. QED
        BY <4>1 DEF FreeFrames
    <3>7. IsFiniteSet(mm'.free)
      BY <1>2, <1>4, HeldBelow
    <3>8. Missing(mm') \subseteq UsedSlots(machine) \ BootSlots
      BY <1>1, <1>2 DEF Missing, Paged, Rooted
    <3>9. IsFiniteSet(UsedSlots(machine) \ BootSlots)
      BY UsedAreSlots, FS_Subset
    <3>10. /\ Cardinality(FreeFrames(machine)) <= Cardinality(mm'.free)
           /\ Cardinality(FreeFrames(machine)) \in Nat /\ Cardinality(mm'.free) \in Nat
      BY <3>6, <3>7, FS_Subset, FS_CardinalityType
    <3>11. /\ Cardinality(Missing(mm')) <= Cardinality(UsedSlots(machine) \ BootSlots)
           /\ Cardinality(Missing(mm')) \in Nat /\ Cardinality(UsedSlots(machine) \ BootSlots) \in Nat
      BY <3>8, <3>9, FS_Subset, FS_CardinalityType
    <3>12. Cardinality(FreeFrames(machine)) >= STACK + 1 + Cardinality(UsedSlots(machine) \ BootSlots)
      BY <1>2, MemoryAssumption
    <3>13. Cardinality(mm'.free) >= STACK + 1 + Cardinality(Missing(mm'))
      BY <3>10, <3>11, <3>12, Layout
    <3>14. PagesLeft' = STACK + 1 /\ Missing(mm)' = Missing(mm')
      BY <3>1, <1>1 DEF PagesLeft, BeforeVga, Missing
    <3>15. Enough'
      BY <3>1, <3>13, <3>14 DEF Enough
    <3>. QED
      BY <3>5, <3>15, <2>1
  <2>. QED
    BY <2>3, <2>4, <2>5
<1>. QED
  BY <1>6, <1>7, <1>9 DEF BootInv

(* A new entry and a new table leave what is mapped as it is.              *)
LEMMA MappingKeeps ==
  ASSUME machine \in Machines, mm \in MM, Paged, Unused(mm), machine' = machine, Rooted(mm'),
         NEW v \in UserVAs, NEW p \in Nat \ RamLow,
         \A w \in UserVAs : mm'.pte[w] = IF w = v /\ mm.pte[w] = NONE THEN p ELSE mm.pte[w],
         \A s \in Slots : mm'.dir[s] = mm.dir[s] \/ (mm.dir[s] = NONE /\ mm'.dir[s] \in mm.free),
         \A w \in Below : Kept(w)' => Kept(w)
  PROVE  /\ Rooted(mm)' /\ Sole(mm)' /\ Identity' /\ KernelMapped'
         /\ \A w \in UserVAs : mm.pte[w] # NONE => mm'.pte[w] = mm.pte[w]
<1>1. \A w \in UserVAs : mm.pte[w] # NONE => mm'.pte[w] = mm.pte[w]
  OBVIOUS
<1>2. /\ NONE \notin Nat /\ kernel_start \in Nat /\ kernel_end \in Nat /\ Below = 0 .. kernel_start - 1
      /\ \A w \in Below : w \in UserVAs /\ w # NONE
      /\ \A q \in kernel_start .. kernel_end - 1 : HIGHER + q \in UserVAs /\ q # NONE
  <2>1. /\ NONE \notin Nat /\ kernel_start \in Nat /\ kernel_end \in Nat /\ Below = 0 .. kernel_start - 1
    BY Layout
  <2>2. Below \subseteq UserVAs /\ \A q \in 0 .. kernel_end : HIGHER + q \in UserVAs
    BY Addresses
  <2>. QED
    BY <2>1, <2>2
<1>3. Sole(mm)'
  <2>1. ASSUME NEW q \in RamLow, mm'.pte[q] = q
        PROVE  (\A w \in UserVAs : mm'.pte[w] = q => w = q) /\ (\A s \in Slots : mm'.dir[s] # q)
    <3>1. q \in UserVAs /\ q # NONE /\ q # p
      BY <1>2, RamHeld
    <3>2. mm.pte[q] = q
      BY <2>1, <3>1
    <3>3. q \notin mm.free
      BY <3>1, <3>2 DEF Unused
    <3>4. (\A w \in UserVAs : mm.pte[w] = q => w = q) /\ (\A s \in Slots : mm.dir[s] # q)
      BY <3>2 DEF Paged, Sole
    <3>. QED
      BY <3>1, <3>3, <3>4
  <2>. QED
    BY <2>1 DEF Sole
<1>4. Identity'
  BY <1>1, <1>2 DEF Paged, Identity
<1>5. KernelMapped'
  BY <1>1, <1>2 DEF Paged, KernelMapped
<1>6. Rooted(mm)'
  BY DEF Rooted
<1>. QED
  BY <1>1, <1>3, <1>4, <1>5, <1>6

(* What the invariant says of the frames once the allocator has them.      *)
LEMMA Frames ==
  ASSUME BootInv, pc \notin Early
  PROVE  /\ machine \in Machines /\ mm \in MM /\ i \in Nat /\ j \in Nat /\ mb_info = machine.mmap
         /\ Paged /\ Unused(mm) /\ 0 \notin mm.free /\ IsFiniteSet(mm.free)
         /\ mm.free \subseteq 0 .. MAX_PG - 1
         /\ \A f \in mm.free : Held(f)
         /\ Cardinality(mm.free) >= PagesLeft + Cardinality(Missing(mm))
         /\ Cardinality(mm.free) \in Nat /\ Cardinality(Missing(mm)) \in Nat
<1>1. /\ machine \in Machines /\ mm \in MM /\ i \in Nat /\ j \in Nat /\ mb_info = machine.mmap
      /\ Paged /\ Unused(mm) /\ 0 \notin mm.free /\ \A f \in mm.free : Held(f)
  BY DEF BootInv, Types, Free, Early, Unpaged
<1>2. mm.free \subseteq Nat
  BY <1>1 DEF MM
<1>3. mm.free \subseteq 0 .. MAX_PG - 1 /\ IsFiniteSet(mm.free)
  BY <1>1, <1>2, HeldBelow
<1>4. IsFiniteSet(Missing(mm))
  BY UsedAreSlots, FS_Subset DEF Missing
<1>5. Cardinality(mm.free) >= PagesLeft + Cardinality(Missing(mm))
  BY DEF BootInv, Enough
<1>. QED
  BY <1>1, <1>3, <1>4, <1>5, FS_CardinalityType

(* The screen moves to its own page (k_init.c:73-74).                      *)
LEMMA BootScreen ==
  ASSUME BootInv, MapVga
  PROVE  BootInv'
<1>1. /\ pc = "vga" /\ pc' = "stack" /\ machine' = machine /\ j' = j /\ sp' = sp
      /\ mb_info' = mb_info /\ vga' = VGA_V /\ i' = 0 /\ mm' \in vmm_map_page(mm, VGA_V, VGA)
  BY DEF MapVga, acpi_rest
<1>2. /\ machine \in Machines /\ mm \in MM /\ mb_info = machine.mmap /\ Paged /\ Unused(mm)
      /\ 0 \notin mm.free /\ IsFiniteSet(mm.free) /\ j \in Nat
      /\ Cardinality(mm.free) >= STACK + 1 + Cardinality(Missing(mm))
      /\ Cardinality(mm.free) \in Nat /\ Cardinality(Missing(mm)) \in Nat
  BY <1>1, Frames DEF Early, PagesLeft, BeforeVga
<1>3. /\ VGA \in Nat /\ VGA > 2 /\ VGA < LOW /\ LOW \in Nat /\ STACK \in Nat /\ NONE \notin Nat
      /\ VGA_V \in UserVAs /\ VGA \in Below /\ VGA \notin RamLow
  <2>1. /\ VGA \in Nat /\ VGA > 2 /\ VGA < LOW /\ LOW \in Nat /\ STACK \in Nat /\ NONE \notin Nat
        /\ kernel_start = LOW + HHK /\ HHK \in Nat /\ Below = 0 .. kernel_start - 1
        /\ Hhk = LOW .. kernel_start - 1 /\ APIC_V = 1 /\ IOAPIC_V = 2
    BY Layout
  <2>. QED
    BY <2>1, Addresses DEF RamLow
<1>4. mm.pte[VGA_V] = NONE /\ mm.pte[VGA] = VGA
  <2>1. Kept(VGA)
    BY <1>3 DEF Kept, IOAPIC_V
  <2>. QED
    BY <2>1, <1>1, <1>2, <1>3 DEF Paged, VgaMapped, Identity, BeforeVga
<1>5. Mapped(mm, mm', VGA_V, VGA)
  <2>1. VGA_V \div ENT \in UsedSlots(machine)
    BY DEF UsedSlots
  <2>2. Cardinality(mm.free) >= Cardinality(Missing(mm))
    BY <1>2, <1>3
  <2>. QED
    BY <2>1, <2>2, <1>1, <1>2, <1>3, <1>4, MapPage DEF Paged
<1>6. /\ mm' \in MM /\ Rooted(mm') /\ mm'.free \subseteq mm.free /\ Unused(mm')
      /\ \A w \in UserVAs : mm'.pte[w] = IF w = VGA_V /\ mm.pte[w] = NONE THEN VGA ELSE mm.pte[w]
      /\ \A s \in Slots : mm'.dir[s] = mm.dir[s] \/ (mm.dir[s] = NONE /\ mm'.dir[s] \in mm.free)
      /\ Cardinality(mm'.free) >= STACK + 1 + Cardinality(Missing(mm'))
  <2>1. VGA \notin mm.free
    BY <1>2, <1>3, <1>4, Addresses DEF Unused
  <2>2. STACK + 1 \in Nat
    BY <1>3
  <2>. QED
    BY <2>1, <2>2, <1>2, <1>5 DEF Mapped
<1>7. /\ Rooted(mm)' /\ Sole(mm)' /\ Identity' /\ KernelMapped'
      /\ \A w \in UserVAs : mm.pte[w] # NONE => mm'.pte[w] = mm.pte[w]
  <2>1. \A w \in Below : Kept(w)' => Kept(w)
    BY <1>1 DEF Kept, BeforeLow, BeforeVga
  <2>. QED
    BY <2>1, <1>1, <1>2, <1>3, <1>6, MappingKeeps
<1>8. mm'.pte[VGA_V] = VGA /\ \A w \in UserVAs : w # VGA_V => mm'.pte[w] = mm.pte[w]
  BY <1>3, <1>4, <1>6
<1>9. VgaMapped'
  BY <1>1, <1>8 DEF VgaMapped, BeforeVga
<1>10. /\ \A k \in 0 .. STACK - 1 : K_STACK_START + k \in UserVAs /\ K_STACK_START + k # VGA_V
       /\ HIGHER + kernel_end \in UserVAs /\ HIGHER + kernel_end # VGA_V
       /\ \A v \in 0 .. HIGHER - 1 : v \in UserVAs
  <2>1. /\ VGA_V \in Nat /\ VGA_V < HIGHER /\ HIGHER \in Nat /\ kernel_end \in Nat /\ K_STACK_START \in Nat
        /\ HIGHER + kernel_end < K_STACK_START
    BY Layout
  <2>2. /\ \A k \in 0 .. STACK - 1 : K_STACK_START + k \in UserVAs
        /\ HIGHER + kernel_end \in UserVAs /\ \A v \in 0 .. HIGHER - 1 : v \in UserVAs
    BY <2>1, Addresses
  <2>. QED
    BY <2>1, <2>2, <1>3
<1>11. StackMapped' /\ HeapFree'
  <2>1. \A k \in 0 .. STACK - 1 : mm'.pte[K_STACK_START + k] = NONE
    BY <1>1, <1>2, <1>8, <1>10 DEF Paged, StackMapped, BeforeVga
  <2>2. mm'.pte[HIGHER + kernel_end] = NONE
    BY <1>1, <1>2, <1>8, <1>10 DEF Paged, HeapFree, BeforeVga
  <2>. QED
    BY <2>1, <2>2, <1>1, <1>3 DEF StackMapped, HeapFree
<1>12. LowerIdentity'
  BY <1>1, <1>2, <1>8, <1>10 DEF Paged, LowerIdentity, WithDevices
<1>13. DevicesMapped' /\ LockedMapped'
  BY <1>1 DEF DevicesMapped, LockedMapped, AcpiWalk, WithDevices
<1>14. Paged'
  BY <1>7, <1>9, <1>11, <1>12, <1>13 DEF Paged
<1>15. Types'
  BY <1>1, <1>2, <1>6 DEF BootInv, Types, Unpaged, BeforeLow, BeforeVga
<1>16. Free'
  BY <1>1, <1>2, <1>6 DEF BootInv, Free, Held, Early, Unpaged, Unused
<1>17. Enough'
  <2>1. PagesLeft' = STACK + 1 /\ Missing(mm)' = Missing(mm')
    BY <1>1, <1>3 DEF PagesLeft, BeforeVga, Missing
  <2>. QED
    BY <2>1, <1>1, <1>3, <1>6 DEF Enough
<1>18. BootTables'
  BY <1>1 DEF BootTables, Unpaged
<1>. QED
  BY <1>14, <1>15, <1>16, <1>17, <1>18 DEF BootInv

(* A page for the stack or the heap: what is below the heap stays mapped.  *)
LEMMA RuntimePage ==
  ASSUME BootInv, pc = "stack", pc' \in {"stack", "switch"}, machine' = machine, j' = j,
         sp' = sp, vga' = vga, mb_info' = mb_info, i' \in Nat,
         NEW v \in UserVAs, v >= HIGHER + kernel_end, v \div ENT \in UsedSlots(machine),
         mm.pte[v] = NONE, mm' \in vmm_alloc_page(mm, v),
         NEW c \in Nat, c + 1 <= STACK + 1 - i, PagesLeft' = c, pc' = "stack" => i' <= STACK
  PROVE  /\ \E p \in 1 .. MAX_PG - 1 : \A w \in UserVAs : mm'.pte[w] = IF w = v THEN p ELSE mm.pte[w]
         /\ StackMapped' /\ HeapFree' => BootInv'
<1>1. /\ machine \in Machines /\ mm \in MM /\ mb_info = machine.mmap /\ Paged /\ Unused(mm)
      /\ 0 \notin mm.free /\ IsFiniteSet(mm.free) /\ mm.free \subseteq 0 .. MAX_PG - 1
      /\ \A f \in mm.free : Held(f)
      /\ Cardinality(mm.free) >= STACK + 1 - i + Cardinality(Missing(mm))
      /\ Cardinality(mm.free) \in Nat /\ Cardinality(Missing(mm)) \in Nat
      /\ i \in Nat /\ j \in Nat /\ i <= STACK
  <2>1. PagesLeft = STACK + 1 - i /\ i <= STACK /\ pc \notin Early
    BY DEF PagesLeft, BeforeVga, BootInv, Enough, Early
  <2>. QED
    BY <2>1, Frames
<1>2. /\ STACK \in Nat /\ MAX_PG \in Nat /\ NONE \notin Nat /\ HIGHER \in Nat /\ kernel_end \in Nat
      /\ VGA_V \in Nat /\ VGA_V < HIGHER /\ v \in Nat /\ VGA_V \in UserVAs
      /\ \A w \in 0 .. HIGHER - 1 : w \in UserVAs /\ w # v
  <2>1. /\ STACK \in Nat /\ MAX_PG \in Nat /\ NONE \notin Nat /\ HIGHER \in Nat /\ kernel_end \in Nat
        /\ VGA_V \in Nat /\ VGA_V < HIGHER
    BY Layout
  <2>2. v \in Nat /\ VGA_V \in UserVAs /\ \A w \in 0 .. HIGHER - 1 : w \in UserVAs
    BY Addresses
  <2>. QED
    BY <2>1, <2>2
<1>3. Cardinality(mm.free) >= c + 1 + Cardinality(Missing(mm))
  BY <1>1, <1>2
<1>4. /\ mm' \in MM /\ Rooted(mm') /\ mm'.free \subseteq mm.free
      /\ \E p \in mm.free : \A w \in UserVAs : mm'.pte[w] = IF w = v THEN p ELSE mm.pte[w]
      /\ \A s \in Slots : mm'.dir[s] = mm.dir[s] \/ (mm.dir[s] = NONE /\ mm'.dir[s] \in mm.free)
      /\ Unused(mm) => Unused(mm')
      /\ Cardinality(mm'.free) >= c + Cardinality(Missing(mm'))
  BY <1>1, <1>3, AllocPage DEF Paged
<1>5. PICK p \in mm.free : \A w \in UserVAs : mm'.pte[w] = IF w = v THEN p ELSE mm.pte[w]
  BY <1>4
<1>6. p \in 1 .. MAX_PG - 1 /\ p \in Nat
  BY <1>1, <1>2
<1>7. p \notin RamLow
  <2>1. ASSUME p \in RamLow PROVE FALSE
    <3>1. mm.pte[p] # p /\ p \in Below
      BY <2>1, <1>1, RamHeld, Addresses DEF Unused
    <3>2. mm.pte[p] = p
      <4>1. Kept(p)
        <5>1. /\ APIC_V = 1 /\ IOAPIC_V = 2 /\ VGA > 2 /\ VGA < LOW /\ VGA \in Nat /\ LOW \in Nat
              /\ Hhk = LOW .. kernel_start - 1
          BY Layout
        <5>. QED
          BY <5>1, <2>1 DEF RamLow, Kept, BeforeLow
      <4>. QED
        BY <4>1, <3>1, <1>1 DEF Paged, Identity
    <3>. QED
      BY <3>1, <3>2
  <2>. QED
    BY <2>1
<1>8. /\ Rooted(mm)' /\ Sole(mm)' /\ Identity' /\ KernelMapped'
      /\ \A w \in UserVAs : mm.pte[w] # NONE => mm'.pte[w] = mm.pte[w]
  <2>1. \A w \in Below : Kept(w)' => Kept(w)
    BY DEF Kept, BeforeLow, BeforeVga
  <2>2. \A w \in UserVAs : mm'.pte[w] = IF w = v /\ mm.pte[w] = NONE THEN p ELSE mm.pte[w]
    BY <1>5
  <2>. QED
    BY <2>1, <2>2, <1>1, <1>4, <1>6, <1>7, MappingKeeps
<1>9. VgaMapped'
  <2>1. mm'.pte[VGA_V] = mm.pte[VGA_V]
    BY <1>2, <1>5
  <2>. QED
    BY <2>1, <1>1 DEF Paged, VgaMapped, BeforeVga
<1>10. LowerIdentity'
  BY <1>1, <1>2, <1>5 DEF Paged, LowerIdentity, WithDevices
<1>11. DevicesMapped' /\ LockedMapped'
  BY DEF DevicesMapped, LockedMapped, AcpiWalk, WithDevices
<1>12. Types'
  BY <1>1, <1>4 DEF BootInv, Types, Unpaged, BeforeLow, BeforeVga
<1>13. Free'
  BY <1>1, <1>4 DEF Free, Held, Early, Unpaged, Unused
<1>14. Enough'
  <2>1. Missing(mm)' = Missing(mm')
    BY DEF Missing
  <2>. QED
    BY <2>1, <1>4 DEF Enough
<1>15. BootTables'
  BY DEF BootTables, Unpaged
<1>16. StackMapped' /\ HeapFree' => BootInv'
  BY <1>8, <1>9, <1>10, <1>11, <1>12, <1>13, <1>14, <1>15 DEF BootInv, Paged
<1>. QED
  BY <1>5, <1>6, <1>16

(* The stack, page by page (k_init.c:209-214).                             *)
LEMMA BootStack ==
  ASSUME BootInv, AllocStack
  PROVE  BootInv'
<1>1. /\ pc = "stack" /\ pc' = "stack" /\ machine' = machine /\ j' = j /\ sp' = sp /\ vga' = vga
      /\ mb_info' = mb_info /\ i < STACK /\ i' = i + 1
      /\ mm' \in vmm_alloc_page(mm, K_STACK_START + i)
  BY DEF AllocStack, acpi_rest
<1>2. PICK v \in UserVAs, c \in Nat :
        /\ v = K_STACK_START + i /\ v >= HIGHER + kernel_end /\ v \div ENT \in UsedSlots(machine)
        /\ i \in Nat /\ c = STACK - i /\ STACK \in Nat /\ K_STACK_START \in Nat
        /\ HIGHER + kernel_end \in UserVAs /\ HIGHER + kernel_end < v
        /\ \A k \in 0 .. STACK - 1 : K_STACK_START + k \in UserVAs
  <2>1. i \in Nat
    BY DEF BootInv, Types
  <2>2. /\ STACK \in Nat /\ K_STACK_START \in Nat /\ HIGHER \in Nat /\ kernel_end \in Nat
        /\ HIGHER + kernel_end < K_STACK_START
    BY Layout
  <2>3. i \in 0 .. STACK - 1 /\ STACK - i \in Nat
    BY <2>1, <2>2, <1>1
  <2>4. /\ \A k \in 0 .. STACK - 1 : K_STACK_START + k \in UserVAs
        /\ HIGHER + kernel_end \in UserVAs
    <3>1. kernel_end \in 0 .. kernel_end
      BY <2>2
    <3>. QED
      BY <3>1, Addresses
  <2>5. (K_STACK_START + i) \div ENT \in UsedSlots(machine)
    BY <2>3 DEF UsedSlots
  <2>. QED
    BY <2>1, <2>2, <2>3, <2>4, <2>5
<1>3. mm.pte[v] = NONE
  BY <1>1, <1>2 DEF BootInv, Paged, StackMapped, Unpaged
<1>4. PagesLeft' = c /\ c + 1 <= STACK + 1 - i /\ i' <= STACK /\ i' \in Nat
  BY <1>1, <1>2 DEF PagesLeft, BeforeVga
<1>5. /\ \E p \in 1 .. MAX_PG - 1 : \A w \in UserVAs : mm'.pte[w] = IF w = v THEN p ELSE mm.pte[w]
      /\ StackMapped' /\ HeapFree' => BootInv'
  BY <1>1, <1>2, <1>3, <1>4, RuntimePage
<1>6. PICK p \in 1 .. MAX_PG - 1 : \A w \in UserVAs : mm'.pte[w] = IF w = v THEN p ELSE mm.pte[w]
  BY <1>5
<1>7. StackMapped'
  <2>1. ASSUME NEW k \in 0 .. STACK - 1
        PROVE  IF k >= i + 1 THEN mm'.pte[K_STACK_START + k] = NONE
               ELSE mm'.pte[K_STACK_START + k] \in 1 .. MAX_PG - 1
    <3>1. mm'.pte[K_STACK_START + k] = IF k = i THEN p ELSE mm.pte[K_STACK_START + k]
      BY <1>2, <1>6
    <3>2. IF k >= i THEN mm.pte[K_STACK_START + k] = NONE
          ELSE mm.pte[K_STACK_START + k] \in 1 .. MAX_PG - 1
      BY <1>1 DEF BootInv, Paged, StackMapped, Unpaged, BeforeVga
    <3>. QED
      BY <3>1, <3>2, <1>2
  <2>. QED
    BY <2>1, <1>1 DEF StackMapped, BeforeVga
<1>8. HeapFree'
  <2>1. mm'.pte[HIGHER + kernel_end] = mm.pte[HIGHER + kernel_end]
    BY <1>2, <1>6 DEF UserVAs
  <2>. QED
    BY <2>1, <1>1 DEF BootInv, Paged, HeapFree, Unpaged, BeforeVga
<1>. QED
  BY <1>5, <1>7, <1>8

(* The heap's first page (k_init.c:216, kalloc.c:55).                      *)
LEMMA BootHeap ==
  ASSUME BootInv, kalloc_init
  PROVE  BootInv'
<1>1. /\ pc = "stack" /\ pc' = "switch" /\ machine' = machine /\ j' = j /\ sp' = sp /\ vga' = vga
      /\ mb_info' = mb_info /\ i >= STACK /\ i' = i
      /\ mm' \in vmm_alloc_page(mm, HIGHER + kernel_end)
  BY DEF kalloc_init, acpi_rest
<1>2. PICK v \in UserVAs : v = HIGHER + kernel_end
  BY Layout, Addresses
<1>3. /\ v >= HIGHER + kernel_end /\ v \div ENT \in UsedSlots(machine)
      /\ i \in Nat /\ STACK \in Nat /\ i = STACK /\ K_STACK_START \in Nat /\ v \in Nat /\ v < K_STACK_START
  <2>1. i \in Nat /\ i <= STACK
    BY <1>1 DEF BootInv, Types, Enough
  <2>2. STACK \in Nat /\ K_STACK_START \in Nat /\ v \in Nat /\ v < K_STACK_START
    BY <1>2, Layout
  <2>3. v \div ENT \in UsedSlots(machine)
    BY <1>2 DEF UsedSlots
  <2>. QED
    BY <2>1, <2>2, <2>3, <1>1, <1>2
<1>4. mm.pte[v] = NONE
  BY <1>1, <1>2 DEF BootInv, Paged, HeapFree, Unpaged
<1>5. PagesLeft' = 0 /\ 0 + 1 <= STACK + 1 - i /\ i' \in Nat
  BY <1>1, <1>3 DEF PagesLeft, BeforeVga
<1>6. /\ \E p \in 1 .. MAX_PG - 1 : \A w \in UserVAs : mm'.pte[w] = IF w = v THEN p ELSE mm.pte[w]
      /\ StackMapped' /\ HeapFree' => BootInv'
  BY <1>1, <1>2, <1>3, <1>4, <1>5, RuntimePage
<1>7. PICK p \in 1 .. MAX_PG - 1 : \A w \in UserVAs : mm'.pte[w] = IF w = v THEN p ELSE mm.pte[w]
  BY <1>6
<1>8. StackMapped'
  <2>1. ASSUME NEW k \in 0 .. STACK - 1 PROVE mm'.pte[K_STACK_START + k] \in 1 .. MAX_PG - 1
    <3>1. K_STACK_START + k \in UserVAs /\ K_STACK_START + k # v /\ ~(k >= i)
      <4>1. K_STACK_START + k \in UserVAs
        BY Addresses
      <4>. QED
        BY <4>1, <1>3
    <3>2. mm'.pte[K_STACK_START + k] = mm.pte[K_STACK_START + k]
      BY <3>1, <1>7
    <3>. QED
      BY <3>1, <3>2, <1>1 DEF BootInv, Paged, StackMapped, Unpaged, BeforeVga
  <2>. QED
    BY <2>1, <1>1 DEF StackMapped, BeforeVga
<1>9. HeapFree'
  BY <1>1 DEF HeapFree, BeforeVga
<1>. QED
  BY <1>6, <1>8, <1>9

(* Releasing a page that is identity mapped: it was its frame's only use.  *)
LEMMA ReleaseKeeps ==
  ASSUME BootInv, pc \in {"low", "release"}, pc' = pc, machine' = machine, j' = j,
         sp' = sp, vga' = vga, mb_info' = mb_info, toc' = toc, i' = i + 1,
         i \in IF pc = "low" THEN 0 .. IOAPIC_V ELSE Hhk,
         mm' = vmm_unmap_page(mm, i)
  PROVE  BootInv'
<1>1. /\ machine \in Machines /\ mm \in MM /\ mb_info = machine.mmap /\ Paged /\ Unused(mm)
      /\ 0 \notin mm.free /\ IsFiniteSet(mm.free) /\ \A f \in mm.free : Held(f)
      /\ Cardinality(mm.free) >= Cardinality(Missing(mm)) /\ i \in Nat /\ j \in Nat
      /\ Cardinality(mm.free) \in Nat /\ Cardinality(Missing(mm)) \in Nat
  <2>1. PagesLeft = 0 /\ pc \notin Early
    BY DEF PagesLeft, BeforeVga, Early
  <2>. QED
    BY <2>1, Frames
<1>2. /\ NONE \notin Nat /\ kernel_start \in Nat /\ kernel_start <= HIGHER /\ HIGHER \in Nat
      /\ kernel_start <= VGA_V /\ VGA_V \in Nat /\ K_STACK_START \in Nat /\ HIGHER <= K_STACK_START
      /\ LOW \in Nat /\ STACK \in Nat /\ kernel_end \in Nat
      /\ APIC_V = 1 /\ IOAPIC_V = 2 /\ 2 < LOW /\ LOW <= kernel_start /\ Below = 0 .. kernel_start - 1
      /\ Hhk = LOW .. kernel_start - 1
  <2>1. /\ NONE \notin Nat /\ kernel_start \in Nat /\ kernel_start <= ENT /\ ENT \in Nat
        /\ ENT <= VGA_V /\ VGA_V < HIGHER /\ VGA_V \in Nat /\ HIGHER \in Nat /\ kernel_end \in Nat
        /\ K_STACK_START \in Nat /\ HIGHER + kernel_end < K_STACK_START /\ VGA > 2 /\ VGA < LOW
        /\ VGA \in Nat /\ LOW \in Nat /\ STACK \in Nat /\ kernel_start = LOW + HHK /\ HHK \in Nat
    BY Layout
  <2>. QED
    BY <2>1, Layout
<1>3. /\ i \in Below /\ i \in UserVAs /\ mm.pte[i] = i /\ (i = 0 \/ i \in RamLow)
      /\ \A w \in Below : w \in UserVAs /\ w # NONE
      /\ VGA_V \in UserVAs
      /\ \A q \in kernel_start .. kernel_end - 1 : HIGHER + q \in UserVAs /\ HIGHER + q # i
      /\ \A k \in 0 .. STACK - 1 : K_STACK_START + k \in UserVAs /\ K_STACK_START + k # i
      /\ \A w \in 0 .. HIGHER - 1 : w \in UserVAs
  <2>1. i \in Below /\ (i = 0 \/ i \in RamLow) /\ Kept(i)
    BY <1>1, <1>2 DEF RamLow, Kept
  <2>2. /\ Below \subseteq UserVAs /\ VGA_V \in UserVAs
        /\ \A q \in 0 .. kernel_end : HIGHER + q \in UserVAs
        /\ \A k \in 0 .. STACK - 1 : K_STACK_START + k \in UserVAs
        /\ \A w \in 0 .. HIGHER - 1 : w \in UserVAs
    BY Addresses
  <2>3. mm.pte[i] = i
    BY <2>1, <1>1 DEF Paged, Identity
  <2>4. \A w \in Below : w \in UserVAs /\ w # NONE
    BY <2>2, <1>2
  <2>5. \A q \in kernel_start .. kernel_end - 1 : HIGHER + q \in UserVAs /\ HIGHER + q # i
    BY <2>1, <2>2, <1>2
  <2>6. \A k \in 0 .. STACK - 1 : K_STACK_START + k \in UserVAs /\ K_STACK_START + k # i
    <3>1. i < K_STACK_START /\ i \in Nat /\ K_STACK_START \in Nat /\ STACK \in Nat
      BY <2>1, <1>2
    <3>2. \A k \in 0 .. STACK - 1 : K_STACK_START + k # i
      BY <3>1
    <3>. QED
      BY <3>2, <2>2
  <2>. QED
    BY <2>1, <2>2, <2>3, <2>4, <2>5, <2>6
<1>4. /\ mm' \in MM /\ Rooted(mm') /\ mm'.dir = mm.dir /\ Missing(mm') = Missing(mm)
      /\ mm'.free = IF i = 0 \/ i >= MAX_PG THEN mm.free ELSE mm.free \cup {i}
      /\ \A w \in UserVAs : mm'.pte[w] = IF w = i THEN NONE ELSE mm.pte[w]
      /\ Cardinality(mm'.free) >= Cardinality(mm.free)
  <2>1. PICK m \in MM, v \in UserVAs :
          m = mm /\ v = i /\ Rooted(m) /\ IsFiniteSet(m.free) /\ m.pte[v] = v
    BY <1>1, <1>3 DEF Paged
  <2>2. mm' = vmm_unmap_page(m, v)
    BY <2>1
  <2>. QED
    BY <2>1, <2>2, UnmapPage
<1>5. Sole(mm)'
  <2>1. ASSUME NEW q \in RamLow, mm'.pte[q] = q
        PROVE  (\A w \in UserVAs : mm'.pte[w] = q => w = q) /\ (\A s \in Slots : mm'.dir[s] # q)
    <3>1. q \in UserVAs /\ q # NONE
      BY <1>1, <1>3, RamHeld
    <3>2. q # i /\ mm.pte[q] = q
      BY <2>1, <3>1, <1>4
    <3>3. (\A w \in UserVAs : mm.pte[w] = q => w = q) /\ (\A s \in Slots : mm.dir[s] # q)
      BY <3>2, <1>1 DEF Paged, Sole
    <3>. QED
      BY <3>1, <3>3, <1>4
  <2>. QED
    BY <2>1 DEF Sole
<1>6. \A w \in Below : Kept(w)' => Kept(w) /\ w # i
  BY <1>1, <1>2 DEF Kept, BeforeLow, BeforeVga
<1>7. Identity'
  BY <1>1, <1>3, <1>4, <1>6 DEF Paged, Identity
<1>8. KernelMapped'
  BY <1>1, <1>3, <1>4 DEF Paged, KernelMapped
<1>9. VgaMapped'
  <2>1. VGA_V # i
    BY <1>1, <1>2
  <2>2. mm'.pte[VGA_V] = mm.pte[VGA_V]
    BY <2>1, <1>3, <1>4
  <2>. QED
    BY <2>2, <1>1 DEF Paged, VgaMapped
<1>10. StackMapped'
  <2>1. \A k \in 0 .. STACK - 1 : mm'.pte[K_STACK_START + k] = mm.pte[K_STACK_START + k]
    BY <1>3, <1>4
  <2>. QED
    BY <2>1, <1>1 DEF Paged, StackMapped, BeforeVga
<1>11. HeapFree'
  BY DEF HeapFree, BeforeVga
<1>12. LowerIdentity'
  BY <1>1, <1>3, <1>4 DEF Paged, LowerIdentity
<1>13. DevicesMapped'
  <2>1. 1 \in UserVAs /\ 2 \in UserVAs
    BY <1>2, <1>3
  <2>2. CASE pc = "low"
    <3>1. ASSUME NEW v \in {APIC_V, IOAPIC_V}, v < i + 1 PROVE mm'.pte[v] = NONE
      <4>1. v = i \/ v < i
        BY <3>1, <1>1, <1>2
      <4>2. v < i => mm.pte[v] = NONE
        BY <2>2, <1>1 DEF Paged, DevicesMapped
      <4>3. v \in UserVAs
        BY <2>1, <1>2
      <4>. QED
        BY <4>1, <4>2, <4>3, <1>4
    <3>. QED
      BY <2>2, <3>1 DEF DevicesMapped, AcpiWalk, WithDevices
  <2>3. CASE pc = "release"
    <3>1. i # 1 /\ i # 2
      BY <2>3, <1>1, <1>2 DEF BootInv, Types
    <3>2. mm'.pte[APIC_V] = mm.pte[APIC_V] /\ mm'.pte[IOAPIC_V] = mm.pte[IOAPIC_V]
      BY <3>1, <2>1, <1>2, <1>4
    <3>. QED
      BY <2>3, <3>2, <1>1 DEF Paged, DevicesMapped, AcpiWalk, WithDevices
  <2>. QED
    BY <2>2, <2>3
<1>14. LockedMapped'
  <2>1. ASSUME NEW k \in DOMAIN machine.mmap, Locked(machine.mmap[k]),
               NEW p \in LockPages(machine.mmap[k]), p \div ENT # SELF, pc = "release"
        PROVE  mm'.pte[p] # NONE
    <3>1. p \in UserVAs /\ p \in Nat /\ Meets(machine.mmap[k], p)
      BY <2>1, <1>1, LockedPages DEF Locked
    <3>2. i \in RamLow
      BY <2>1 DEF RamLow
    <3>3. p # i
      BY <2>1, <3>1, <3>2, <1>1, RamHeld, HeldNotMet DEF Locked
    <3>4. mm.pte[p] # NONE
      BY <2>1, <1>1 DEF Paged, LockedMapped, WithDevices
    <3>. QED
      BY <3>1, <3>3, <3>4, <1>4
  <2>. QED
    BY <2>1 DEF LockedMapped, AcpiWalk, WithDevices
<1>15. Paged'
  <2>1. Rooted(mm)'
    BY <1>4 DEF Rooted
  <2>. QED
    BY <2>1, <1>5, <1>7, <1>8, <1>9, <1>10, <1>11, <1>12, <1>13, <1>14 DEF Paged
<1>16. Types'
  <2>1. pc' = "release" => i' >= LOW
    BY <1>1, <1>2 DEF BootInv, Types
  <2>. QED
    BY <2>1, <1>1, <1>4 DEF BootInv, Types, Unpaged, BeforeLow, BeforeVga
<1>17. Free'
  <2>1. mm'.free \subseteq mm.free \cup {i} /\ (i = 0 => mm'.free = mm.free)
    BY <1>4
  <2>2. \A f \in mm'.free : Held(f)
    <3>1. i # 0 => Held(i)
      BY <1>1, <1>3, RamHeld
    <3>. QED
      BY <3>1, <2>1, <1>1
  <2>3. 0 \notin mm'.free
    BY <2>1, <1>1
  <2>4. Unused(mm')
    <3>1. ASSUME NEW f \in mm.free
          PROVE  (\A w \in UserVAs : mm'.pte[w] # f) /\ (\A s \in Slots : mm'.dir[s] # f)
      <4>1. f # NONE
        BY <1>1, <1>2 DEF MM
      <4>2. (\A w \in UserVAs : mm.pte[w] # f) /\ (\A s \in Slots : mm.dir[s] # f)
        BY <1>1 DEF Unused
      <4>. QED
        BY <4>1, <4>2, <1>4
    <3>2. ASSUME i # 0
          PROVE  (\A w \in UserVAs : mm'.pte[w] # i) /\ (\A s \in Slots : mm'.dir[s] # i)
      <4>1. (\A w \in UserVAs : mm.pte[w] = i => w = i) /\ (\A s \in Slots : mm.dir[s] # i)
        BY <3>2, <1>1, <1>3 DEF Paged, Sole
      <4>. QED
        BY <4>1, <1>3, <1>4
    <3>. QED
      BY <3>1, <3>2, <2>1 DEF Unused
  <2>5. \A f \in mm'.free : Held(f)'
    BY <2>2 DEF Held
  <2>. QED
    BY <2>3, <2>4, <2>5 DEF Free, Early, Unpaged, Unused
<1>18. Enough'
  <2>1. PagesLeft' = 0 /\ Missing(mm)' = Missing(mm')
    BY DEF PagesLeft, BeforeVga, Missing
  <2>2. Cardinality(mm'.free) \in Nat
    <3>1. IsFiniteSet(mm'.free)
      BY <1>1, <1>4, FS_AddElement
    <3>. QED
      BY <3>1, FS_CardinalityType
  <2>3. Cardinality(mm'.free) >= 0 + Cardinality(Missing(mm'))
    BY <2>2, <1>1, <1>4
  <2>. QED
    BY <2>1, <2>3 DEF Enough
<1>19. BootTables'
  BY DEF BootTables, Unpaged
<1>. QED
  BY <1>15, <1>16, <1>17, <1>18, <1>19 DEF BootInv

(* Steps that leave the tables and the frames alone.                       *)
LEMMA BootStays ==
  ASSUME BootInv, pc \in {"switch", "low", "lock"} \cup AcpiWalk \cup WithDevices,
         pc' \in {"low", "lock"} \cup AcpiWalk \cup WithDevices,
         machine' = machine, mm' = mm, mb_info' = mb_info, vga' = vga, sp' = "kernel",
         i' \in Nat, j' \in Nat, pc' = "release" => i' >= LOW, pc' = "lock" => i' >= 1, Paged'
  PROVE  BootInv'
<1>1. /\ machine \in Machines /\ mm \in MM /\ mb_info = machine.mmap /\ Unused(mm)
      /\ 0 \notin mm.free /\ \A f \in mm.free : Held(f)
      /\ Cardinality(mm.free) >= Cardinality(Missing(mm))
      /\ Cardinality(mm.free) \in Nat /\ Cardinality(Missing(mm)) \in Nat /\ vga = VGA_V
  <2>1. pc \notin Early /\ PagesLeft = 0 /\ vga = VGA_V
    BY DEF Early, PagesLeft, BeforeVga, BootInv, Types, Unpaged, AcpiWalk, WithDevices
  <2>. QED
    BY <2>1, Frames
<1>2. Types'
  BY <1>1 DEF Types, Unpaged, BeforeLow, BeforeVga, AcpiWalk, WithDevices
<1>3. Free'
  BY <1>1 DEF Free, Held, Early, Unpaged, Unused, AcpiWalk, WithDevices
<1>4. Enough'
  <2>1. PagesLeft' = 0 /\ Missing(mm)' = Missing(mm)
    BY DEF PagesLeft, BeforeVga, Missing, AcpiWalk, WithDevices
  <2>2. Cardinality(mm.free) >= 0 + Cardinality(Missing(mm))
    BY <1>1
  <2>. QED
    BY <2>1, <2>2 DEF Enough, AcpiWalk, WithDevices
<1>5. BootTables'
  BY DEF BootTables, Unpaged, AcpiWalk, WithDevices
<1>. QED
  BY <1>2, <1>3, <1>4, <1>5 DEF BootInv

(* Low memory is released, page by page (k_init.c:104-109).                *)
LEMMA BootLow ==
  ASSUME BootInv, SwitchStack \/ ReleaseLow \/ ReleaseLowEnd
  PROVE  BootInv'
<1>1. /\ machine \in Machines /\ mb_info = machine.mmap /\ i \in Nat /\ j \in Nat
      /\ 0 \in Nat /\ APIC_V = 1 /\ IOAPIC_V = 2 /\ LOW \in Nat /\ 2 < LOW
      /\ Hhk = LOW .. kernel_start - 1 /\ kernel_start \in Nat /\ STACK \in Nat
  <2>1. machine \in Machines /\ mb_info = machine.mmap /\ i \in Nat /\ j \in Nat
    BY DEF BootInv, Types, SwitchStack, ReleaseLow, ReleaseLowEnd
  <2>. QED
    BY <2>1, Layout
<1>2. CASE SwitchStack
  <2>1. /\ pc = "switch" /\ pc' = "low" /\ i' = 0 /\ j' = j /\ sp' = "kernel" /\ machine' = machine
        /\ mm' = mm /\ mb_info' = mb_info /\ vga' = vga /\ toc' = toc
    BY <1>2 DEF SwitchStack, acpi_rest
  <2>2. Paged'
    <3>1. Paged /\ LockedMapped'
      BY <2>1 DEF BootInv, Unpaged, LockedMapped, AcpiWalk, WithDevices
    <3>2. \A v \in Below : Kept(v)' => Kept(v)
      BY <2>1 DEF Kept, BeforeLow, BeforeVga
    <3>3. \A v \in {APIC_V, IOAPIC_V} : ~(v < i')
      BY <2>1, <1>1
    <3>. QED
      BY <2>1, <3>1, <3>2, <3>3, PagedStays DEF BeforeVga, WithDevices, AcpiWalk
  <2>. QED
    BY <2>1, <2>2, <1>1, BootStays
<1>3. CASE ReleaseLow
  <2>1. /\ pc = "low" /\ pc' = pc /\ i' = i + 1 /\ j' = j /\ sp' = sp /\ machine' = machine
        /\ mm' = vmm_unmap_page(mm, i) /\ mb_info' = mb_info /\ vga' = vga /\ toc' = toc
        /\ i < 3
    BY <1>3 DEF ReleaseLow, acpi_rest, Released
  <2>2. i \in 0 .. IOAPIC_V
    BY <2>1, <1>1
  <2>. QED
    BY <2>1, <2>2, ReleaseKeeps
<1>4. CASE ReleaseLowEnd
  <2>1. /\ pc = "low" /\ pc' = "lock" /\ i' = 1 /\ j' = 0 /\ sp' = sp /\ machine' = machine
        /\ mm' = mm /\ mb_info' = mb_info /\ vga' = vga /\ toc' = toc /\ i >= 3
    BY <1>4 DEF ReleaseLowEnd, acpi_rest, Released
  <2>2. sp' = "kernel" /\ Paged
    BY <2>1 DEF BootInv, Types, Unpaged, BeforeLow, BeforeVga
  <2>3. LockedMapped'
    <3>1. ASSUME NEW k \in DOMAIN machine.mmap, Locked(machine.mmap[k]),
                 NEW p \in LockPages(machine.mmap[k])
          PROVE  ~(k < 1 \/ (k = 1 /\ p < PageOf(machine.mmap[k].addr) + 0))
      <4>1. k \in Nat /\ k >= 1
        BY <1>1, Regions
      <4>2. PageOf(machine.mmap[k].addr) \in Nat
        BY <1>1, Regions, Layout, Division DEF PageOf
      <4>3. p >= PageOf(machine.mmap[k].addr) /\ p \in Nat
        <5>1. p \in Nat
          BY <3>1, <1>1, LockedPages DEF Locked
        <5>. QED
          BY <5>1, <4>2 DEF LockPages
      <4>. QED
        BY <4>1, <4>2, <4>3
    <3>. QED
      BY <3>1, <2>1 DEF LockedMapped, AcpiWalk, WithDevices
  <2>4. \A v \in Below : Kept(v)' => Kept(v)
    BY <2>1 DEF Kept, BeforeLow, BeforeVga
  <2>5. \A v \in {APIC_V, IOAPIC_V} : v < i
    BY <2>1, <1>1
  <2>6. Paged'
    BY <2>1, <2>2, <2>3, <2>4, <2>5, PagedStays DEF BeforeVga, WithDevices, AcpiWalk
  <2>. QED
    BY <2>1, <2>2, <2>6, <1>1, BootStays
<1>. QED
  BY <1>2, <1>3, <1>4

(* From the firmware's tables on only devices and hhk_init's pages change. *)
LEMMA BootWalk ==
  ASSUME BootInv, \/ LockEnd
                  \/ AcpiNext /\ UNCHANGED boot_vars
                  \/ timer_init
                  \/ ReleaseEnd
  PROVE  BootInv'
<1>1. /\ \/ pc = "lock" /\ pc' = "acpi" /\ i > Len(mb_info)
         \/ pc \in AcpiWalk \ {"devices"} /\ pc' \in AcpiWalk
         \/ pc \in {"ioapic", "ioapic_high", "timer", "release"} /\ pc' \in WithDevices \ {"ioapic"}
      /\ machine' = machine /\ mm' = mm /\ mb_info' = mb_info /\ vga' = vga /\ sp' = sp
      /\ j' = j /\ (pc' = "release" => i' = LOW) /\ (pc' = "main" => pc = "release")
      /\ (pc' \in WithDevices => toc' = toc) /\ i' \in {i, i + 1, 0, LOW}
  <2>1. CASE LockEnd \/ timer_init \/ ReleaseEnd
    BY <2>1 DEF LockEnd, timer_init, ReleaseEnd, acpi_rest, boot_vars, AcpiWalk, WithDevices
  <2>2. CASE AcpiNext /\ UNCHANGED boot_vars
    BY <2>2 DEF AcpiNext, acpi_init, SkipTable, madt_parse, ParseEntry, ParseEnd, AcpiDone,
                RedirectLow, RedirectHigh, boot_vars, AcpiWalk, WithDevices
  <2>. QED
    BY <2>1, <2>2
<1>2. /\ machine \in Machines /\ mb_info = machine.mmap /\ i \in Nat /\ j \in Nat /\ LOW \in Nat
      /\ sp = "kernel" /\ Paged
  BY <1>1, Layout DEF BootInv, Types, Unpaged, BeforeLow, BeforeVga, AcpiWalk, WithDevices
<1>3. LockedMapped'
  <2>1. ASSUME NEW k \in DOMAIN machine.mmap, Locked(machine.mmap[k]),
               NEW p \in LockPages(machine.mmap[k]), p \div ENT # SELF
        PROVE  mm.pte[p] # NONE
    <3>1. k \in Nat /\ k <= Len(machine.mmap) /\ Len(machine.mmap) \in Nat
      BY <1>2, Regions
    <3>2. pc = "lock" => k < i
      BY <3>1, <1>1, <1>2 DEF AcpiWalk, WithDevices
    <3>. QED
      BY <2>1, <3>2, <1>1, <1>2 DEF Paged, LockedMapped, AcpiWalk, WithDevices
  <2>. QED
    BY <2>1, <1>1 DEF LockedMapped
<1>4. \A v \in Below : Kept(v)' => Kept(v)
  <2>1. ASSUME NEW v \in Below, Kept(v)' PROVE Kept(v)
    <3>1. \/ v > IOAPIC_V /\ v < LOW
          \/ v \in Hhk /\ pc' # "main" /\ (pc' = "release" => i' <= v)
      BY <2>1, <1>1 DEF Kept, AcpiWalk, WithDevices, BeforeLow, BeforeVga
    <3>2. pc = "release" => pc' = "main"
      BY <1>1, <1>2 DEF AcpiNext, acpi_init, SkipTable, madt_parse, ParseEntry, ParseEnd, AcpiDone,
                RedirectLow, RedirectHigh, LockEnd, timer_init, ReleaseEnd
    <3>. QED
      BY <3>1, <3>2, <1>1 DEF Kept, AcpiWalk, WithDevices
  <2>. QED
    BY <2>1
<1>5. Paged'
  BY <1>1, <1>2, <1>3, <1>4, PagedStays DEF BeforeVga, WithDevices, AcpiWalk
<1>6. i' \in Nat /\ (pc' = "release" => i' >= LOW)
  BY <1>1, <1>2
<1>. QED
  BY <1>1, <1>2, <1>5, <1>6, BootStays DEF AcpiWalk, WithDevices

(* The regions that are not available are mapped (k_init.c:134-161).       *)
LEMMA BootNextRegion ==
  ASSUME BootInv, NextRegion
  PROVE  BootInv'
<1>1. /\ pc = "lock" /\ pc' = "lock" /\ i' = i + 1 /\ j' = 0 /\ machine' = machine /\ mm' = mm
      /\ mb_info' = mb_info /\ vga' = vga /\ sp' = sp /\ toc' = toc
      /\ Locked(mb_info[i]) => j >= pg_num(mb_info[i])
  BY DEF NextRegion, acpi_rest
<1>2. machine \in Machines /\ mb_info = machine.mmap /\ i \in Nat /\ j \in Nat /\ sp = "kernel" /\ Paged
  BY <1>1 DEF BootInv, Types, Unpaged, BeforeLow, BeforeVga
<1>3. LockedMapped'
  <2>1. ASSUME NEW k \in DOMAIN machine.mmap, Locked(machine.mmap[k]),
               NEW p \in LockPages(machine.mmap[k]), p \div ENT # SELF,
               k < i + 1 \/ (k = i + 1 /\ p < PageOf(machine.mmap[k].addr) + 0)
        PROVE  mm.pte[p] # NONE
    <3>1. k \in Nat
      BY <1>2, Regions
    <3>2. PICK a \in Nat, g \in Nat : a = PageOf(machine.mmap[k].addr) /\ g = pg_num(machine.mmap[k])
      <4>1. PageOf(machine.mmap[k].addr) \in Nat
        BY <1>2, Regions, Layout, Division DEF PageOf
      <4>2. pg_num(machine.mmap[k]) \in Nat
        BY <1>2, Regions, Layout, Ceiling DEF pg_num
      <4>. QED
        BY <4>1, <4>2
    <3>3. p \in Nat /\ p >= a /\ p < a + g
      BY <3>2 DEF LockPages
    <3>4. k < i \/ (k = i /\ p < a + j)
      BY <2>1, <3>1, <3>2, <3>3, <1>1, <1>2
    <3>. QED
      BY <2>1, <3>2, <3>4, <1>1, <1>2 DEF Paged, LockedMapped
  <2>. QED
    BY <2>1, <1>1 DEF LockedMapped, AcpiWalk, WithDevices
<1>4. \A v \in Below : Kept(v)' => Kept(v)
  BY <1>1 DEF Kept, BeforeLow, BeforeVga
<1>5. Paged'
  BY <1>1, <1>2, <1>3, <1>4, PagedStays DEF BeforeVga, WithDevices, AcpiWalk
<1>. QED
  BY <1>1, <1>2, <1>5, BootStays

(* A page that is locked gets itself, and nobody else could be given it.   *)
LEMMA BootLockPage ==
  ASSUME BootInv, LockPage
  PROVE  BootInv'
<1>1. /\ pc = "lock" /\ pc' = "lock" /\ i' = i /\ j' = j + 1 /\ machine' = machine
      /\ mb_info' = mb_info /\ vga' = vga /\ sp' = sp /\ toc' = toc
      /\ i <= Len(mb_info) /\ Locked(mb_info[i]) /\ j < pg_num(mb_info[i])
      /\ mm' \in vmm_set_mapping(mm, PageOf(mb_info[i].addr) + j, PageOf(mb_info[i].addr) + j)
  BY DEF LockPage, acpi_rest
<1>2. /\ machine \in Machines /\ mm \in MM /\ mb_info = machine.mmap /\ Paged /\ Unused(mm)
      /\ 0 \notin mm.free /\ IsFiniteSet(mm.free) /\ \A f \in mm.free : Held(f)
      /\ Cardinality(mm.free) >= Cardinality(Missing(mm))
      /\ Cardinality(mm.free) \in Nat /\ Cardinality(Missing(mm)) \in Nat
      /\ i \in Nat /\ i >= 1 /\ j \in Nat /\ sp = "kernel" /\ vga = VGA_V
  <2>1. pc \notin Early /\ PagesLeft = 0 /\ vga = VGA_V /\ sp = "kernel"
    BY <1>1 DEF Early, PagesLeft, BeforeVga, BootInv, Types, Unpaged, BeforeLow
  <2>2. i >= 1
    BY <1>1 DEF BootInv, Types
  <2>. QED
    BY <2>1, <2>2, Frames
<1>3. i \in DOMAIN machine.mmap /\ ~Available(machine.mmap[i])
  BY <1>1, <1>2, Regions DEF Locked
<1>4. PICK a \in Nat, g \in Nat : a = PageOf(machine.mmap[i].addr) /\ g = pg_num(machine.mmap[i])
  <2>1. PageOf(machine.mmap[i].addr) \in Nat
    BY <1>2, <1>3, Regions, Layout, Division DEF PageOf
  <2>2. pg_num(machine.mmap[i]) \in Nat
    BY <1>2, <1>3, Regions, Layout, Ceiling DEF pg_num
  <2>. QED
    BY <2>1, <2>2
<1>5. PICK p \in Nat : p = a + j
  BY <1>2
<1>6. /\ p \in LockPages(machine.mmap[i]) /\ mm' \in vmm_set_mapping(mm, p, p)
      /\ p > IOAPIC_V /\ Meets(machine.mmap[i], p)
  <2>1. p \in a .. a + g - 1
    BY <1>1, <1>2, <1>4, <1>5
  <2>2. p \in LockPages(machine.mmap[i])
    BY <2>1, <1>4 DEF LockPages
  <2>. QED
    BY <2>2, <1>1, <1>2, <1>3, <1>4, <1>5, LockedPages
<1>7. p \notin mm.free /\ p \in Nat \ RamLow
  BY <1>2, <1>3, <1>6, HeldNotMet, RamHeld
<1>8. CASE p \div ENT = SELF
  <2>1. mm' = mm
    BY <1>6, <1>8 DEF vmm_set_mapping
  <2>2. LockedMapped'
    <3>1. ASSUME NEW k \in DOMAIN machine.mmap, Locked(machine.mmap[k]),
                 NEW q \in LockPages(machine.mmap[k]), q \div ENT # SELF,
                 k < i \/ (k = i /\ q < PageOf(machine.mmap[k].addr) + (j + 1))
          PROVE  mm.pte[q] # NONE
      <4>1. q \in Nat /\ q # p
        BY <3>1, <1>2, <1>8, LockedPages DEF Locked
      <4>2. k < i \/ (k = i /\ q < PageOf(machine.mmap[k].addr) + j)
        BY <3>1, <4>1, <1>2, <1>4, <1>5
      <4>. QED
        BY <3>1, <4>2, <1>1, <1>2 DEF Paged, LockedMapped
    <3>. QED
      BY <3>1, <2>1, <1>1 DEF LockedMapped, AcpiWalk, WithDevices
  <2>3. \A v \in Below : Kept(v)' => Kept(v)
    BY <1>1 DEF Kept, BeforeLow, BeforeVga
  <2>4. Paged'
    BY <2>1, <2>2, <2>3, <1>1, <1>2, PagedStays DEF BeforeVga, WithDevices, AcpiWalk
  <2>. QED
    BY <2>1, <2>4, <1>1, <1>2, BootStays
<1>9. CASE p \div ENT # SELF
  <2>1. p \in UserVAs /\ p \div ENT \in UsedSlots(machine)
    BY <1>2, <1>3, <1>6, <1>9, LockedSlot
  <2>2. Mapped(mm, mm', p, p)
    BY <2>1, <1>2, <1>6, SetMapping DEF Paged
  <2>3. /\ mm' \in MM /\ Rooted(mm') /\ mm'.free \subseteq mm.free /\ Unused(mm')
        /\ \A w \in UserVAs : mm'.pte[w] = IF w = p /\ mm.pte[w] = NONE THEN p ELSE mm.pte[w]
        /\ \A s \in Slots : mm'.dir[s] = mm.dir[s] \/ (mm.dir[s] = NONE /\ mm'.dir[s] \in mm.free)
        /\ Cardinality(mm'.free) >= 0 + Cardinality(Missing(mm'))
    <3>1. Cardinality(mm.free) >= 0 + Cardinality(Missing(mm)) /\ 0 \in Nat
      BY <1>2
    <3>. QED
      BY <3>1, <2>2, <1>2, <1>7 DEF Mapped
  <2>4. /\ Rooted(mm)' /\ Sole(mm)' /\ Identity' /\ KernelMapped'
        /\ \A w \in UserVAs : mm.pte[w] # NONE => mm'.pte[w] = mm.pte[w]
    <3>1. \A w \in Below : Kept(w)' => Kept(w)
      BY <1>1 DEF Kept, BeforeLow, BeforeVga
    <3>. QED
      BY <3>1, <2>1, <2>3, <1>1, <1>2, <1>7, MappingKeeps
  <2>5. /\ NONE \notin Nat /\ MAX_PG \in Nat /\ VGA \in Nat /\ APIC_V = 1 /\ IOAPIC_V = 2
        /\ VGA_V \in UserVAs /\ \A k \in 0 .. STACK - 1 : K_STACK_START + k \in UserVAs
        /\ \A w \in 0 .. HIGHER - 1 : w \in UserVAs
    BY Layout, Addresses
  <2>6. VgaMapped'
    <3>1. mm.pte[VGA_V] = VGA
      BY <1>1, <1>2 DEF Paged, VgaMapped, BeforeVga
    <3>. QED
      BY <3>1, <2>4, <2>5, <1>1 DEF VgaMapped, BeforeVga
  <2>7. StackMapped'
    <3>1. \A k \in 0 .. STACK - 1 : mm.pte[K_STACK_START + k] \in 1 .. MAX_PG - 1
      BY <1>1, <1>2 DEF Paged, StackMapped, BeforeVga
    <3>2. \A x \in 1 .. MAX_PG - 1 : x # NONE
      BY <2>5
    <3>. QED
      BY <3>1, <3>2, <2>4, <2>5, <1>1 DEF StackMapped, BeforeVga
  <2>8. HeapFree'
    BY <1>1 DEF HeapFree, BeforeVga
  <2>9. LowerIdentity'
    <3>1. ASSUME NEW w \in 0 .. HIGHER - 1, w # VGA_V PROVE mm'.pte[w] \in {NONE, w}
      <4>1. mm.pte[w] \in {NONE, w}
        BY <3>1, <1>1, <1>2 DEF Paged, LowerIdentity, WithDevices
      <4>. QED
        BY <4>1, <2>3, <2>5
    <3>. QED
      BY <3>1 DEF LowerIdentity
  <2>10. DevicesMapped'
    <3>1. ASSUME NEW w \in {APIC_V, IOAPIC_V} PROVE mm'.pte[w] = NONE
      <4>1. mm.pte[w] = NONE
        BY <1>1, <1>2 DEF Paged, DevicesMapped
      <4>2. w # p
        BY <2>5, <1>6
      <4>3. w \in UserVAs
        <5>1. APIC_V \in RamLow /\ IOAPIC_V \in RamLow
          BY DEF RamLow
        <5>. QED
          BY <5>1, <1>2, RamHeld, Addresses
      <4>. QED
        BY <4>1, <4>2, <4>3, <2>3
    <3>. QED
      BY <3>1, <1>1 DEF DevicesMapped, WithDevices
  <2>11. LockedMapped'
    <3>1. ASSUME NEW k \in DOMAIN machine.mmap, Locked(machine.mmap[k]),
                 NEW q \in LockPages(machine.mmap[k]), q \div ENT # SELF,
                 k < i \/ (k = i /\ q < PageOf(machine.mmap[k].addr) + (j + 1))
          PROVE  mm'.pte[q] # NONE
      <4>1. q \in Nat /\ q \in UserVAs
        BY <3>1, <1>2, LockedPages DEF Locked
      <4>2. CASE q = p
        BY <4>1, <4>2, <2>3, <2>5
      <4>3. CASE q # p
        <5>1. k < i \/ (k = i /\ q < PageOf(machine.mmap[k].addr) + j)
          BY <3>1, <4>1, <4>3, <1>2, <1>4, <1>5
        <5>2. mm.pte[q] # NONE
          BY <3>1, <5>1, <1>1, <1>2 DEF Paged, LockedMapped
        <5>. QED
          BY <5>2, <4>1, <2>4
      <4>. QED
        BY <4>2, <4>3
    <3>. QED
      BY <3>1, <1>1 DEF LockedMapped, AcpiWalk, WithDevices
  <2>12. Paged'
    BY <2>4, <2>6, <2>7, <2>8, <2>9, <2>10, <2>11 DEF Paged
  <2>13. Types'
    BY <2>3, <1>1, <1>2 DEF Types, Unpaged, BeforeLow, BeforeVga
  <2>14. Free'
    BY <2>3, <1>1, <1>2 DEF Free, Held, Early, Unpaged, Unused
  <2>15. Enough'
    <3>1. PagesLeft' = 0 /\ Missing(mm)' = Missing(mm')
      BY <1>1 DEF PagesLeft, BeforeVga, Missing
    <3>. QED
      BY <3>1, <2>3, <1>1 DEF Enough
  <2>16. BootTables'
    BY <1>1 DEF BootTables, Unpaged
  <2>. QED
    BY <2>12, <2>13, <2>14, <2>15, <2>16 DEF BootInv
<1>. QED
  BY <1>8, <1>9

(* The rest of hhk_init is released page by page.                          *)
LEMMA BootReleaseHhk ==
  ASSUME BootInv, ReleaseHhk
  PROVE  BootInv'
<1>1. pc = "release" /\ pc' = pc /\ machine' = machine /\ j' = j /\ sp' = sp /\ vga' = vga
  BY DEF ReleaseHhk, acpi_rest
<1>2. mb_info' = mb_info /\ toc' = toc /\ i' = i + 1 /\ i < LOW + HHK /\ mm' = vmm_unmap_page(mm, i)
  BY DEF ReleaseHhk, acpi_rest
<1>3. i \in Hhk
  <2>1. i \in Nat /\ i >= LOW
    BY <1>1 DEF BootInv, Types
  <2>. QED
    BY <2>1, <1>2, Layout
<1>4. i \in IF pc = "low" THEN 0 .. IOAPIC_V ELSE Hhk
  BY <1>1, <1>3
<1>. QED
  BY <1>1, <1>2, <1>4, ReleaseKeeps

(* The devices take the pages that were released, which nothing is in the  *)
(* way of, and leave the rest as it is (k_init.c:115-118).                 *)
LEMMA BootDevices ==
  ASSUME BootInv, Walking, MapDevices
  PROVE  BootInv'
<1>1. /\ pc = "devices" /\ pc' = "ioapic" /\ i' = i /\ j' = j /\ machine' = machine
      /\ mb_info' = mb_info /\ vga' = vga /\ sp' = sp /\ toc' = toc
  BY DEF MapDevices, acpi_rest
<1>2. /\ machine \in Machines /\ mm \in MM /\ mb_info = machine.mmap /\ Paged /\ Unused(mm)
      /\ \A f \in mm.free : Held(f)
      /\ i \in Nat /\ j \in Nat /\ sp = "kernel" /\ vga = VGA_V
  <2>1. pc \notin Early /\ vga = VGA_V /\ sp = "kernel"
    BY <1>1 DEF Early, BeforeVga, BootInv, Types, Unpaged, BeforeLow
  <2>. QED
    BY <2>1, Frames
<1>3. PICK b : b = ioapic_addr
  OBVIOUS
<1>4. b \in Nat /\ ~Held(b) /\ APIC_P \in Nat /\ ~Held(APIC_P)
  <2>1. Complete
    BY <1>1 DEF Walking
  <2>2. toc.ioapic \in Ics(mem) /\ toc.ioapic.type = "IOAPIC"
    BY <2>1, <1>2, WalkFound
  <2>3. PICK e : e = toc.ioapic
    OBVIOUS
  <2>4. e \in Ics(machine.mem) /\ e.type = "IOAPIC" /\ b = PageOf(e.ioapic_addr)
    BY <2>2, <2>3, <1>3 DEF mem, ioapic_addr
  <2>5. /\ PageOf(e.ioapic_addr) \in Nat
        /\ \A k \in DOMAIN machine.mmap : Available(machine.mmap[k]) =>
             ~Holds(machine.mmap[k], APIC_P) /\ ~Holds(machine.mmap[k], PageOf(e.ioapic_addr))
    BY <2>4, <1>2, FirmwareAssumption
  <2>. QED
    BY <2>4, <2>5, Layout DEF Held
<1>5. [mm EXCEPT !.free = @ \ {APIC_P, b}] = mm
  <2>1. mm.free \ {APIC_P, b} = mm.free
    BY <1>2, <1>4
  <2>. QED
    BY <2>1, <1>2 DEF MM
<1>6. PICK m \in vmm_set_mapping(mm, APIC_V, APIC_P) : mm' \in vmm_set_mapping(m, IOAPIC_V, b)
  BY <1>3, <1>5 DEF MapDevices
<1>7. /\ APIC_V \in UserVAs /\ IOAPIC_V \in UserVAs /\ APIC_V \div ENT = 0 /\ IOAPIC_V \div ENT = 0
      /\ APIC_V \in RamLow /\ IOAPIC_V \in RamLow /\ APIC_V # IOAPIC_V /\ SELF # 0
  <2>1. APIC_V \in RamLow /\ IOAPIC_V \in RamLow
    BY DEF RamLow
  <2>2. APIC_V \in UserVAs /\ IOAPIC_V \in UserVAs
    BY <2>1, <1>2, RamHeld, Addresses
  <2>3. ENT \in Nat /\ ENT > 5 /\ SELF = ENT - 1 /\ APIC_V = 1 /\ IOAPIC_V = 2
    BY Layout
  <2>4. APIC_V \div ENT = 0 /\ IOAPIC_V \div ENT = 0
    <3>1. /\ APIC_V \div ENT < 1 <=> APIC_V < ENT * 1
          /\ IOAPIC_V \div ENT < 1 <=> IOAPIC_V < ENT * 1
      BY <2>3, QuotientBelow
    <3>2. APIC_V \div ENT \in Nat /\ IOAPIC_V \div ENT \in Nat
      BY <2>3, Division
    <3>. QED
      BY <3>1, <3>2, <2>3
  <2>. QED
    BY <2>1, <2>2, <2>3, <2>4
<1>8. mm.dir[0] # NONE /\ mm.pte[APIC_V] = NONE /\ mm.pte[IOAPIC_V] = NONE
  <2>1. 0 \in BootSlots
    BY DEF BootSlots
  <2>. QED
    BY <2>1, <1>1, <1>2 DEF Paged, Rooted, DevicesMapped, AcpiWalk
<1>9. m = [mm EXCEPT !.pte[APIC_V] = APIC_P]
  BY <1>6, <1>7, <1>8 DEF vmm_set_mapping, __vmm_map_internal
<1>10. m.dir = mm.dir /\ m.free = mm.free /\ m.pte[IOAPIC_V] = NONE
  BY <1>2, <1>7, <1>8, <1>9 DEF MM
<1>11. mm' = [m EXCEPT !.pte[IOAPIC_V] = b]
  BY <1>6, <1>7, <1>8, <1>10 DEF vmm_set_mapping, __vmm_map_internal
<1>12. /\ mm' \in MM /\ mm'.dir = mm.dir /\ mm'.free = mm.free
       /\ mm'.pte[APIC_V] = APIC_P /\ mm'.pte[IOAPIC_V] = b
       /\ \A w \in UserVAs \ {APIC_V, IOAPIC_V} : mm'.pte[w] = mm.pte[w]
  BY <1>2, <1>4, <1>7, <1>9, <1>11 DEF MM
<1>13. APIC_P \notin RamLow /\ b \notin RamLow /\ NONE \notin Nat
  BY <1>2, <1>4, RamHeld, Layout
<1>14. /\ VGA_V \in UserVAs \ {APIC_V, IOAPIC_V}
       /\ \A k \in 0 .. STACK - 1 : K_STACK_START + k \in UserVAs \ {APIC_V, IOAPIC_V}
       /\ \A p \in kernel_start .. kernel_end - 1 : HIGHER + p \in UserVAs \ {APIC_V, IOAPIC_V}
       /\ \A v \in Hhk : v \notin {APIC_V, IOAPIC_V}
  <2>1. /\ VGA_V \in UserVAs
        /\ \A k \in 0 .. STACK - 1 : K_STACK_START + k \in UserVAs
        /\ \A p \in 0 .. kernel_end : HIGHER + p \in UserVAs
    BY Addresses
  <2>2. /\ VGA_V > 2 /\ HIGHER > 2 /\ K_STACK_START > 2 /\ LOW > 2
        /\ VGA_V \in Nat /\ HIGHER \in Nat /\ K_STACK_START \in Nat /\ LOW \in Nat
        /\ kernel_start \in Nat /\ kernel_end \in Nat /\ STACK \in Nat
        /\ APIC_V = 1 /\ IOAPIC_V = 2 /\ Hhk = LOW .. kernel_start - 1
    BY Layout
  <2>3. \A k \in 0 .. STACK - 1 : K_STACK_START + k > 2
    BY <2>2
  <2>4. \A p \in kernel_start .. kernel_end - 1 : p \in 0 .. kernel_end /\ HIGHER + p > 2
    BY <2>2
  <2>5. \A v \in Hhk : v > 2
    BY <2>2
  <2>6. \A v \in {APIC_V, IOAPIC_V} : ~(v > 2)
    BY <2>2
  <2>. QED
    BY <2>1, <2>2, <2>3, <2>4, <2>5, <2>6
<1>15. Rooted(mm)'
  <2>1. ASSUME NEW v \in UserVAs, mm'.pte[v] # NONE PROVE mm'.dir[v \div ENT] # NONE
    <3>1. CASE v \in {APIC_V, IOAPIC_V}
      BY <3>1, <1>7, <1>8, <1>12
    <3>2. CASE v \notin {APIC_V, IOAPIC_V}
      BY <2>1, <3>2, <1>2, <1>12 DEF Paged, Rooted
    <3>. QED
      BY <3>1, <3>2
  <2>. QED
    BY <2>1, <1>2, <1>12 DEF Paged, Rooted
<1>16. Sole(mm)'
  <2>1. ASSUME NEW p \in RamLow, mm'.pte[p] = p
        PROVE  (\A v \in UserVAs : mm'.pte[v] = p => v = p) /\ (\A s \in Slots : mm'.dir[s] # p)
    <3>1. p \in UserVAs \ {APIC_V, IOAPIC_V}
      BY <2>1, <1>2, <1>7, <1>12, <1>13, RamHeld, Addresses
    <3>2. mm.pte[p] = p
      BY <3>1, <2>1, <1>12
    <3>. QED
      BY <3>1, <3>2, <1>2, <1>12, <1>13 DEF Paged, Sole
  <2>. QED
    BY <2>1 DEF Sole
<1>17. Identity'
  <2>1. ASSUME NEW v \in Below, Kept(v)' PROVE mm'.pte[v] = v
    <3>1. Kept(v) /\ v \notin {APIC_V, IOAPIC_V}
      BY <2>1, <1>1, <1>14, Layout DEF Kept, BeforeLow, BeforeVga
    <3>. QED
      BY <3>1, <1>2, <1>12, Addresses DEF Paged, Identity
  <2>. QED
    BY <2>1 DEF Identity
<1>18. KernelMapped' /\ VgaMapped' /\ HeapFree'
  BY <1>1, <1>2, <1>12, <1>14 DEF Paged, KernelMapped, VgaMapped, HeapFree, BeforeVga
<1>19. StackMapped'
  BY <1>1, <1>2, <1>12, <1>14 DEF Paged, StackMapped, BeforeVga
<1>20. LowerIdentity'
  BY <1>1, <1>2, <1>12, Addresses DEF Paged, LowerIdentity, WithDevices
<1>21. DevicesMapped'
  BY <1>1, <1>3, <1>12 DEF DevicesMapped, WithDevices, AcpiWalk, ioapic_addr
<1>22. LockedMapped'
  <2>1. ASSUME NEW k \in DOMAIN machine.mmap, Locked(machine.mmap[k]),
               NEW p \in LockPages(machine.mmap[k]), p \div ENT # SELF
        PROVE  mm'.pte[p] # NONE
    <3>1. mm.pte[p] # NONE
      BY <2>1, <1>1, <1>2 DEF Paged, LockedMapped, AcpiWalk
    <3>2. p \in UserVAs
      BY <2>1, <1>2, LockedPages DEF Locked
    <3>. QED
      BY <3>1, <3>2, <1>4, <1>12, <1>13
  <2>. QED
    BY <2>1, <1>1 DEF LockedMapped
<1>23. Paged'
  BY <1>15, <1>16, <1>17, <1>18, <1>19, <1>20, <1>21, <1>22 DEF Paged
<1>24. Types'
  BY <1>1, <1>2, <1>12 DEF Types, Unpaged, BeforeLow, BeforeVga, WithDevices
<1>25. Free'
  <2>1. Unused(mm)'
    <3>1. ASSUME NEW f \in mm.free PROVE f # APIC_P /\ f # b
      BY <1>2, <1>4
    <3>. QED
      BY <3>1, <1>2, <1>12 DEF Unused
  <2>2. 0 \notin mm.free
    BY <1>1 DEF BootInv, Free, Early
  <2>. QED
    BY <2>1, <2>2, <1>1, <1>2, <1>12 DEF Free, Held, Early, Unpaged
<1>26. Enough'
  <2>1. Cardinality(mm.free) >= 0 + Cardinality(Missing(mm))
    BY <1>1 DEF BootInv, Enough, Early, PagesLeft, BeforeVga
  <2>2. PagesLeft' = 0 /\ Missing(mm)' = Missing(mm)
    BY <1>1, <1>12 DEF PagesLeft, BeforeVga, Missing
  <2>. QED
    BY <2>1, <2>2, <1>1, <1>12 DEF Enough
<1>27. BootTables'
  BY <1>1 DEF BootTables, Unpaged
<1>. QED
  BY <1>23, <1>24, <1>25, <1>26, <1>27 DEF BootInv

(* BootInv survives every step.                                            *)
LEMMA BootStep == BootInv /\ Walking /\ [Next]_vars => BootInv'
<1>. SUFFICES ASSUME BootInv, Walking, [Next]_vars PROVE BootInv'
  OBVIOUS
<1>1. CASE \/ _save_multiboot_info \/ _hhk_init \/ EnablePaging
  BY <1>1, BootBeforePaging, BootPaging
<1>2. CASE _kernel_pre_init \/ FreeRegion \/ OccupyKernel \/ MapVga
  BY <1>2, BootMemory, BootScreen
<1>3. CASE AllocStack \/ kalloc_init
  BY <1>3, BootStack, BootHeap
<1>4. CASE SwitchStack \/ ReleaseLow \/ ReleaseLowEnd
  BY <1>4, BootLow
<1>5. CASE LockPage \/ NextRegion
  BY <1>5, BootLockPage, BootNextRegion
<1>6. CASE LockEnd \/ (AcpiNext /\ UNCHANGED boot_vars) \/ timer_init \/ ReleaseEnd
  BY <1>6, BootWalk
<1>7. CASE MapDevices \/ ReleaseHhk
  BY <1>7, BootDevices, BootReleaseHhk
<1>8. CASE UNCHANGED vars
  <2>1. /\ machine' = machine /\ pc' = pc /\ i' = i /\ toc' = toc /\ mb_info' = mb_info
        /\ kpg' = kpg /\ mm' = mm /\ vga' = vga /\ sp' = sp /\ j' = j
    BY <1>8 DEF vars, acpi_vars, boot_vars
  <2>2. Types' /\ BootTables' /\ Free' /\ Enough'
    BY <2>1 DEF BootInv, Types, BootTables, Free, Held, Unused, Enough, PagesLeft, Missing
  <2>3. Paged' <=> Paged
    BY <2>1 DEF Paged, Rooted, Sole, Identity, Kept, KernelMapped, VgaMapped, StackMapped, HeapFree,
                LowerIdentity, DevicesMapped, LockedMapped
  <2>. QED
    BY <2>1, <2>2, <2>3 DEF BootInv
<1>. QED
  BY <1>1, <1>2, <1>3, <1>4, <1>5, <1>6, <1>7, <1>8 DEF Next

-----------------------------------------------------------------------------
(* The walk and the redirection, in the steps of the boot.                 *)

(* Line 8, or the line its override leads to, is one of the 24, and its    *)
(* two registers are there.                                                *)
LEMMA Selected ==
  ASSUME machine \in Machines, Complete
  PROVE  /\ ioapic_get_irq(PC_AT_IRQ_RTC) \in 0 .. PINS - 1
         /\ reg_sel = IOREDTBL_BASE + 2 * ioapic_get_irq(PC_AT_IRQ_RTC)
         /\ reg_sel \in Regs /\ reg_sel + 1 \in Regs
         /\ ioapic_get_irq(PC_AT_IRQ_RTC) = IF RtcPins = {} THEN PC_AT_IRQ_RTC
                                            ELSE CHOOSE g \in RtcPins : TRUE
         /\ RtcPins # {} => RtcPins = {ioapic_get_irq(PC_AT_IRQ_RTC)}
<1>1. PICK o : o = toc.irq_exception[PC_AT_IRQ_RTC]
  OBVIOUS
<1>2. PC_AT_IRQ_RTC = 8 /\ PINS = 24 /\ IOREDTBL_BASE = 16 /\ PC_AT_IRQ_RTC \in 0 .. PINS - 1
  BY DEF PC_AT_IRQ_RTC, PINS, IOREDTBL_BASE
<1>3. ioapic_get_irq(PC_AT_IRQ_RTC) = IF o = NONE THEN 8 ELSE o.gsi % 256
  BY <1>1, <1>2 DEF ioapic_get_irq
<1>4. /\ o # NONE => o \in Ics(mem) /\ o.type = "INTSO" /\ o.source = 8
      /\ \A e \in Ics(mem) : e.type = "INTSO" /\ e.source = 8 => o # NONE
  BY <1>1, <1>2, WalkFound DEF Override
<1>5. \A e \in Ics(mem) : e.type = "INTSO" => e.gsi \in 0 .. 23
  BY <1>2, Firmware
<1>6. \A e, f \in Ics(mem) : e.type = "INTSO" /\ f.type = "INTSO" /\ e.source = f.source => e.gsi = f.gsi
  <2>1. PICK a : a \in Of(mem, {"madt"})
    <3>1. PICK r : r \in Of(mem, {"rsdt"})
      BY Firmware
    <3>2. PICK k \in 1 .. Len(mem[r].entry) : mem[mem[r].entry[k]].kind = "madt"
      BY <3>1, Firmware
    <3>3. mem[r].entry[k] \in DOMAIN mem
      BY <3>1, <3>2, Firmware
    <3>. QED
      BY <3>2, <3>3 DEF Of
  <2>. QED
    BY <2>1, MadtEntries
<1>7. CASE o = NONE
  <2>1. RtcPins = {}
    BY <1>2, <1>4, <1>7 DEF RtcPins
  <2>2. ioapic_get_irq(PC_AT_IRQ_RTC) = 8
    BY <1>3, <1>7
  <2>3. reg_sel = 32
    BY <2>2, <1>2 DEF reg_sel
  <2>. QED
    BY <2>1, <2>2, <2>3, <1>2 DEF Regs
<1>8. CASE o # NONE
  <2>1. PICK g : g = o.gsi
    OBVIOUS
  <2>2. g \in 0 .. 23
    BY <2>1, <1>4, <1>5, <1>8
  <2>3. RtcPins = {g}
    <3>1. \A e \in Ics(mem) : e.type = "INTSO" /\ e.source = 8 => e.gsi = g
      BY <2>1, <1>4, <1>6, <1>8
    <3>2. o \in Ics(mem) /\ o.type = "INTSO" /\ o.source = 8 /\ o.gsi = g
      BY <2>1, <1>4, <1>8
    <3>. QED
      BY <3>1, <3>2, <1>2 DEF RtcPins
  <2>4. ioapic_get_irq(PC_AT_IRQ_RTC) = g
    <3>1. g % 256 = g
      BY <2>2
    <3>. QED
      BY <3>1, <2>1, <1>3, <1>8
  <2>5. reg_sel = 16 + 2 * g
    <3>1. reg_sel = (16 + g * 2) % 256
      BY <2>4, <1>2 DEF reg_sel
    <3>. QED
      BY <3>1, <2>2
  <2>. QED
    BY <2>2, <2>3, <2>4, <2>5, <1>2 DEF Regs
<1>. QED
  BY <1>7, <1>8

LEMMA AcpiStarts == Init => AcpiInv
<1>. SUFFICES ASSUME Init PROVE AcpiInv
  OBVIOUS
<1>1. pc = "start"
  BY DEF Init
<1>2. Walking
  BY <1>1 DEF Walking, WithDevices
<1>3. redtbl = Masked
  BY DEF Init, AcpiInit, Masked, Regs
<1>. QED
  BY <1>1, <1>2, <1>3 DEF AcpiInv, Redirected

LEMMA WalkStep == BootInv /\ Walking /\ [Next]_vars => Walking'
<1>. SUFFICES ASSUME BootInv, Walking, [Next]_vars PROVE Walking'
  OBVIOUS
<1>1. machine \in Machines /\ i \in Nat
  BY DEF BootInv, Types
<1>2. CASE AcpiNext
  <2>1. CASE acpi_init \/ SkipTable \/ madt_parse \/ ParseEntry \/ ParseEnd \/ AcpiDone
    BY <1>1, <2>1, WalkStarts, WalkSkips, WalkEnters, WalkParses, WalkLeaves, WalkEnds
  <2>2. CASE RedirectLow \/ RedirectHigh
    <3>1. machine' = machine /\ toc' = toc /\ pc \in WithDevices /\ pc' \notin {"rsdt", "madt"}
      BY <2>2 DEF RedirectLow, RedirectHigh, WithDevices
    <3>. QED
      BY <3>1, WalkStays
  <2>. QED
    BY <1>2, <2>1, <2>2 DEF AcpiNext
<1>3. CASE \/ _save_multiboot_info \/ _hhk_init \/ EnablePaging
           \/ _kernel_pre_init \/ FreeRegion \/ OccupyKernel \/ MapVga
           \/ AllocStack \/ kalloc_init \/ SwitchStack
           \/ ReleaseLow \/ ReleaseLowEnd \/ LockPage \/ NextRegion \/ LockEnd
  <2>1. machine' = machine /\ toc' = toc
    BY <1>3 DEF _save_multiboot_info, _hhk_init, EnablePaging, _kernel_pre_init, FreeRegion,
                OccupyKernel, MapVga, AllocStack, kalloc_init, SwitchStack, ReleaseLow,
                ReleaseLowEnd, LockPage, NextRegion, LockEnd, acpi_rest
  <2>2. pc' \notin {"rsdt", "madt", "devices"} \cup WithDevices
    BY <1>3 DEF _save_multiboot_info, _hhk_init, EnablePaging, _kernel_pre_init, FreeRegion,
                OccupyKernel, MapVga, AllocStack, kalloc_init, SwitchStack, ReleaseLow,
                ReleaseLowEnd, LockPage, NextRegion, LockEnd, WithDevices
  <2>. QED
    BY <2>1, <2>2, WalkStays
<1>4. CASE MapDevices \/ timer_init \/ ReleaseHhk \/ ReleaseEnd
  <2>1. /\ machine' = machine /\ toc' = toc
        /\ pc \in {"devices"} \cup WithDevices /\ pc' \notin {"rsdt", "madt"}
    BY <1>4 DEF MapDevices, timer_init, ReleaseHhk, ReleaseEnd, acpi_rest, WithDevices
  <2>. QED
    BY <2>1, WalkStays
<1>5. CASE UNCHANGED vars
  <2>1. machine' = machine /\ pc' = pc /\ rsdt' = rsdt /\ i' = i /\ ics_start' = ics_start
        /\ ics_end' = ics_end /\ toc' = toc
    BY <1>5 DEF vars, acpi_vars
  <2>. QED
    BY <2>1 DEF Walking, TocType, Complete, ParsedBelow, mem
<1>. QED
  BY <1>2, <1>3, <1>4, <1>5 DEF Next

(* Only the two writes of the redirection change the registers.            *)
LEMMA RedirectStep == BootInv /\ Walking /\ Redirected /\ [Next]_vars => Redirected'
<1>. SUFFICES ASSUME BootInv, Walking, Redirected, [Next]_vars PROVE Redirected'
  OBVIOUS
<1>1. ASSUME machine' = machine, toc' = toc PROVE reg_sel' = reg_sel
  BY <1>1 DEF reg_sel, ioapic_get_irq
<1>2. CASE RedirectLow
  <2>1. pc = "ioapic" /\ pc' = "ioapic_high" /\ machine' = machine /\ toc' = toc
        /\ redtbl' = [redtbl EXCEPT ![reg_sel] = RTC_TIMER_IV]
    BY <1>2 DEF RedirectLow
  <2>. QED
    BY <2>1, <1>1 DEF Redirected
<1>3. CASE RedirectHigh
  <2>1. pc = "ioapic_high" /\ pc' = "timer" /\ machine' = machine /\ toc' = toc
        /\ redtbl' = [redtbl EXCEPT ![reg_sel + 1] = 0]
    BY <1>3 DEF RedirectHigh
  <2>2. redtbl = [Masked EXCEPT ![reg_sel] = RTC_TIMER_IV]
    BY <2>1 DEF Redirected
  <2>3. redtbl' = [Masked EXCEPT ![reg_sel] = RTC_TIMER_IV, ![reg_sel + 1] = 0]
    BY <2>1, <2>2
  <2>. QED
    BY <2>1, <2>3, <1>1 DEF Redirected
<1>4. CASE acpi_init \/ SkipTable \/ madt_parse \/ ParseEntry \/ ParseEnd \/ AcpiDone
  <2>1. redtbl' = redtbl /\ pc \in AcpiWalk /\ pc' \in AcpiWalk
    BY <1>4 DEF acpi_init, SkipTable, madt_parse, ParseEntry, ParseEnd, AcpiDone, AcpiWalk
  <2>. QED
    BY <2>1 DEF Redirected, AcpiWalk
<1>5. CASE \/ _save_multiboot_info \/ _hhk_init \/ EnablePaging
           \/ _kernel_pre_init \/ FreeRegion \/ OccupyKernel \/ MapVga
           \/ AllocStack \/ kalloc_init \/ SwitchStack
           \/ ReleaseLow \/ ReleaseLowEnd \/ LockPage \/ NextRegion \/ LockEnd \/ MapDevices
  <2>1. redtbl' = redtbl
    BY <1>5 DEF _save_multiboot_info, _hhk_init, EnablePaging, _kernel_pre_init, FreeRegion,
                OccupyKernel, MapVga, AllocStack, kalloc_init, SwitchStack, ReleaseLow,
                ReleaseLowEnd, LockPage, NextRegion, LockEnd, MapDevices, acpi_rest
  <2>2. pc \notin {"timer", "release", "main", "ioapic_high"} /\ pc' \notin {"timer", "release", "main", "ioapic_high"}
    BY <1>5 DEF _save_multiboot_info, _hhk_init, EnablePaging, _kernel_pre_init, FreeRegion,
                OccupyKernel, MapVga, AllocStack, kalloc_init, SwitchStack, ReleaseLow,
                ReleaseLowEnd, LockPage, NextRegion, LockEnd, MapDevices
  <2>. QED
    BY <2>1, <2>2 DEF Redirected
<1>6. CASE timer_init \/ ReleaseHhk \/ ReleaseEnd
  <2>1. redtbl' = redtbl /\ machine' = machine /\ toc' = toc
        /\ pc \in {"timer", "release", "main"} /\ pc' \in {"timer", "release", "main"}
    BY <1>6 DEF timer_init, ReleaseHhk, ReleaseEnd, acpi_rest
  <2>. QED
    BY <2>1, <1>1 DEF Redirected
<1>7. CASE UNCHANGED vars
  <2>1. redtbl' = redtbl /\ machine' = machine /\ toc' = toc /\ pc' = pc
    BY <1>7 DEF vars, acpi_vars
  <2>. QED
    BY <2>1, <1>1 DEF Redirected
<1>. QED
  BY <1>2, <1>3, <1>4, <1>5, <1>6, <1>7 DEF Next, AcpiNext

(* Every state of the boot meets the inductive invariant.                  *)
THEOREM BootInductive == Spec => []IInv
<1>1. Init => IInv
  BY BootStarts, AcpiStarts DEF IInv
<1>2. IInv /\ [Next]_vars => IInv'
  BY BootStep, WalkStep, RedirectStep DEF IInv, AcpiInv
<1>. QED
  BY <1>1, <1>2, PTL DEF Spec

-----------------------------------------------------------------------------
(* What follows.                                                           *)

LEMMA UsableFrames == IInv => FreeIsUsable
<1>. SUFFICES ASSUME IInv, pc \notin Early, NEW f \in mm.free
              PROVE  /\ \E k \in DOMAIN machine.mmap :
                          LET r == machine.mmap[k] IN
                            Available(r) /\ f * PAGE >= r.addr /\ (f + 1) * PAGE <= r.addr + r.len
                     /\ \A v \in UserVAs : mm.pte[v] # f
                     /\ \A s \in Slots : mm.dir[s] # f
  BY DEF FreeIsUsable
<1>1. Unused(mm) /\ Held(f) /\ f \in Nat /\ machine \in Machines
  BY Frames DEF IInv, MM
<1>2. PICK k \in DOMAIN machine.mmap : Available(machine.mmap[k]) /\ Holds(machine.mmap[k], f)
  BY <1>1 DEF Held
<1>3. machine.mmap[k].addr <= f * PAGE /\ machine.mmap[k].addr \in Nat /\ f * PAGE \in Nat
  <2>1. f * PAGE = PAGE * f /\ PAGE * f \in Nat
    BY <1>1, Layout, Multiples
  <2>. QED
    BY <2>1, <1>1, <1>2, Regions DEF Holds
<1>4. f * PAGE >= machine.mmap[k].addr
  BY <1>3
<1>. QED
  BY <1>1, <1>2, <1>4 DEF Holds, Unused

LEMMA DevicesFound == IInv => DevicesReached
<1>. SUFFICES ASSUME IInv, pc \in WithDevices
              PROVE  /\ mm.pte[APIC_V] = APIC_P
                     /\ \E e \in Ics(mem) :
                          e.type = "IOAPIC" /\ mm.pte[IOAPIC_V] = PageOf(e.ioapic_addr)
  BY DEF DevicesReached, WithDevices
<1>1. Paged /\ machine \in Machines /\ Complete
  BY DEF IInv, AcpiInv, BootInv, Types, Unpaged, Walking, WithDevices
<1>. QED
  BY <1>1, WalkFound DEF Paged, DevicesMapped

LEMMA ClockRouted == IInv => RtcRouted
<1>. SUFFICES ASSUME IInv, pc \in {"timer", "release", "main"}, NEW pin \in 0 .. PINS - 1
              PROVE  redtbl[IOREDTBL_BASE + 2 * pin] = RTC_TIMER_IV
                       <=> IF RtcPins = {} THEN pin = PC_AT_IRQ_RTC ELSE pin \in RtcPins
  BY DEF RtcRouted
<1>1. machine \in Machines /\ Complete
  BY DEF IInv, AcpiInv, BootInv, Types, Walking, WithDevices
<1>2. PICK g : g = ioapic_get_irq(PC_AT_IRQ_RTC)
  OBVIOUS
<1>3. /\ g \in 0 .. PINS - 1 /\ reg_sel = IOREDTBL_BASE + 2 * g
      /\ reg_sel \in Regs /\ reg_sel + 1 \in Regs
      /\ RtcPins = {} => g = PC_AT_IRQ_RTC
      /\ RtcPins # {} => RtcPins = {g}
  BY <1>1, <1>2, Selected
<1>4. PICK r : r = IOREDTBL_BASE + 2 * pin
  OBVIOUS
<1>5. /\ r \in Regs /\ r % 2 = 0 /\ r # reg_sel + 1 /\ (r = reg_sel <=> pin = g)
      /\ RTC_TIMER_IV # IOAPIC_MASKED /\ reg_sel # reg_sel + 1
  BY <1>3, <1>4 DEF PINS, IOREDTBL_BASE, Regs, RTC_TIMER_IV, IOAPIC_MASKED
<1>6. redtbl = [Masked EXCEPT ![reg_sel] = RTC_TIMER_IV, ![reg_sel + 1] = 0]
  BY DEF IInv, AcpiInv, Redirected
<1>7. redtbl[r] = IF r = reg_sel THEN RTC_TIMER_IV ELSE IOAPIC_MASKED
  BY <1>3, <1>5, <1>6 DEF Masked
<1>8. redtbl[r] = RTC_TIMER_IV <=> pin = g
  BY <1>5, <1>7
<1>9. pin = g <=> IF RtcPins = {} THEN pin = PC_AT_IRQ_RTC ELSE pin \in RtcPins
  BY <1>3
<1>. QED
  BY <1>4, <1>8, <1>9

(* What boot set up and is still needed is where it was, in any state with *)
(* paging on.                                                              *)
LEMMA LowReached ==
  ASSUME Paged, NEW v \in Nat, v > IOAPIC_V,
         v < LOW \/ (v \in Hhk /\ pc \notin {"release", "main"})
  PROVE  v \in UserVAs /\ mm.pte[v] \in Reaches(v)
<1>1. /\ v \in Below /\ v # VGA_V /\ v < HIGHER /\ v < K_STACK_START
      /\ v \notin {APIC_V, IOAPIC_V}
  <2>1. /\ LOW \in Nat /\ kernel_start \in Nat /\ LOW <= kernel_start /\ kernel_start <= ENT /\ ENT \in Nat
        /\ ENT <= VGA_V /\ VGA_V < HIGHER /\ VGA_V \in Nat /\ HIGHER \in Nat
        /\ K_STACK_START \in Nat /\ HIGHER < K_STACK_START
        /\ Below = 0 .. kernel_start - 1 /\ Hhk = LOW .. kernel_start - 1
        /\ APIC_V = 1 /\ IOAPIC_V = 2
    BY Layout
  <2>2. v < kernel_start
    BY <2>1
  <2>3. v < VGA_V
    BY <2>1, <2>2
  <2>. QED
    BY <2>1, <2>2, <2>3
<1>2. v \in UserVAs
  BY <1>1, Addresses
<1>3. mm.pte[v] = v
  BY <1>1 DEF Paged, Identity, Kept
<1>4. Reaches(v) = {v}
  <2>1. ~(v >= K_STACK_START) /\ v \notin HIGHER .. K_STACK_START - 1
    BY <1>1, Layout
  <2>. QED
    BY <2>1, <1>1 DEF Reaches
<1>. QED
  BY <1>2, <1>3, <1>4

(* A page of the firmware's tables is in low memory or has been locked.    *)
LEMMA TableReached ==
  ASSUME Paged, machine \in Machines, pc \in AcpiWalk \cup WithDevices, NEW a \in Tables(machine)
  PROVE  PageOf(a) \in UserVAs /\ mm.pte[PageOf(a)] \in Reaches(PageOf(a))
<1>1. PICK v : v = PageOf(a)
  OBVIOUS
<1>2. /\ LOW \in Nat /\ LOW > 2 /\ VGA_V \in Nat /\ HIGHER \in Nat
      /\ K_STACK_START \in Nat /\ HIGHER < K_STACK_START
      /\ APIC_V = 1 /\ IOAPIC_V = 2
  BY Layout
<1>3. CASE v \in PageOf(SCAN) .. LOW - 1
  <2>1. PageOf(SCAN) \in Nat /\ PageOf(SCAN) > IOAPIC_V
    <3>1. SCAN \in Nat /\ PageOf(SCAN) > IOAPIC_V
      BY LayoutAssumption
    <3>. QED
      BY <3>1, Layout, Division DEF PageOf
  <2>2. v \in Nat /\ v > IOAPIC_V /\ v < LOW
    BY <2>1, <1>2, <1>3
  <2>. QED
    BY <2>2, <1>1, LowReached
<1>4. CASE /\ v \in 0 .. HIGHER - 1 /\ v # VGA_V /\ v > LOW /\ v \in UserVAs /\ v \div ENT # SELF
           /\ \E k \in DOMAIN machine.mmap :
                Locked(machine.mmap[k]) /\ v \in LockPages(machine.mmap[k])
  <2>1. mm.pte[v] # NONE
    BY <1>4 DEF Paged, LockedMapped
  <2>2. /\ v \notin {APIC_V, IOAPIC_V} /\ ~(v >= K_STACK_START)
        /\ v \notin HIGHER .. K_STACK_START - 1
    BY <1>2, <1>4
  <2>3. mm.pte[v] = v
    BY <2>1, <2>2, <1>4 DEF Paged, LowerIdentity
  <2>4. Reaches(v) = {v}
    BY <2>2, <1>4 DEF Reaches
  <2>. QED
    BY <2>3, <2>4, <1>1, <1>4
<1>. QED
  BY <1>1, <1>3, <1>4, TablePage

(* The two devices, once they are mapped.                                  *)
LEMMA DeviceReached ==
  ASSUME Paged, machine \in Machines, Complete, pc \in WithDevices, NEW v \in {APIC_V, IOAPIC_V}
  PROVE  v \in UserVAs /\ mm.pte[v] \in Reaches(v)
<1>1. v \in RamLow
  BY DEF RamLow
<1>2. v \in UserVAs
  BY <1>1, RamHeld, Addresses
<1>3. ~(v >= K_STACK_START) /\ v # VGA_V /\ v \notin HIGHER .. K_STACK_START - 1
  <2>1. /\ ENT \in Nat /\ ENT > 5 /\ VGA_V \in Nat /\ ENT <= VGA_V /\ VGA_V < HIGHER
        /\ HIGHER \in Nat /\ K_STACK_START \in Nat /\ HIGHER < K_STACK_START
        /\ APIC_V = 1 /\ IOAPIC_V = 2
    BY Layout
  <2>. QED
    BY <2>1
<1>4. Reaches(v) = Nat
  BY <1>3 DEF Reaches
<1>5. APIC_P \in Nat /\ PageOf(toc.ioapic.ioapic_addr) \in Nat
  BY WalkFound, FirmwareAssumption, Layout DEF mem
<1>6. mm.pte[v] \in Nat
  BY <1>5 DEF Paged, DevicesMapped
<1>. QED
  BY <1>2, <1>4, <1>6

(* Code and data, stack and screen.                                        *)
LEMMA KernelReached ==
  ASSUME BootInv, pc \notin Unpaged,
         NEW v \in {HIGHER + p : p \in kernel_start .. kernel_end - 1}
                   \cup (IF sp = "boot" THEN Hhk ELSE K_STACK_START .. K_STACK_START + STACK - 1)
                   \cup {vga}
  PROVE  v \in UserVAs /\ mm.pte[v] \in Reaches(v)
<1>1. /\ Paged
      /\ sp = IF pc \in BeforeLow THEN "boot" ELSE "kernel"
      /\ vga = IF pc \in BeforeVga THEN VGA ELSE VGA_V
  BY DEF BootInv, Types, BeforeLow
<1>2. /\ VGA_V \in Nat /\ VGA_V < HIGHER /\ HIGHER \in Nat /\ K_STACK_START \in Nat /\ STACK \in Nat
      /\ HIGHER + kernel_end < K_STACK_START /\ kernel_end \in Nat /\ kernel_start \in Nat
      /\ APIC_V = 1 /\ IOAPIC_V = 2 /\ 5 < HIGHER /\ 5 < VGA_V
      /\ VGA \in Nat /\ VGA > 2 /\ VGA < LOW /\ LOW \in Nat /\ Hhk = LOW .. kernel_start - 1
  <2>1. ENT > 5 /\ ENT \in Nat /\ ENT <= VGA_V
    BY Layout
  <2>. QED
    BY <2>1, Layout
<1>3. CASE v \in {HIGHER + p : p \in kernel_start .. kernel_end - 1}
  <2>1. PICK p \in kernel_start .. kernel_end - 1 : v = HIGHER + p
    BY <1>3
  <2>2. p \in 0 .. kernel_end /\ v - HIGHER = p
    BY <2>1, <1>2
  <2>3. /\ ~(v >= K_STACK_START) /\ v # VGA_V /\ v \notin {APIC_V, IOAPIC_V}
        /\ v \in HIGHER .. K_STACK_START - 1
    BY <2>1, <1>2
  <2>4. v \in UserVAs
    BY <2>1, <2>2, Addresses
  <2>5. mm.pte[v] = p
    BY <2>1, <1>1 DEF Paged, KernelMapped
  <2>6. Reaches(v) = {p}
    BY <2>2, <2>3 DEF Reaches
  <2>. QED
    BY <2>4, <2>5, <2>6
<1>4. CASE sp = "boot" /\ v \in Hhk
  <2>1. pc \notin {"release", "main"}
    BY <1>1, <1>4 DEF BeforeLow, BeforeVga
  <2>2. v \in Nat /\ v > IOAPIC_V
    BY <1>2, <1>4
  <2>. QED
    BY <2>1, <2>2, <1>1, <1>4, LowReached
<1>5. CASE sp # "boot" /\ v \in K_STACK_START .. K_STACK_START + STACK - 1
  <2>1. PICK k \in 0 .. STACK - 1 : v = K_STACK_START + k
    <3>1. v - K_STACK_START \in 0 .. STACK - 1 /\ v = K_STACK_START + (v - K_STACK_START)
      BY <1>2, <1>5
    <3>. QED
      BY <3>1
  <2>2. /\ v \in UserVAs /\ v >= K_STACK_START /\ v # VGA_V /\ v \notin {APIC_V, IOAPIC_V}
        /\ v \notin HIGHER .. K_STACK_START - 1
    <3>1. v \in UserVAs
      BY <2>1, Addresses
    <3>. QED
      BY <3>1, <2>1, <1>2
  <2>3. mm.pte[v] \in 1 .. MAX_PG - 1
    BY <2>1, <1>1, <1>5 DEF Paged, StackMapped, BeforeLow
  <2>4. Reaches(v) = 1 .. MAX_PG - 1
    BY <2>2 DEF Reaches
  <2>. QED
    BY <2>2, <2>3, <2>4
<1>6. CASE v = vga
  <2>1. CASE pc \in BeforeVga
    <3>1. v \in Nat /\ v > IOAPIC_V /\ v < LOW
      BY <2>1, <1>1, <1>2, <1>6
    <3>. QED
      BY <3>1, <1>1, LowReached
  <2>2. CASE pc \notin BeforeVga
    <3>1. v = VGA_V /\ mm.pte[v] = VGA
      BY <2>2, <1>1, <1>6 DEF Paged, VgaMapped
    <3>2. /\ ~(v >= K_STACK_START) /\ v \notin {APIC_V, IOAPIC_V}
          /\ v \notin HIGHER .. K_STACK_START - 1
      BY <3>1, <1>2
    <3>3. Reaches(v) = {VGA}
      BY <3>1, <3>2 DEF Reaches
    <3>. QED
      BY <3>1, <3>3, Addresses
  <2>. QED
    BY <2>1, <2>2
<1>. QED
  BY <1>3, <1>4, <1>5, <1>6

(* The firmware's tables that are read at pc.                              *)
LEMMA TablesRead ==
  ASSUME machine \in Machines, Walking, i \in Nat
  PROVE  /\ \A a \in Of(mem, {"ics"}) : a \in Tables(machine)
         /\ pc = "rsdt" => rsdt \in Tables(machine)
         /\ pc = "rsdt" /\ i < entry_n => rsdt + i + HDR \in Tables(machine) /\ sdthdr \in Tables(machine)
         /\ pc = "madt" /\ ics_start < ics_end => ics_start \in Tables(machine)
<1>1. \A a \in DOMAIN mem \ Of(mem, {"rsdp", "copy"}) : a \in Tables(machine)
  BY DEF Tables, mem
<1>2. \A a \in Of(mem, {"ics", "rsdt"}) : a \in DOMAIN mem \ Of(mem, {"rsdp", "copy"})
  BY DEF Of
<1>3. \A a \in Of(mem, {"ics"}) : a \in Tables(machine)
  BY <1>1, <1>2 DEF Of
<1>4. ASSUME pc = "rsdt" PROVE rsdt \in Of(mem, {"rsdt"}) /\ rsdt \in Tables(machine)
  BY <1>1, <1>2, <1>4 DEF Walking, Of
<1>5. ASSUME pc = "rsdt", i < entry_n
      PROVE  rsdt + i + HDR \in Tables(machine) /\ sdthdr \in Tables(machine)
  <2>1. rsdt \in Of(mem, {"rsdt"}) /\ rsdt \in Nat
    <3>1. rsdt \in Of(mem, {"rsdt"})
      BY <1>4, <1>5
    <3>2. rsdt \in DOMAIN mem
      BY <3>1 DEF Of
    <3>. QED
      BY <3>1, <3>2, Firmware
  <2>2. PICK n \in Nat : n = Len(mem[rsdt].entry) /\ mem[rsdt].length = 1 + n
    BY <2>1, Firmware
  <2>3. i < n
    BY <2>2, <1>5 DEF entry_n, HDR
  <2>4. sdthdr \in Tables(machine)
    <3>1. i + 1 \in 1 .. n
      BY <2>2, <2>3
    <3>. QED
      BY <3>1, <2>1, <2>2, <1>1, Firmware DEF sdthdr
  <2>5. rsdt + i + HDR \in rsdt .. rsdt + mem[rsdt].length - 1
    BY <2>1, <2>2, <2>3 DEF HDR
  <2>6. rsdt + i + HDR \in Tables(machine)
    BY <2>1, <2>5 DEF Tables, mem
  <2>. QED
    BY <2>4, <2>6
<1>6. ASSUME pc = "madt", ics_start < ics_end PROVE ics_start \in Tables(machine)
  <2>1. PICK a \in Of(mem, {"madt"}) : ics_end = a + mem[a].length
    BY <1>6 DEF Walking
  <2>2. ics_end \in Nat
    BY <2>1, MadtEntries
  <2>3. ics_start \in Of(mem, {"ics"})
    BY <2>2, <1>6 DEF Walking
  <2>. QED
    BY <2>3, <1>3
<1>. QED
  BY <1>3, <1>4, <1>5, <1>6

LEMMA NothingTakenAway == IInv => NoFault
<1>. SUFFICES ASSUME IInv, NEW v \in Touched
              PROVE  /\ mm.dir[v \div ENT] # NONE /\ mm.pte[v] \in Reaches(v)
                     /\ pc \notin Early => mm.pte[v] \notin mm.free
  BY DEF NoFault
<1>1. machine \in Machines /\ i \in Nat /\ BootInv /\ Walking
  BY DEF IInv, AcpiInv, BootInv, Types
<1>2. pc \notin Unpaged
  BY DEF Touched, Unpaged
<1>3. Paged
  BY <1>1, <1>2 DEF BootInv
<1>4. v \in UserVAs /\ mm.pte[v] \in Reaches(v)
  <2>1. CASE v \in {HIGHER + p : p \in kernel_start .. kernel_end - 1}
                   \cup (IF sp = "boot" THEN Hhk ELSE K_STACK_START .. K_STACK_START + STACK - 1)
                   \cup {vga}
    BY <2>1, <1>1, <1>2, KernelReached
  <2>2. CASE pc \in {"pre_init", "memory", "lock"} /\ v \in Hhk
    <3>1. v \in Nat /\ v > IOAPIC_V
      BY <2>2, Layout
    <3>. QED
      BY <3>1, <2>2, <1>3, LowReached
  <2>3. CASE pc = "acpi" /\ v \in PageOf(SCAN) .. LOW - 1
    <3>1. PageOf(SCAN) > IOAPIC_V /\ PageOf(SCAN) \in Nat
      BY LayoutAssumption, Layout, Division DEF PageOf
    <3>2. v \in Nat /\ v > IOAPIC_V /\ v < LOW
      BY <3>1, <2>3, Layout
    <3>. QED
      BY <3>2, <1>3, LowReached
  <2>4. CASE /\ pc \in AcpiWalk \cup WithDevices
             /\ \E a \in Tables(machine) : v = PageOf(a)
    BY <2>4, <1>1, <1>3, TableReached
  <2>5. CASE pc \in WithDevices /\ v \in {APIC_V, IOAPIC_V}
    <3>1. Complete
      BY <2>5, <1>1 DEF Walking
    <3>. QED
      BY <3>1, <2>5, <1>1, <1>3, DeviceReached
  <2>6. CASE pc = "rsdt" /\ v \in {PageOf(rsdt)} \cup
               (IF i < entry_n THEN {PageOf(rsdt + i + HDR), PageOf(sdthdr)} ELSE {})
    BY <2>4, <2>6, <1>1, TablesRead DEF AcpiWalk
  <2>7. CASE pc = "madt" /\ ics_start < ics_end /\ v = PageOf(ics_start)
    BY <2>4, <2>7, <1>1, TablesRead DEF AcpiWalk
  <2>8. CASE pc \in {"devices", "ioapic", "ioapic_high"} /\ v \in {PageOf(a) : a \in Of(mem, {"ics"})}
    BY <2>4, <2>8, <1>1, TablesRead DEF AcpiWalk, WithDevices
  <2>. QED
    BY <2>1, <2>2, <2>3, <2>5, <2>6, <2>7, <2>8, <1>2 DEF Touched, Unpaged, WithDevices
<1>5. mm.pte[v] # NONE
  <2>1. MAX_PG \in Nat /\ NONE \notin Nat /\ VGA \in Nat /\ HIGHER \in Nat /\ v \in Nat
    BY <1>4, Layout, Addresses
  <2>2. \A x \in 1 .. MAX_PG - 1 : x \in Nat
    BY <2>1
  <2>3. v >= HIGHER => v - HIGHER \in Nat
    BY <2>1
  <2>. QED
    BY <2>1, <2>2, <2>3, <1>4 DEF Reaches
<1>6. mm.dir[v \div ENT] # NONE
  BY <1>3, <1>4, <1>5 DEF Paged, Rooted
<1>7. pc \notin Early => mm.pte[v] \notin mm.free
  BY <1>1, <1>4 DEF BootInv, Free, Unused
<1>. QED
  BY <1>4, <1>6, <1>7

(* The kernel never takes away what it still needs: code, stack, screen,   *)
(* the saved map, the firmware's tables and the devices stay mapped to     *)
(* their frames, and none of those is given out (boot.S:135-146,           *)
(* k_init.c:104-126).                                                      *)
THEOREM NothingFaults == Spec => []NoFault
BY BootInductive, NothingTakenAway, PTL

(* The allocator gives out available memory only, and no frame in use      *)
(* (k_init.c:181-195, 104-126).                                            *)
THEOREM FreeFramesUsable == Spec => []FreeIsUsable
BY BootInductive, UsableFrames, PTL

(* Once setup_memory and lock_reserved_memory are done nothing is in the   *)
(* way of the two interrupt controllers (k_init.c:117-118).                *)
THEOREM DevicesAreReached == Spec => []DevicesReached
BY BootInductive, DevicesFound, PTL

(* The clock's pin, and no other, has its vector, whatever the order of    *)
(* the firmware's tables (ioapic.c:23-26, timer.c:105).                    *)
THEOREM ClockIsRouted == Spec => []RtcRouted
BY BootInductive, ClockRouted, PTL
=============================================================================
