-------------------------------- MODULE Acpi --------------------------------
(***************************************************************************)
(* hal/acpi/acpi.c, hal/acpi/parser/madt_parser.c and hal/ioapic.c: the    *)
(* kernel finds the firmware's tables in memory, walks them for the I/O    *)
(* APIC and the overridden interrupts, and routes the clock's interrupt.   *)
(*                                                                         *)
(* machine.mem maps an address to the structure that begins there, so a    *)
(* walk that strays from the structures has nothing to read.  Addresses    *)
(* count scaled units: a pointer and the header of a table are 1 long.     *)
(* The checksum is only looked at in debug builds and is left out, as is   *)
(* the manufacturer's name.                                                *)
(***************************************************************************)
EXTENDS Integers, Sequences, FiniteSets, FiniteSetsExt

CONSTANTS
  Machines,          \* [mmap, mem]: memory map and contents
  SCAN, MEM_1MB,     \* acpi_locate_rsdp looks at SCAN .. MEM_1MB - 1
  NONE

HDR == 1             \* sizeof(acpi_sdthdr_t), sizeof(acpi_madt_t)
RTC_TIMER_IV == 210
PC_AT_IRQ_RTC == 8
PINS == 24
IOREDTBL_BASE == 16
IOAPIC_MASKED == 65536

Of(mem, kinds) == {a \in DOMAIN mem : mem[a].kind \in kinds}
Ics(mem) == {mem[a] : a \in Of(mem, {"ics"})}

(* What the code takes for granted: the first RSDP signature found is the  *)
(* real one, it leads to the table of tables, which lists an MADT; there   *)
(* is one MADT with one I/O APIC ("Cosidering only one IOAPIC present",    *)
(* madt_parser.c:13), lines are below 24, no structure is empty.           *)
ASSUME AcpiAssumption ==
  \A m \in Machines :
    /\ DOMAIN m.mem \subseteq Nat
    /\ \E a \in Of(m.mem, {"rsdp"}) :
         a \in SCAN .. MEM_1MB - 1 /\ \A b \in Of(m.mem, {"rsdp", "copy"}) : a <= b
    /\ \A a \in Of(m.mem, {"rsdp"}) : m.mem[a].rsdt \in Of(m.mem, {"rsdt"})
    /\ \A a \in Of(m.mem, {"rsdt"}) :
         LET tables == m.mem[a].entry
         IN  /\ tables \in Seq(DOMAIN m.mem \ Of(m.mem, {"rsdp", "copy"}))
             /\ m.mem[a].length = HDR + Len(tables)
             /\ \E k \in DOMAIN tables : m.mem[tables[k]].kind = "madt"
    /\ \E a \in Of(m.mem, {"madt"}) : Of(m.mem, {"madt"}) = {a}
    /\ Cardinality({e \in Ics(m.mem) : e.type = "IOAPIC"}) = 1
    /\ \A e \in Ics(m.mem) :
         /\ e # NONE /\ e.length \in Nat \ {0}
         /\ e.type = "INTSO" => e.source \in 0 .. PINS - 1 /\ e.gsi \in 0 .. PINS - 1

(* The entries of the MADT follow one another from its header to its end,  *)
(* and a line is overridden once.                                          *)
ASSUME MadtAssumption ==
  \A m \in Machines : \A a \in Of(m.mem, {"madt"}) :
    LET ics == Of(m.mem, {"ics"})
        end == a + m.mem[a].length
    IN  /\ end \in Nat /\ a + HDR \in ics \cup {end}
        /\ \A x \in ics :
             /\ x >= a + HDR /\ x < end
             /\ x + m.mem[x].length \in ics \cup {end}
             /\ \A y \in ics : x < y => x + m.mem[x].length <= y
        /\ \A e, f \in Ics(m.mem) :
             e.type = "INTSO" /\ f.type = "INTSO" /\ e.source = f.source => e.gsi = f.gsi

VARIABLES
  machine,
  pc,                \* where the boot is
  rsdt,              \* acpi_init: address of the table of tables
  i,                 \* its index, and that of the boot's other loops
  ics_start, ics_end,
  toc,               \* acpi_context
  redtbl             \* registers of the I/O APIC

acpi_vars == <<machine, pc, rsdt, i, ics_start, ics_end, toc, redtbl>>

AcpiInit ==
  /\ rsdt = NONE /\ ics_start = NONE /\ ics_end = NONE
  /\ toc = NONE
  /\ redtbl = [r \in IOREDTBL_BASE .. IOREDTBL_BASE + 2 * PINS - 1 |->
                 IF r % 2 = 0 THEN IOAPIC_MASKED ELSE 0]

mem == machine.mem

-----------------------------------------------------------------------------
acpi_locate_rsdp ==
  Min({a \in SCAN .. MEM_1MB - 1 : a \in Of(mem, {"rsdp", "copy"})})

(* acpi_init up to its loop.                                               *)
acpi_init ==
  /\ pc = "acpi"
  /\ pc' = "rsdt"
  /\ rsdt' = mem[acpi_locate_rsdp].rsdt
  /\ toc' = [apic_addr |-> NONE, apic |-> NONE, ioapic |-> NONE, irq_exception |-> NONE]
  /\ i' = 0
  /\ UNCHANGED <<machine, ics_start, ics_end, redtbl>>

entry_n == mem[rsdt].length - HDR
sdthdr == mem[rsdt].entry[i + 1]

SkipTable ==
  /\ pc = "rsdt" /\ i < entry_n /\ mem[sdthdr].kind # "madt"
  /\ i' = i + 1
  /\ UNCHANGED <<machine, pc, rsdt, ics_start, ics_end, toc, redtbl>>

(* madt_parse up to its loop.                                              *)
madt_parse ==
  /\ pc = "rsdt" /\ i < entry_n /\ mem[sdthdr].kind = "madt"
  /\ pc' = "madt"
  /\ toc' = [toc EXCEPT !.apic_addr = mem[sdthdr].apic_addr,
                        !.irq_exception = [s \in 0 .. PINS - 1 |-> NONE]]
  /\ ics_start' = sdthdr + HDR
  /\ ics_end' = sdthdr + mem[sdthdr].length
  /\ UNCHANGED <<machine, rsdt, i, redtbl>>

(* Seeded fault: an override is kept under the line it leads to.           *)
Parsed_ByTarget(t, e) ==
  CASE e.type = "LAPIC" -> [t EXCEPT !.apic = e]
    [] e.type = "IOAPIC" -> [t EXCEPT !.ioapic = e]
    [] e.type = "INTSO" -> [t EXCEPT !.irq_exception[e.gsi] = e]
    [] OTHER -> t

(* The switch: what entry e adds to the context t.                         *)
Parsed(t, e) ==
  CASE e.type = "LAPIC" -> [t EXCEPT !.apic = e]
    [] e.type = "IOAPIC" -> [t EXCEPT !.ioapic = e]
    [] e.type = "INTSO" -> [t EXCEPT !.irq_exception[e.source] = e]
    [] OTHER -> t

ParseEntry ==
  /\ pc = "madt" /\ ics_start < ics_end
  /\ toc' = Parsed(toc, mem[ics_start])
  /\ ics_start' = ics_start + mem[ics_start].length
  /\ UNCHANGED <<machine, pc, rsdt, i, ics_end, redtbl>>

ParseEnd ==
  /\ pc = "madt" /\ ics_start >= ics_end
  /\ pc' = "rsdt" /\ i' = i + 1
  /\ UNCHANGED <<machine, rsdt, ics_start, ics_end, toc, redtbl>>

AcpiDone ==
  /\ pc = "rsdt" /\ i >= entry_n
  /\ pc' = "devices"
  /\ UNCHANGED <<machine, rsdt, i, ics_start, ics_end, toc, redtbl>>

-----------------------------------------------------------------------------
ioapic_get_irq(old_irq) ==
  IF old_irq >= PINS THEN old_irq
  ELSE LET int_override == toc.irq_exception[old_irq]
       IN  IF int_override = NONE THEN old_irq ELSE int_override.gsi % 256

(* ioapic_redirect(ioapic_get_irq(RTC), RTC_TIMER_IV, 0, FIXED) writes the *)
(* low word of the entry, which unmasks it, and then the high word.        *)
reg_sel == (IOREDTBL_BASE + ioapic_get_irq(PC_AT_IRQ_RTC) * 2) % 256

RedirectLow ==
  /\ pc = "ioapic" /\ pc' = "ioapic_high"
  /\ redtbl' = [redtbl EXCEPT ![reg_sel] = RTC_TIMER_IV]
  /\ UNCHANGED <<machine, rsdt, i, ics_start, ics_end, toc>>

RedirectHigh ==
  /\ pc = "ioapic_high" /\ pc' = "timer"
  /\ redtbl' = [redtbl EXCEPT ![reg_sel + 1] = 0]
  /\ UNCHANGED <<machine, rsdt, i, ics_start, ics_end, toc>>

AcpiNext ==
  \/ acpi_init \/ SkipTable \/ madt_parse \/ ParseEntry \/ ParseEnd
  \/ AcpiDone \/ RedirectLow \/ RedirectHigh

-----------------------------------------------------------------------------
(* When calibration waits for the clock's ticks, they arrive on the pin    *)
(* the firmware says, and on no other, with the vector the kernel handles  *)
(* (ioapic.c:23-26, timer.c:105), whatever the order of the tables.        *)
RtcPins ==
  {e.gsi : e \in {o \in Ics(mem) : o.type = "INTSO" /\ o.source = PC_AT_IRQ_RTC}}

RtcRouted ==
  pc \in {"timer", "release", "main"} =>
    \A pin \in 0 .. PINS - 1 :
      redtbl[IOREDTBL_BASE + 2 * pin] = RTC_TIMER_IV
        <=> IF RtcPins = {} THEN pin = PC_AT_IRQ_RTC ELSE pin \in RtcPins
=============================================================================
