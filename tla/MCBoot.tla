------------------------------- MODULE MCBoot -------------------------------
(***************************************************************************)
(* Pages of 4 units and tables of 9 entries.  Physical pages: 0-2 released *)
(* low memory, 3 the page with the reserved hole, 4 VGA, 5 BIOS, 6-7       *)
(* hhk_init, 8-15 the kernel and its tables, 16 and up free, 22-24 ACPI.   *)
(***************************************************************************)
EXTENDS Boot, TLC

Region(addr, len, type) == [addr |-> addr, len |-> len, type |-> type]
Rsdp(at) == [kind |-> "rsdp", rsdt |-> at]
Rsdt(tables) == [kind |-> "rsdt", length |-> HDR + Len(tables), entry |-> tables]
Madt(length) == [kind |-> "madt", length |-> length, apic_addr |-> 240]
Ic(type, length, source, gsi, addr) ==
  [kind |-> "ics", type |-> type, length |-> length, source |-> source,
   gsi |-> gsi, ioapic_addr |-> addr]

(* An emulator: a hole in low memory, the flash at the very top.           *)
Emulator ==
  [mmap |-> <<Region(0, 13, "AVAILABLE"), Region(13, 3, "RESERVED"),
              Region(20, 4, "RESERVED"), Region(24, 64, "AVAILABLE"),
              Region(88, 8, "RECLAIMABLE"), Region(304, 20, "RESERVED")>>,
   mem |-> (21 :> Rsdp(88)) @@ (88 :> Rsdt(<<90>>)) @@ (90 :> Madt(5))
           @@ (91 :> Ic("LAPIC", 1, 0, 0, 0)) @@ (92 :> Ic("INTSO", 1, 0, 2, 0))
           @@ (93 :> Ic("IOAPIC", 2, 0, 0, 244))]

(* Hardware: memory ends inside of a page, the devices are in the map, the *)
(* clock's line is overridden, the signature occurs twice.                 *)
Hardware ==
  [mmap |-> <<Region(304, 20, "RESERVED"), Region(24, 67, "AVAILABLE"),
              Region(91, 9, "NVS"), Region(240, 8, "RESERVED"),
              Region(0, 16, "AVAILABLE")>>,
   mem |-> (20 :> Rsdp(91)) @@ (22 :> [kind |-> "copy", rsdt |-> 0])
           @@ (91 :> Rsdt(<<98, 94, 98>>))
           @@ (98 :> [kind |-> "facp"]) @@ (94 :> Madt(4))
           @@ (95 :> Ic("IOAPIC", 1, 0, 0, 244)) @@ (96 :> Ic("NMI", 1, 0, 0, 0))
           @@ (97 :> Ic("INTSO", 1, 8, 20, 0))]

MCMachines == {Emulator, Hardware}
=============================================================================
