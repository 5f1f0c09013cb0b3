----------------------------- MODULE VmmProofs -----------------------------
(***************************************************************************)
(* Theorems about Vmm, for every size of the tables, set of frames, boot   *)
(* map and set of requests.                                                *)
(*                                                                         *)
(* One thing is assumed of the run: the search of vmm_map_page does not    *)
(* stop in the recursive slot.  It does when all pages above the address   *)
(* asked for are taken while a page table below is missing, and then the   *)
(* page becomes a page table with old contents.                            *)
(***************************************************************************)
EXTENDS Vmm, TLAPS

SearchBelowTop ==
  \A k \in AllocVAs \cup DevVAs : \A e \in (ENTRIES * TOP) .. (ENTRIES * ENTRIES - 1) :
    ~(k <= e /\ SearchStops(k, e) /\ ~SearchFaults(k, e))

-----------------------------------------------------------------------------
(* Page tables as values: the frames m are a directory and its tables.     *)

Contents == Frames \cup {DIR, LOWT, PTE_NULL, JUNK}
UserSlots == Slots \ {TOP}

TablesOf(m) == {m[DIR][s] : s \in UserSlots} \ {PTE_NULL}
EntryOf(m, va) ==
  IF m[DIR][va[1]] = PTE_NULL THEN PTE_NULL ELSE m[m[DIR][va[1]]][va[2]]

ClearEntry(m, va) == [m EXCEPT ![m[DIR][va[1]]][va[2]] = PTE_NULL]

(* The directory leads to itself and to tables of its own.                 *)
Tree(m) ==
  /\ m \in [Pool \cup {DIR, LOWT} -> [Slots -> Contents]]
  /\ m[DIR][TOP] = DIR
  /\ \A s \in UserSlots : m[DIR][s] \in Pool \cup {LOWT, PTE_NULL}
  /\ \A s, t \in UserSlots : m[DIR][s] = m[DIR][t] /\ m[DIR][s] # PTE_NULL => s = t

(* Who has which frame: nobody the free ones, one the others.              *)
Ownership ==
  /\ free \subseteq Pool
  /\ Tables \cap free = {}
  /\ \A va \in UserVAs : Walk(va) \in Frames \cup {PTE_NULL}
  /\ \A va \in LiveVAs : Walk(va) \notin free \cup Tables
  /\ \A va, w \in LiveVAs : Walk(va) = Walk(w) /\ Walk(va) \in Pool => va = w

(* Where the calls are.                                                    *)
Control ==
  /\ pc \in {"idle", "alloc", "undo", "undo_clear", "clear", "fault"}
  /\ Unmapping => cur \in UserVAs /\ Table(cur) # PTE_NULL
  /\ pc \in {"idle", "clear"} => i = 0 /\ j = 0

(* What vmm_alloc_pages has mapped so far, and not unmapped again.         *)
Progress ==
  pc \in {"alloc", "undo", "undo_clear"} =>
    /\ va_ \in Nat /\ sz \in Nat /\ va_ + sz <= ENTRIES * TOP
    /\ i \in 0 .. sz /\ j \in 0 .. i
    /\ pc = "alloc" => j = 0
    /\ pc = "undo_clear" => j < i /\ cur = Slot(va_ + j)
    /\ before \in [UserVAs -> Contents]
    /\ \A va \in UserVAs :
         IF Num(va) \in (va_ + j) .. (va_ + i - 1)
         THEN before[va] = PTE_NULL /\ Walk(va) \in Pool
         ELSE Walk(va) = before[va]

(* Of a page that is not read ahead the cache holds what the tables say,   *)
(* and nothing while it is on its way out.                                 *)
Cached ==
  /\ tlb \in [UserVAs -> Contents]
  /\ \A va \in UserVAs : ~ReadsAhead(va) => tlb[va] \in {Walk(va), PTE_NULL}
  /\ Unmapping /\ ~ReadsAhead(cur) => tlb[cur] = PTE_NULL

IInv == Tree(mem) /\ Ownership /\ Control /\ Progress /\ Cached

-----------------------------------------------------------------------------
(* Numbers of virtual pages.                                               *)

(* Less than one directory of pages are a user's.                          *)
LEMMA SizeFacts ==
  /\ ENTRIES \in Nat /\ ENTRIES > 1 /\ TOP \in Nat /\ TOP = ENTRIES - 1
  /\ TOP \in Slots /\ 0 \in UserSlots
  /\ UserSlots = 0 .. (TOP - 1) /\ UserVAs = UserSlots \X Slots
<1>1. ENTRIES \in Nat /\ ENTRIES > 1
  BY VmmAssumption
<1>. QED
  BY <1>1 DEF TOP, Slots, UserSlots, UserVAs

(* A page number below the recursive slot is that of one user's page.      *)
LEMMA SlotOfNumber ==
  ASSUME NEW k \in Nat, k < ENTRIES * TOP
  PROVE  Slot(k) \in UserVAs /\ Num(Slot(k)) = k
<1>1. k \div ENTRIES \in Nat /\ k % ENTRIES \in 0 .. (ENTRIES - 1)
  BY SizeFacts
<1>2. k = ENTRIES * (k \div ENTRIES) + (k % ENTRIES)
  BY SizeFacts
<1>3. k \div ENTRIES < TOP
  <2>. DEFINE q == k \div ENTRIES
  <2>1. ENTRIES * q <= k /\ q \in Nat
    BY <1>1, <1>2, SizeFacts
  <2>. HIDE DEF q
  <2>2. ASSUME q >= TOP PROVE FALSE
    BY <2>1, <2>2, SizeFacts
  <2>. QED
    BY <2>1, <2>2, SizeFacts
<1>4. Slot(k) \in UserVAs
  BY <1>1, <1>3, SizeFacts DEF Slot, Slots
<1>5. Num(Slot(k)) = k
  BY <1>1, <1>2, SizeFacts DEF Slot, Num
<1>. QED
  BY <1>4, <1>5

(* And one of the directory's that is not its own is a user's page.        *)
LEMMA SlotBelowTop ==
  ASSUME NEW k \in Nat, k <= ENTRIES * ENTRIES - 1, k \div ENTRIES # TOP
  PROVE  Slot(k) \in UserVAs
<1>. DEFINE q == k \div ENTRIES
<1>1. q \in Nat /\ k % ENTRIES \in 0 .. (ENTRIES - 1)
  BY SizeFacts
<1>2. ENTRIES * q <= k
  BY SizeFacts
<1>3. q < TOP
  <2>. HIDE DEF q
  <2>1. ASSUME q >= ENTRIES PROVE FALSE
    BY <1>1, <1>2, <2>1, SizeFacts
  <2>2. q # TOP
    BY DEF q
  <2>. QED
    BY <1>1, <2>1, <2>2, SizeFacts
<1>. QED
  BY <1>1, <1>3, SizeFacts DEF Slot, Slots

(* Different pages have different numbers.                                 *)
LEMMA NumberOfSlot ==
  ASSUME NEW va \in UserVAs, NEW w \in UserVAs, Num(va) = Num(w)
  PROVE  va = w
<1>. DEFINE a == va[1]
            b == va[2]
            c == w[1]
            d == w[2]
<1>1. a \in UserSlots /\ b \in Slots /\ va = <<a, b>>
  BY SizeFacts
<1>2. c \in UserSlots /\ d \in Slots /\ w = <<c, d>>
  BY SizeFacts
<1>3. a \in Nat /\ b \in Nat /\ c \in Nat /\ d \in Nat /\ b < ENTRIES /\ d < ENTRIES
  BY <1>1, <1>2, SizeFacts DEF Slots
<1>4. a * ENTRIES + b = c * ENTRIES + d
  BY DEF Num
<1>. HIDE DEF a, b, c, d
<1>5. ASSUME NEW x \in Nat, NEW y \in Nat, x < y PROVE x * ENTRIES + ENTRIES <= y * ENTRIES
  <2>1. PICK n \in Nat : y = x + 1 + n
    BY <1>5
  <2>2. n * ENTRIES \in Nat
    BY SizeFacts
  <2>3. y * ENTRIES = x * ENTRIES + ENTRIES + n * ENTRIES
    BY <2>1, SizeFacts
  <2>4. x * ENTRIES \in Nat
    BY SizeFacts
  <2>. QED
    BY <2>2, <2>3, <2>4, SizeFacts
<1>6. a * ENTRIES \in Nat /\ c * ENTRIES \in Nat
  BY <1>3, SizeFacts
<1>7. ~(a < c)
  BY <1>3, <1>4, <1>5, <1>6, SizeFacts
<1>8. ~(c < a)
  BY <1>3, <1>4, <1>5, <1>6, SizeFacts
<1>9. a = c
  BY <1>3, <1>7, <1>8
<1>10. b = d
  BY <1>3, <1>4, <1>6, <1>9
<1>. QED
  BY <1>1, <1>2, <1>9, <1>10

(* Numbers are natural.                                                    *)
LEMMA NumberType ==
  ASSUME NEW va \in UserVAs
  PROVE  Num(va) \in Nat
BY SizeFacts DEF Num, Slots

-----------------------------------------------------------------------------
(* What a write to the tables does to the translations.                    *)

(* The frames in the tables are not the directory.                         *)
LEMMA TreeTables ==
  ASSUME NEW m, Tree(m)
  PROVE  /\ TablesOf(m) \subseteq Pool \cup {LOWT}
         /\ DIR \notin TablesOf(m) /\ PTE_NULL \notin TablesOf(m)
         /\ \A va \in UserVAs : m[DIR][va[1]] # PTE_NULL => m[DIR][va[1]] \in TablesOf(m)
BY VmmAssumption, SizeFacts DEF Tree, TablesOf, Frames

(* An entry is written: one translation changes.  The frame that is mapped *)
(* gets its owner's data, so it must not be a table.                       *)
LEMMA EntrySet ==
  ASSUME NEW m, Tree(m), NEW va \in UserVAs, m[DIR][va[1]] # PTE_NULL,
         NEW pa \in Frames, pa \notin TablesOf(m),
         NEW n, n = SetEntry(m, va, pa)
  PROVE  /\ Tree(n) /\ TablesOf(n) = TablesOf(m)
         /\ \A w \in UserVAs : EntryOf(n, w) = IF w = va THEN pa ELSE EntryOf(m, w)
<1>. DEFINE t == m[DIR][va[1]]
            o == [m EXCEPT ![t][va[2]] = pa]
<1>1. /\ t \in Pool \cup {LOWT} /\ t # DIR /\ pa # DIR /\ pa # LOWT /\ pa # t
      /\ va[1] \in UserSlots /\ va[2] \in Slots /\ TOP \in Slots
      /\ pa \in Contents /\ JUNK \in Contents /\ t \in TablesOf(m)
  BY VmmAssumption, SizeFacts, TreeTables DEF Tree, Frames, Contents, TablesOf
<1>2. /\ o \in [Pool \cup {DIR, LOWT} -> [Slots -> Contents]]
      /\ \A f \in Pool \cup {DIR, LOWT} : f # t => o[f] = m[f]
      /\ o[t] = [m[t] EXCEPT ![va[2]] = pa]
  BY <1>1 DEF Tree
<1>3. /\ n \in [Pool \cup {DIR, LOWT} -> [Slots -> Contents]]
      /\ \A f \in Pool \cup {DIR, LOWT} : f # pa => n[f] = o[f]
  <2>1. n = IF pa \in Pool THEN [o EXCEPT ![pa] = [s \in Slots |-> JUNK]] ELSE o
    BY DEF SetEntry
  <2>. HIDE DEF o
  <2>2. CASE pa \in Pool
    BY <2>1, <2>2, <1>1, <1>2
  <2>3. CASE pa \notin Pool
    BY <2>1, <2>3, <1>2
  <2>. QED
    BY <2>2, <2>3
<1>. HIDE DEF o
<1>4. n[DIR] = m[DIR]
  BY <1>1, <1>2, <1>3
<1>5. Tree(n) /\ TablesOf(n) = TablesOf(m)
  BY <1>3, <1>4 DEF Tree, TablesOf
<1>6. ASSUME NEW w \in UserVAs
      PROVE  EntryOf(n, w) = IF w = va THEN pa ELSE EntryOf(m, w)
  <2>. DEFINE u == m[DIR][w[1]]
  <2>1. CASE u = PTE_NULL
    BY <2>1, <1>4 DEF EntryOf
  <2>2. CASE u # PTE_NULL /\ u # t
    <3>1. u \in TablesOf(m) /\ u \in Pool \cup {LOWT}
      BY <2>2, TreeTables
    <3>2. n[u] = m[u]
      BY <2>2, <3>1, <1>2, <1>3
    <3>. QED
      BY <2>2, <3>2, <1>4 DEF EntryOf
  <2>3. CASE u = t
    <3>1. w[1] = va[1]
      BY <2>3, <1>1, SizeFacts DEF Tree
    <3>2. n[t] = [m[t] EXCEPT ![va[2]] = pa]
      BY <1>1, <1>2, <1>3
    <3>3. EntryOf(n, w) = n[t][w[2]] /\ EntryOf(m, w) = m[t][w[2]]
      BY <2>3, <1>4 DEF EntryOf
    <3>4. w = va <=> w[2] = va[2]
      BY <3>1, SizeFacts
    <3>5. m[t] \in [Slots -> Contents] /\ w[2] \in Slots
      BY <1>1, SizeFacts DEF Tree
    <3>. QED
      BY <3>2, <3>3, <3>4, <3>5, <1>1
  <2>. QED
    BY <2>1, <2>2, <2>3
<1>. QED
  BY <1>5, <1>6

(* An entry is cleared: one page is gone, the tables stay.                 *)
LEMMA EntryCleared ==
  ASSUME NEW m, Tree(m), NEW va \in UserVAs, m[DIR][va[1]] # PTE_NULL,
         NEW n, n = ClearEntry(m, va)
  PROVE  /\ Tree(n) /\ TablesOf(n) = TablesOf(m) /\ n[DIR] = m[DIR]
         /\ \A w \in UserVAs : EntryOf(n, w) = IF w = va THEN PTE_NULL ELSE EntryOf(m, w)
<1>. DEFINE t == m[DIR][va[1]]
<1>1. /\ t \in Pool \cup {LOWT} /\ t # DIR /\ PTE_NULL \in Contents
      /\ va[1] \in UserSlots /\ va[2] \in Slots
  BY VmmAssumption, SizeFacts DEF Tree, Frames, Contents
<1>2. /\ n \in [Pool \cup {DIR, LOWT} -> [Slots -> Contents]]
      /\ \A f \in Pool \cup {DIR, LOWT} : f # t => n[f] = m[f]
      /\ n[t] = [m[t] EXCEPT ![va[2]] = PTE_NULL]
  BY <1>1 DEF Tree, ClearEntry
<1>3. n[DIR] = m[DIR]
  BY <1>1, <1>2
<1>4. Tree(n) /\ TablesOf(n) = TablesOf(m)
  BY <1>2, <1>3 DEF Tree, TablesOf
<1>5. ASSUME NEW w \in UserVAs
      PROVE  EntryOf(n, w) = IF w = va THEN PTE_NULL ELSE EntryOf(m, w)
  <2>. DEFINE u == m[DIR][w[1]]
  <2>1. CASE u = PTE_NULL
    BY <2>1, <1>3 DEF EntryOf
  <2>2. CASE u # PTE_NULL /\ u # t
    <3>1. u \in Pool \cup {LOWT}
      BY <2>2, SizeFacts DEF Tree
    <3>. QED
      BY <2>2, <3>1, <1>2, <1>3 DEF EntryOf
  <2>3. CASE u = t
    <3>1. w[1] = va[1]
      BY <2>3, <1>1, SizeFacts DEF Tree
    <3>2. EntryOf(n, w) = n[t][w[2]] /\ EntryOf(m, w) = m[t][w[2]]
      BY <2>3, <1>3 DEF EntryOf
    <3>3. w = va <=> w[2] = va[2]
      BY <3>1, SizeFacts
    <3>4. m[t] \in [Slots -> Contents] /\ w[2] \in Slots
      BY <1>1, SizeFacts DEF Tree
    <3>. QED
      BY <3>2, <3>3, <3>4, <1>1, <1>2
  <2>. QED
    BY <2>1, <2>2, <2>3
<1>. QED
  BY <1>3, <1>4, <1>5

(* A zeroed frame that is no table yet becomes one: no translation changes. *)
LEMMA NewTable ==
  ASSUME NEW m, Tree(m), NEW va \in UserVAs, m[DIR][va[1]] = PTE_NULL,
         NEW t \in Pool, t \notin TablesOf(m),
         NEW n, n = SetTable(m, va, t)
  PROVE  /\ Tree(n) /\ n[DIR][va[1]] = t /\ t # PTE_NULL
         /\ TablesOf(n) = TablesOf(m) \cup {t}
         /\ \A w \in UserVAs : EntryOf(n, w) = EntryOf(m, w)
<1>1. /\ t # DIR /\ t # PTE_NULL /\ t \in Contents /\ PTE_NULL \in Contents
      /\ va[1] \in UserSlots /\ va[1] \in Slots /\ TOP \in Slots \ UserSlots
  BY VmmAssumption, SizeFacts DEF Frames, Contents, UserSlots
<1>2. /\ n \in [Pool \cup {DIR, LOWT} -> [Slots -> Contents]]
      /\ \A f \in Pool \cup {DIR, LOWT} : f \notin {t, DIR} => n[f] = m[f]
      /\ n[t] = EmptyTable
      /\ n[DIR] = [m[DIR] EXCEPT ![va[1]] = t]
  BY <1>1 DEF Tree, SetTable, EmptyTable
<1>3. m[DIR] \in [Slots -> Contents]
  BY DEF Tree
<1>4. n[DIR][va[1]] = t /\ \A s \in Slots : s # va[1] => n[DIR][s] = m[DIR][s]
  BY <1>1, <1>2, <1>3
<1>5. \A s \in UserSlots : m[DIR][s] # t
  BY <1>1 DEF TablesOf
<1>6. Tree(n)
  <2>1. n[DIR][TOP] = DIR
    BY <1>1, <1>4 DEF Tree
  <2>2. \A s \in UserSlots : n[DIR][s] \in Pool \cup {LOWT, PTE_NULL}
    BY <1>4 DEF Tree, UserSlots
  <2>3. ASSUME NEW s \in UserSlots, NEW r \in UserSlots,
               n[DIR][s] = n[DIR][r], n[DIR][s] # PTE_NULL
        PROVE  s = r
    BY <2>3, <1>4, <1>5 DEF Tree, UserSlots
  <2>. QED
    BY <1>2, <2>1, <2>2, <2>3 DEF Tree
<1>7. TablesOf(n) = TablesOf(m) \cup {t}
  <2>1. TablesOf(n) \subseteq TablesOf(m) \cup {t}
    BY <1>4 DEF TablesOf, UserSlots
  <2>2. t \in TablesOf(n)
    BY <1>1, <1>4 DEF TablesOf
  <2>3. ASSUME NEW u \in TablesOf(m) PROVE u \in TablesOf(n)
    <3>1. PICK s \in UserSlots : u = m[DIR][s] /\ u # PTE_NULL
      BY DEF TablesOf
    <3>2. s # va[1] /\ s \in Slots
      BY <3>1 DEF UserSlots
    <3>. QED
      BY <3>1, <3>2, <1>4 DEF TablesOf
  <2>. QED
    BY <2>1, <2>2, <2>3
<1>8. ASSUME NEW w \in UserVAs
      PROVE  EntryOf(n, w) = EntryOf(m, w)
  <2>1. w[1] \in UserSlots /\ w[1] \in Slots /\ w[2] \in Slots
    BY SizeFacts DEF UserSlots
  <2>2. CASE w[1] = va[1]
    <3>1. EntryOf(m, w) = PTE_NULL
      BY <2>2 DEF EntryOf
    <3>2. EntryOf(n, w) = n[t][w[2]]
      BY <2>2, <1>1, <1>4 DEF EntryOf
    <3>. QED
      BY <3>1, <3>2, <2>1, <1>2 DEF EmptyTable
  <2>3. CASE w[1] # va[1]
    <3>. DEFINE u == m[DIR][w[1]]
    <3>1. n[DIR][w[1]] = u
      BY <2>1, <2>3, <1>4
    <3>2. u # PTE_NULL => n[u] = m[u]
      <4>1. u # t /\ u # DIR /\ u \in Pool \cup {LOWT, PTE_NULL}
        BY <2>1, <1>5, VmmAssumption DEF Tree, Frames
      <4>. QED
        BY <4>1, <1>2
    <3>. QED
      BY <3>1, <3>2 DEF EntryOf
  <2>. QED
    BY <2>2, <2>3
<1>. QED
  BY <1>1, <1>4, <1>6, <1>7, <1>8

-----------------------------------------------------------------------------
(* The functions of vmm.c on the state.                                    *)

(* Walk and Tables are about the frames only.                              *)
LEMMA Views ==
  /\ Tables = TablesOf(mem) /\ Tables' = TablesOf(mem')
  /\ \A va \in UserVAs : Walk(va) = EntryOf(mem, va) /\ Walk(va)' = EntryOf(mem', va)
  /\ \A va \in UserVAs : Table(va) = mem[DIR][va[1]] /\ Table(va)' = mem'[DIR][va[1]]
BY DEF Tables, TablesOf, UserSlots, Walk, EntryOf, Table

(* Virtual page va now leads to pa, and the frames new are page tables.    *)
Mapped(va, pa, new) ==
  /\ Tree(mem') /\ Tables' = Tables \cup new
  /\ \A w \in UserVAs : Walk(w)' = IF w = va THEN pa ELSE Walk(w)

(* __vmm_map_internal changes nothing, or one translation; it takes a      *)
(* frame at most, and gives back the one it replaces.                      *)
LEMMA MapInternal ==
  ASSUME Tree(mem), NEW va \in UserVAs, NEW pa \in Frames, pa \notin Tables,
         NEW forced \in BOOLEAN, NEW ok \in BOOLEAN,
         NEW avail, avail \subseteq Pool \ Tables, pa \notin avail,
         __vmm_map_internal(va, pa, forced, avail, ok)
  PROVE  IF ok THEN /\ Walk(va) = PTE_NULL \/ forced
                    /\ \E new \in SUBSET avail :
                         Mapped(va, pa, new) /\ free' = (avail \ new) \cup Freed(Walk(va))
               ELSE mem' = mem /\ free' = avail
<1>1. Freed(PTE_NULL) = {}
  BY VmmAssumption DEF Freed, Frames
<1>2. CASE Table(va) = PTE_NULL /\ ok = FALSE /\ free' = avail /\ UNCHANGED mem
  BY <1>2
<1>3. ASSUME Table(va) = PTE_NULL, ok = TRUE,
             NEW t \in avail, free' = avail \ {t},
             mem' = SetEntry(SetTable(mem, va, t), va, pa)
      PROVE  /\ Walk(va) = PTE_NULL
             /\ Mapped(va, pa, {t}) /\ free' = (avail \ {t}) \cup Freed(Walk(va))
  <2>. DEFINE n == SetTable(mem, va, t)
  <2>1. mem[DIR][va[1]] = PTE_NULL /\ t \in Pool /\ t \notin TablesOf(mem)
    BY <1>3, Views
  <2>2. /\ Tree(n) /\ n[DIR][va[1]] = t /\ t # PTE_NULL
        /\ TablesOf(n) = TablesOf(mem) \cup {t}
        /\ \A w \in UserVAs : EntryOf(n, w) = EntryOf(mem, w)
    BY <2>1, NewTable
  <2>3. mem' = SetEntry(n, va, pa) /\ pa \notin TablesOf(n)
    BY <1>3, <2>2, Views
  <2>. HIDE DEF n
  <2>4. /\ Tree(mem') /\ TablesOf(mem') = TablesOf(n)
        /\ \A w \in UserVAs : EntryOf(mem', w) = IF w = va THEN pa ELSE EntryOf(n, w)
    BY <2>2, <2>3, EntrySet
  <2>5. Mapped(va, pa, {t})
    BY <2>2, <2>4, Views DEF Mapped
  <2>6. Walk(va) = PTE_NULL
    BY <1>3 DEF Walk
  <2>. QED
    BY <2>5, <2>6, <1>1, <1>3
<1>4. CASE Table(va) # PTE_NULL /\ ok = FALSE /\ free' = avail /\ UNCHANGED mem
  BY <1>4
<1>5. ASSUME Table(va) # PTE_NULL, Walk(va) = PTE_NULL \/ forced, ok = TRUE,
             free' = avail \cup Freed(Walk(va)), mem' = SetEntry(mem, va, pa)
      PROVE  Mapped(va, pa, {}) /\ free' = (avail \ {}) \cup Freed(Walk(va))
  <2>1. mem[DIR][va[1]] # PTE_NULL /\ pa \notin TablesOf(mem)
    BY <1>5, Views
  <2>2. /\ Tree(mem') /\ TablesOf(mem') = TablesOf(mem)
        /\ \A w \in UserVAs : EntryOf(mem', w) = IF w = va THEN pa ELSE EntryOf(mem, w)
    BY <2>1, <1>5, EntrySet
  <2>3. Mapped(va, pa, {})
    BY <2>2, Views DEF Mapped
  <2>. QED
    BY <2>3, <1>5
<1>. QED
  <2>1. CASE \E t \in avail : /\ Table(va) = PTE_NULL /\ ok = TRUE
                              /\ free' = avail \ {t}
                              /\ mem' = SetEntry(SetTable(mem, va, t), va, pa)
    <3>1. PICK t \in avail : /\ Table(va) = PTE_NULL /\ ok = TRUE
                             /\ free' = avail \ {t}
                             /\ mem' = SetEntry(SetTable(mem, va, t), va, pa)
      BY <2>1
    <3>2. {t} \in SUBSET avail
      OBVIOUS
    <3>. QED
      BY <3>1, <3>2, <1>3
  <2>2. CASE /\ Table(va) # PTE_NULL /\ (Walk(va) = PTE_NULL \/ forced) /\ ok = TRUE
             /\ free' = avail \cup Freed(Walk(va)) /\ mem' = SetEntry(mem, va, pa)
    <3>1. {} \in SUBSET avail
      OBVIOUS
    <3>. QED
      BY <2>2, <3>1, <1>5
  <2>3. \/ Table(va) = PTE_NULL /\ ok = FALSE /\ free' = avail /\ UNCHANGED mem
        \/ Table(va) # PTE_NULL /\ ok = FALSE /\ free' = avail /\ UNCHANGED mem
        \/ \E t \in avail : /\ Table(va) = PTE_NULL /\ ok = TRUE
                            /\ free' = avail \ {t}
                            /\ mem' = SetEntry(SetTable(mem, va, t), va, pa)
        \/ /\ Table(va) # PTE_NULL /\ (Walk(va) = PTE_NULL \/ forced) /\ ok = TRUE
           /\ free' = avail \cup Freed(Walk(va)) /\ mem' = SetEntry(mem, va, pa)
    BY DEF __vmm_map_internal
  <2>. QED
    BY <2>1, <2>2, <2>3, <1>2, <1>4

(* Outside an unmapping every mapped page is live.                         *)
LEMMA AllLive ==
  ASSUME pc \notin {"clear", "undo_clear"}
  PROVE  LiveVAs = {va \in UserVAs : Walk(va) # PTE_NULL}
BY DEF LiveVAs, Unmapping

(* Mapping a page keeps every frame with its one owner: the page is a      *)
(* device's, or the pmm has just given it.                                 *)
LEMMA MappingKeepsOwners ==
  ASSUME Tree(mem), Ownership,
         pc \notin {"clear", "undo_clear"}, pc' \notin {"clear", "undo_clear"},
         NEW va \in UserVAs, NEW pa, NEW forced \in BOOLEAN, NEW ok \in BOOLEAN,
         NEW avail,
         \/ pa \in free /\ avail = free \ {pa} /\ (forced => Walk(va) \notin Vga)
         \/ pa \in Vga \cup Mmio /\ avail = free /\ ~forced,
         __vmm_map_internal(va, pa, forced, avail, ok)
  PROVE  IF ok THEN /\ Walk(va) = PTE_NULL \/ forced
                    /\ Tree(mem') /\ Ownership'
                    /\ \A w \in UserVAs : Walk(w)' = IF w = va THEN pa ELSE Walk(w)
               ELSE mem' = mem /\ free' = avail
<1>1. /\ pa \in Frames /\ pa # PTE_NULL /\ pa \notin avail /\ avail \subseteq Pool \ Tables
      /\ avail \subseteq free
  BY VmmAssumption DEF Ownership, Frames
<1>2. pa \notin Tables
  <2>1. Tables \subseteq Pool \cup {LOWT}
    BY Views, TreeTables
  <2>. QED
    BY <2>1, VmmAssumption DEF Ownership, Frames
<1>0. IF ok THEN /\ Walk(va) = PTE_NULL \/ forced
                 /\ \E new \in SUBSET avail :
                      Mapped(va, pa, new) /\ free' = (avail \ new) \cup Freed(Walk(va))
            ELSE mem' = mem /\ free' = avail
  <2>1. pa \in Frames /\ pa \notin Tables /\ avail \subseteq Pool \ Tables /\ pa \notin avail
    BY <1>1, <1>2
  <2>. QED
    BY <2>1, MapInternal
<1>3. SUFFICES ASSUME NEW new \in SUBSET avail, ok, Walk(va) = PTE_NULL \/ forced,
                      Mapped(va, pa, new), free' = (avail \ new) \cup Freed(Walk(va))
               PROVE  Ownership'
  BY <1>0 DEF Mapped
<1>. DEFINE old == Walk(va)
<1>4. /\ Freed(old) \subseteq Pool
      /\ Freed(old) # {} => old \in Pool /\ Freed(old) = {old} /\ va \in LiveVAs
      /\ pa \notin Freed(old)
  <2>1. CASE old = PTE_NULL
    BY <2>1, VmmAssumption DEF Freed, Frames
  <2>2. CASE forced /\ old # PTE_NULL
    <3>1. va \in LiveVAs /\ old \notin free /\ old \notin Vga
      BY <2>2, AllLive DEF Ownership
    <3>. QED
      BY <2>2, <3>1 DEF Freed
  <2>. QED
    BY <1>3, <2>1, <2>2
<1>5. \A f \in Freed(old) : f \notin free \cup Tables
  BY <1>4 DEF Ownership
<1>6. LiveVAs = {w \in UserVAs : Walk(w) # PTE_NULL}
  BY AllLive
<1>7. LiveVAs' = {w \in UserVAs : Walk(w)' # PTE_NULL}
  BY DEF LiveVAs, Unmapping
<1>8. \A w \in UserVAs : Walk(w)' = IF w = va THEN pa ELSE Walk(w)
  BY <1>3 DEF Mapped
<1>9. Tables' = Tables \cup new
  BY <1>3 DEF Mapped
<1>10. \A w \in UserVAs \ {va} : w \in LiveVAs' <=> w \in LiveVAs
  BY <1>6, <1>7, <1>8
<1>11. free' \subseteq Pool /\ Tables' \cap free' = {}
  BY <1>1, <1>3, <1>4, <1>5, <1>9 DEF Ownership
<1>12. \A w \in UserVAs : Walk(w)' \in Frames \cup {PTE_NULL}
  BY <1>1, <1>8 DEF Ownership
<1>13. ASSUME NEW w \in LiveVAs' PROVE Walk(w)' \notin free' \cup Tables'
  <2>1. CASE w = va
    BY <2>1, <1>1, <1>2, <1>3, <1>4, <1>7, <1>8, <1>9
  <2>2. CASE w # va
    <3>1. w \in LiveVAs /\ Walk(w)' = Walk(w) /\ w \in UserVAs
      BY <2>2, <1>7, <1>8, <1>10
    <3>2. Walk(w) \notin Freed(old)
      BY <2>2, <3>1, <1>4 DEF Ownership
    <3>3. Walk(w) \notin free \cup Tables
      BY <3>1 DEF Ownership
    <3>. QED
      BY <3>1, <3>2, <3>3, <1>1, <1>3, <1>9
  <2>. QED
    BY <2>1, <2>2
<1>14. ASSUME NEW w \in LiveVAs', NEW x \in LiveVAs',
              Walk(w)' = Walk(x)', Walk(w)' \in Pool
       PROVE  w = x
  <2>1. w \in UserVAs /\ x \in UserVAs
    BY <1>7
  <2>2. pa \in Pool => pa \in free
    BY VmmAssumption
  <2>3. \A y \in UserVAs \ {va} : y \in LiveVAs' => Walk(y)' \notin free /\ Walk(y)' = Walk(y)
    BY <1>8, <1>10 DEF Ownership
  <2>4. CASE w = va
    BY <2>1, <2>2, <2>3, <2>4, <1>8, <1>14
  <2>5. CASE x = va
    BY <2>1, <2>2, <2>3, <2>5, <1>8, <1>14
  <2>6. CASE w # va /\ x # va
    BY <2>1, <2>3, <2>6, <1>10, <1>14 DEF Ownership
  <2>. QED
    BY <2>4, <2>5, <2>6
<1>. QED
  BY <1>11, <1>12, <1>13, <1>14 DEF Ownership

(* Steps that leave the tables alone leave the translations alone, and     *)
(* lose frames at most.                                                    *)
LEMMA SameTables ==
  ASSUME Tree(mem), Ownership, mem' = mem, free' \subseteq free,
         pc \notin {"clear", "undo_clear"}, pc' \notin {"clear", "undo_clear"}
  PROVE  /\ Tree(mem') /\ Ownership'
         /\ \A w \in UserVAs : Walk(w)' = Walk(w) /\ Table(w)' = Table(w)
<1>1. \A w \in UserVAs : Walk(w)' = Walk(w) /\ Table(w)' = Table(w)
  BY DEF Walk, Table
<1>2. Tables' = Tables
  BY DEF Tables
<1>3. LiveVAs' = LiveVAs
  <2>1. LiveVAs' = {va \in UserVAs : Walk(va)' # PTE_NULL}
    BY DEF LiveVAs, Unmapping
  <2>. QED
    BY <2>1, <1>1, AllLive
<1>4. \A w \in LiveVAs : w \in UserVAs
  BY DEF LiveVAs
<1>5. free' \subseteq Pool /\ Tables' \cap free' = {}
  BY <1>2 DEF Ownership
<1>6. \A w \in UserVAs : Walk(w)' \in Frames \cup {PTE_NULL}
  BY <1>1 DEF Ownership
<1>7. \A w \in LiveVAs' : Walk(w)' \notin free' \cup Tables'
  BY <1>1, <1>2, <1>3, <1>4 DEF Ownership
<1>8. \A w, x \in LiveVAs' : Walk(w)' = Walk(x)' /\ Walk(w)' \in Pool => w = x
  BY <1>1, <1>3, <1>4 DEF Ownership
<1>. QED
  BY <1>1, <1>5, <1>6, <1>7, <1>8 DEF Ownership

(* The first half of vmm_unmap_page: the page is not live any more.        *)
LEMMA Unmapped ==
  ASSUME Tree(mem), Ownership, pc \notin {"clear", "undo_clear"},
         NEW next \in {"clear", "undo_clear"},
         NEW va \in VAs, Walk(va) \notin Vga, vmm_unmap_page(va, next), mem' = mem
  PROVE  /\ va \in UserVAs /\ Tree(mem') /\ Ownership'
         /\ \A w \in UserVAs : Walk(w)' = Walk(w) /\ Table(w)' = Table(w)
<1>1. /\ va \in UserVAs /\ free' = free \cup Freed(Walk(va)) /\ cur' = va /\ pc' = next
  BY SizeFacts DEF vmm_unmap_page, VAs, UserVAs, UserSlots, Slots
<1>2. \A w \in UserVAs : Walk(w)' = Walk(w) /\ Table(w)' = Table(w)
  BY DEF Walk, Table
<1>3. Tables' = Tables
  BY DEF Tables
<1>4. LiveVAs' = LiveVAs \ {va}
  <2>1. LiveVAs' = {w \in UserVAs : Walk(w)' # PTE_NULL /\ w # va}
    BY <1>1 DEF LiveVAs, Unmapping
  <2>. QED
    BY <2>1, <1>2, AllLive
<1>5. /\ Freed(Walk(va)) \subseteq Pool
      /\ \A f \in Freed(Walk(va)) : f = Walk(va) /\ f \in Pool /\ va \in LiveVAs
  <2>1. Freed(Walk(va)) \subseteq {Walk(va)} \cap (Pool \cup Vga)
    BY DEF Freed
  <2>2. ASSUME NEW f \in Freed(Walk(va)) PROVE f = Walk(va) /\ f \in Pool /\ va \in LiveVAs
    <3>1. f = Walk(va) /\ f \in Pool
      BY <2>1
    <3>2. f # PTE_NULL
      BY <3>1, VmmAssumption DEF Frames
    <3>. QED
      BY <1>1, <3>1, <3>2, AllLive
  <2>. QED
    BY <2>2
<1>6. free' \subseteq Pool /\ Tables' \cap free' = {}
  BY <1>1, <1>3, <1>5 DEF Ownership
<1>7. \A w \in UserVAs : Walk(w)' \in Frames \cup {PTE_NULL}
  BY <1>2 DEF Ownership
<1>8. ASSUME NEW w \in LiveVAs' PROVE Walk(w)' \notin free' \cup Tables'
  <2>1. w \in LiveVAs /\ w # va /\ w \in UserVAs
    BY <1>4 DEF LiveVAs
  <2>2. Walk(w) \notin Freed(Walk(va))
    BY <2>1, <1>5 DEF Ownership
  <2>3. Walk(w) \notin free \cup Tables
    BY <2>1 DEF Ownership
  <2>. QED
    BY <2>1, <2>2, <2>3, <1>1, <1>2, <1>3
<1>9. ASSUME NEW w \in LiveVAs', NEW x \in LiveVAs', Walk(w)' = Walk(x)', Walk(w)' \in Pool
      PROVE  w = x
  <2>1. w \in LiveVAs /\ x \in LiveVAs /\ w \in UserVAs /\ x \in UserVAs
    BY <1>4 DEF LiveVAs
  <2>. QED
    BY <2>1, <1>2, <1>9 DEF Ownership
<1>. QED
  BY <1>1, <1>2, <1>6, <1>7, <1>8, <1>9 DEF Ownership

(* The second half: the entry is cleared, and every mapped page is live.   *)
LEMMA ClearedKeepsOwners ==
  ASSUME Tree(mem), Ownership, pc \in {"clear", "undo_clear"},
         pc' \notin {"clear", "undo_clear"},
         cur \in UserVAs, Table(cur) # PTE_NULL,
         mem' = [mem EXCEPT ![Table(cur)][cur[2]] = PTE_NULL], free' = free
  PROVE  /\ Tree(mem') /\ Ownership'
         /\ \A w \in UserVAs : Walk(w)' = IF w = cur THEN PTE_NULL ELSE Walk(w)
<1>1. mem[DIR][cur[1]] # PTE_NULL
      /\ mem' = ClearEntry(mem, cur)
  BY DEF Table, ClearEntry
<1>2. /\ Tree(mem') /\ TablesOf(mem') = TablesOf(mem)
      /\ \A w \in UserVAs :
           EntryOf(mem', w) = IF w = cur THEN PTE_NULL ELSE EntryOf(mem, w)
  <2>1. PICK v, m, n : v \in UserVAs /\ v = cur /\ m = mem /\ n = mem'
    OBVIOUS
  <2>2. v \in UserVAs /\ Tree(m) /\ m[DIR][v[1]] # PTE_NULL /\ n = ClearEntry(m, v)
    BY <1>1, <2>1
  <2>3. /\ Tree(n) /\ TablesOf(n) = TablesOf(m)
        /\ \A w \in UserVAs : EntryOf(n, w) = IF w = v THEN PTE_NULL ELSE EntryOf(m, w)
    BY <2>2, EntryCleared
  <2>. QED
    BY <2>1, <2>3
<1>3. Tables' = Tables
  BY <1>2, Views
<1>4. \A w \in UserVAs : Walk(w)' = IF w = cur THEN PTE_NULL ELSE Walk(w)
  BY <1>2, Views
<1>5. LiveVAs' = LiveVAs
  <2>1. LiveVAs' = {w \in UserVAs : Walk(w)' # PTE_NULL}
    BY DEF LiveVAs, Unmapping
  <2>2. LiveVAs = {w \in UserVAs : Walk(w) # PTE_NULL /\ w # cur}
    BY DEF LiveVAs, Unmapping
  <2>. QED
    BY <2>1, <2>2, <1>4
<1>6. \A w \in LiveVAs : w \in UserVAs /\ Walk(w)' = Walk(w)
  <2>1. \A w \in LiveVAs : w \in UserVAs /\ w # cur
    BY DEF LiveVAs, Unmapping
  <2>. QED
    BY <2>1, <1>4
<1>7. free' \subseteq Pool /\ Tables' \cap free' = {}
  BY <1>3 DEF Ownership
<1>8. \A w \in UserVAs : Walk(w)' \in Frames \cup {PTE_NULL}
  BY <1>4 DEF Ownership
<1>9. \A w \in LiveVAs' : Walk(w)' \notin free' \cup Tables'
  BY <1>3, <1>5, <1>6 DEF Ownership
<1>10. \A w, x \in LiveVAs' : Walk(w)' = Walk(x)' /\ Walk(w)' \in Pool => w = x
  BY <1>5, <1>6 DEF Ownership
<1>. QED
  BY <1>2, <1>4, <1>7, <1>8, <1>9, <1>10 DEF Ownership

-----------------------------------------------------------------------------
(* The invariant.                                                          *)

(* It holds after boot: the identity map is the only page table.           *)
LEMMA InitIInv == Init => IInv
<1>. SUFFICES ASSUME Init PROVE IInv
  OBVIOUS
<1>1. /\ DIR \in Pool \cup {DIR, LOWT} /\ LOWT \in Pool \cup {DIR, LOWT}
      /\ LOWT # DIR /\ LOWT # PTE_NULL /\ DIR # PTE_NULL
      /\ LowMap \in [Slots -> Frames \cup {PTE_NULL}]
      /\ {DIR, LOWT, PTE_NULL, JUNK} \subseteq Contents /\ Frames \subseteq Contents
      /\ TOP \in Slots /\ TOP # 0 /\ 0 \in UserSlots
  BY VmmAssumption, SizeFacts DEF Contents
<1>2. /\ mem[DIR] = [s \in Slots |-> IF s = 0 THEN LOWT
                                     ELSE IF s = TOP THEN DIR ELSE PTE_NULL]
      /\ mem[LOWT] = LowMap
  BY <1>1 DEF Init
<1>3. mem \in [Pool \cup {DIR, LOWT} -> [Slots -> Contents]]
  <2>. DEFINE c(f) == IF f = DIR THEN [s \in Slots |-> IF s = 0 THEN LOWT
                                          ELSE IF s = TOP THEN DIR ELSE PTE_NULL]
                      ELSE IF f = LOWT THEN LowMap ELSE [s \in Slots |-> JUNK]
  <2>1. ASSUME NEW f \in Pool \cup {DIR, LOWT} PROVE c(f) \in [Slots -> Contents]
    <3>1. [s \in Slots |-> IF s = 0 THEN LOWT ELSE IF s = TOP THEN DIR ELSE PTE_NULL]
            \in [Slots -> Contents]
      BY <1>1
    <3>2. LowMap \in [Slots -> Contents] /\ [s \in Slots |-> JUNK] \in [Slots -> Contents]
      BY <1>1
    <3>. QED
      BY <3>1, <3>2
  <2>2. mem = [f \in Pool \cup {DIR, LOWT} |-> c(f)]
    BY DEF Init
  <2>. HIDE DEF c
  <2>. QED
    BY <2>1, <2>2
<1>4. \A s \in UserSlots : mem[DIR][s] = IF s = 0 THEN LOWT ELSE PTE_NULL
  BY <1>2 DEF UserSlots
<1>5. Tree(mem)
  BY <1>1, <1>2, <1>3, <1>4 DEF Tree
<1>6. Tables = {LOWT}
  BY <1>1, <1>4 DEF Tables, UserSlots
<1>7. \A va \in UserVAs : Walk(va) = IF va[1] = 0 THEN LowMap[va[2]] ELSE PTE_NULL
  <2>1. \A va \in UserVAs : va[1] \in UserSlots
    BY SizeFacts
  <2>. QED
    BY <2>1, <1>1, <1>2, <1>4 DEF Walk, Table
<1>8. pc = "idle" /\ free = {f \in Pool : \A s \in Slots : LowMap[s] # f}
  BY DEF Init
<1>9. LiveVAs = {va \in UserVAs : Walk(va) # PTE_NULL}
  BY <1>8, AllLive
<1>10. \A va \in LiveVAs : /\ va[1] = 0 /\ va[2] \in Slots /\ va = <<0, va[2]>>
                           /\ Walk(va) = LowMap[va[2]] /\ Walk(va) \in Frames
  <2>1. ASSUME NEW va \in LiveVAs
        PROVE  va \in UserVAs /\ va[1] = 0 /\ Walk(va) = LowMap[va[2]] /\ Walk(va) # PTE_NULL
    BY <1>7, <1>9
  <2>2. \A va \in UserVAs : va[2] \in Slots /\ va = <<va[1], va[2]>>
    BY SizeFacts
  <2>. QED
    BY <2>1, <2>2, <1>1
<1>11. Ownership
  <2>1. free \subseteq Pool /\ Tables \cap free = {}
    BY <1>6, <1>8, VmmAssumption DEF Frames
  <2>2. \A va \in UserVAs : Walk(va) \in Frames \cup {PTE_NULL}
    <3>1. \A va \in UserVAs : va[2] \in Slots
      BY SizeFacts
    <3>. QED
      BY <3>1, <1>1, <1>7
  <2>3. \A va \in LiveVAs : Walk(va) \notin free \cup Tables
    <3>1. \A va \in LiveVAs : Walk(va) \notin free
      BY <1>8, <1>10
    <3>2. LOWT \notin Frames
      BY VmmAssumption
    <3>. QED
      BY <3>1, <3>2, <1>6, <1>10
  <2>4. ASSUME NEW va \in LiveVAs, NEW w \in LiveVAs, Walk(va) = Walk(w), Walk(va) \in Pool
        PROVE  va = w
    <3>1. va[2] = w[2]
      BY <2>4, <1>10, VmmAssumption
    <3>. QED
      BY <3>1, <1>10
  <2>. QED
    BY <2>1, <2>2, <2>3, <2>4 DEF Ownership
<1>12. Control
  BY DEF Init, Control, Unmapping
<1>13. Progress
  BY <1>8 DEF Progress
<1>14. Cached
  BY <1>1, <1>8 DEF Init, NoSpace, Cached, Unmapping
<1>. QED
  BY <1>5, <1>11, <1>12, <1>13, <1>14 DEF IInv

(* A step changes the translation of one page at most, and takes an old    *)
(* one out of the cache unless it is the store of vmm_unmap_page.          *)
OneChange ==
  \E va \in UserVAs :
    /\ \A w \in UserVAs \ {va} : Walk(w)' = Walk(w)
    /\ \/ Walk(va)' = Walk(va) \/ Walk(va) = PTE_NULL
       \/ tlb'[va] = PTE_NULL
       \/ Unmapping /\ va = cur

(* Some page there is.                                                     *)
LEMMA NoChange ==
  ASSUME \A w \in UserVAs : Walk(w)' = Walk(w)
  PROVE  OneChange
<1>1. <<0, 0>> \in UserVAs
  BY SizeFacts DEF UserSlots
<1>. QED
  BY <1>1 DEF OneChange

(* Between calls a page is mapped, and nothing stale stays in the cache.   *)
LEMMA IdleMapping ==
  ASSUME IInv, pc = "idle", UNCHANGED <<pc, locals>>,
         NEW va \in UserVAs, NEW pa, NEW forced \in BOOLEAN, NEW ok \in BOOLEAN,
         NEW avail,
         \/ pa \in free /\ avail = free \ {pa} /\ (forced => Walk(va) \notin Vga)
         \/ pa \in Vga \cup Mmio /\ avail = free /\ ~forced,
         __vmm_map_internal(va, pa, forced, avail, ok),
         \/ tlb' = tlb /\ ~forced
         \/ tlb' = [tlb EXCEPT ![va] = PTE_NULL]
  PROVE  IInv' /\ OneChange
<1>1. Tree(mem) /\ Ownership /\ Control /\ Cached
  BY DEF IInv
<1>2. pc' = "idle" /\ i' = i /\ j' = j
  BY DEF locals
<1>3. Control' /\ Progress'
  BY <1>1, <1>2 DEF Control, Progress, Unmapping
<1>4. tlb' \in [UserVAs -> Contents]
  BY <1>1 DEF Cached, Contents
<1>5. ~Unmapping'
  BY <1>2 DEF Unmapping
<1>6. CASE ~ok
  <2>1. mem' = mem /\ free' \subseteq free
    BY <1>1, <1>2, <1>6, MappingKeepsOwners
  <2>2. Tree(mem') /\ Ownership' /\ \A w \in UserVAs : Walk(w)' = Walk(w)
    BY <2>1, <1>1, <1>2, SameTables
  <2>3. Cached'
    <3>1. \A w \in UserVAs : ~ReadsAhead(w) => tlb'[w] \in {Walk(w)', PTE_NULL}
      BY <2>2, <1>1 DEF Cached
    <3>. QED
      BY <3>1, <1>4, <1>5 DEF Cached
  <2>. QED
    BY <2>2, <2>3, <1>3, NoChange DEF IInv
<1>7. CASE ok
  <2>1. /\ Walk(va) = PTE_NULL \/ forced
        /\ Tree(mem') /\ Ownership'
        /\ \A w \in UserVAs : Walk(w)' = IF w = va THEN pa ELSE Walk(w)
    BY <1>1, <1>2, <1>7, MappingKeepsOwners
  <2>2. Cached'
    <3>1. ASSUME NEW w \in UserVAs, ~ReadsAhead(w) PROVE tlb'[w] \in {Walk(w)', PTE_NULL}
      <4>1. tlb[w] \in {Walk(w), PTE_NULL}
        BY <3>1, <1>1 DEF Cached
      <4>2. CASE w # va
        BY <4>1, <4>2, <2>1, <1>1 DEF Cached
      <4>3. CASE w = va
        BY <4>1, <4>3, <2>1, <1>1 DEF Cached
      <4>. QED
        BY <4>2, <4>3
    <3>. QED
      BY <3>1, <1>4, <1>5 DEF Cached
  <2>3. Walk(va) = PTE_NULL \/ tlb'[va] = PTE_NULL
    BY <2>1, <1>1 DEF Cached
  <2>. QED
    BY <2>1, <2>2, <2>3, <1>3 DEF IInv, OneChange
<1>. QED
  BY <1>6, <1>7

(* vmm_map_page between calls: the entry it finds is a user's page.        *)
LEMMA MapPageStep ==
  ASSUME IInv, SearchBelowTop, pc = "idle", UNCHANGED <<tlb, pc, locals>>,
         NEW k \in AllocVAs \cup DevVAs, NEW pa, NEW ok \in BOOLEAN, NEW avail,
         \/ pa \in free /\ avail = free \ {pa}
         \/ pa \in Vga \cup Mmio /\ avail = free,
         vmm_map_page(k, pa, avail, ok)
  PROVE  IInv' /\ OneChange
<1>1. PICK e \in k .. (ENTRIES * ENTRIES) :
        /\ SearchStops(k, e) /\ ~SearchFaults(k, e)
        /\ __vmm_map_internal(Slot(e), pa, FALSE, avail, ok)
  BY DEF vmm_map_page
<1>2. k \in Nat /\ ENTRIES * ENTRIES \in Nat /\ ENTRIES * TOP \in Nat
  <2>1. k \in 1 .. (ENTRIES * TOP - 1)
    BY VmmAssumption
  <2>. QED
    BY <2>1, SizeFacts
<1>3. e \in Nat /\ k <= e /\ e <= ENTRIES * ENTRIES
  BY <1>2
<1>4. e # ENTRIES * ENTRIES
  BY <1>1 DEF SearchFaults
<1>5. e \notin (ENTRIES * TOP) .. (ENTRIES * ENTRIES - 1)
  BY <1>1, <1>3 DEF SearchBelowTop
<1>6. e < ENTRIES * TOP
  BY <1>2, <1>3, <1>4, <1>5
<1>7. Slot(e) \in UserVAs
  BY <1>3, <1>6, SlotOfNumber
<1>8. UNCHANGED <<pc, locals>> /\ tlb' = tlb
  OBVIOUS
<1>. QED
  BY <1>1, <1>7, <1>8, IdleMapping

(* MapFault: the machine stops where it is.                                *)
LEMMA FaultStep ==
  ASSUME IInv, pc = "idle", NEW k, MapFault(k)
  PROVE  IInv' /\ OneChange
<1>1. Tree(mem) /\ Ownership /\ Control /\ Cached
  BY DEF IInv
<1>2. mem' = mem /\ free' = free /\ tlb' = tlb /\ pc' = "fault" /\ i' = i /\ j' = j
  BY DEF MapFault, locals
<1>3. Tree(mem') /\ Ownership' /\ \A w \in UserVAs : Walk(w)' = Walk(w)
  BY <1>1, <1>2, SameTables
<1>4. Control' /\ Progress'
  BY <1>2 DEF Control, Progress, Unmapping
<1>5. Cached'
  BY <1>1, <1>2, <1>3 DEF Cached, Unmapping
<1>. QED
  BY <1>3, <1>4, <1>5, NoChange DEF IInv

(* setup_memory maps a device page, or the machine stops.                  *)
LEMMA MapDeviceStep ==
  ASSUME IInv, SearchBelowTop, NEW k \in DevVAs, NEW f \in Vga \cup Mmio, MapDevice(k, f)
  PROVE  IInv' /\ OneChange
<1>1. CASE MapFault(k)
  BY <1>1, FaultStep DEF MapDevice
<1>2. ASSUME NEW ok \in BOOLEAN, vmm_map_page(k, f, free, ok), UNCHANGED <<tlb, pc, locals>>
      PROVE  IInv' /\ OneChange
  BY <1>2, MapPageStep DEF MapDevice
<1>. QED
  BY <1>1, <1>2 DEF MapDevice

(* vmm_alloc_page maps a frame the pmm has just given.                     *)
LEMMA AllocPageStep ==
  ASSUME IInv, SearchBelowTop, NEW k \in AllocVAs, vmm_alloc_page(k)
  PROVE  IInv' /\ OneChange
<1>1. CASE MapFault(k)
  BY <1>1, FaultStep DEF vmm_alloc_page
<1>2. ASSUME NEW pp \in free, vmm_map_page(k, pp, free \ {pp}, TRUE), UNCHANGED <<tlb, pc, locals>>
      PROVE  IInv' /\ OneChange
  BY <1>2, MapPageStep DEF vmm_alloc_page
<1>. QED
  BY <1>1, <1>2 DEF vmm_alloc_page

(* vmm_fmap_page replaces one, and invalidates the translation.            *)
LEMMA FmapPageStep ==
  ASSUME IInv, NEW k \in AllocVAs, vmm_fmap_page(k)
  PROVE  IInv' /\ OneChange
<1>1. k \in Nat /\ k < ENTRIES * TOP
  <2>1. k \in 1 .. (ENTRIES * TOP - 1) /\ ENTRIES * TOP \in Nat
    BY VmmAssumption, SizeFacts
  <2>. QED
    BY <2>1
<1>2. Slot(k) \in UserVAs
  BY <1>1, SlotOfNumber
<1>3. PICK pp \in free :
        /\ __vmm_map_internal(Slot(k), pp, TRUE, free \ {pp}, TRUE)
        /\ tlb' = [tlb EXCEPT ![Slot(k)] = PTE_NULL]
  BY DEF vmm_fmap_page
<1>4. pc = "idle" /\ Walk(Slot(k)) \notin Vga /\ UNCHANGED <<pc, locals>>
  BY DEF vmm_fmap_page
<1>. QED
  BY <1>2, <1>3, <1>4, IdleMapping

(* vmm_set_mapping refuses the recursive slot itself.                      *)
LEMMA SetMappingStep ==
  ASSUME IInv, NEW k \in ReservedVAs, NEW f \in Mmio, vmm_set_mapping(Slot(k), f)
  PROVE  IInv' /\ OneChange
<1>1. Slot(k) \in UserVAs
  <2>1. k \in Nat /\ k <= ENTRIES * ENTRIES - 1
    <3>1. k \in 0 .. (ENTRIES * ENTRIES - 1) /\ ENTRIES * ENTRIES \in Nat
      BY VmmAssumption, SizeFacts
    <3>. QED
      BY <3>1
  <2>2. k \div ENTRIES # TOP
    BY DEF vmm_set_mapping, Slot
  <2>. QED
    BY <2>1, <2>2, SlotBelowTop
<1>2. PICK ok \in BOOLEAN : __vmm_map_internal(Slot(k), f, FALSE, free, ok)
  BY DEF vmm_set_mapping
<1>3. pc = "idle" /\ UNCHANGED <<pc, locals>> /\ tlb' = tlb
  BY DEF vmm_set_mapping
<1>. QED
  BY <1>1, <1>2, <1>3, IdleMapping

(* vmm_unmap_page by a client, first half.                                 *)
LEMMA UnmapCallStep ==
  ASSUME IInv, NEW va \in VAs, UnmapCall(va)
  PROVE  IInv' /\ OneChange
<1>1. Tree(mem) /\ Ownership /\ Control /\ Cached
  BY DEF IInv
<1>2. /\ pc = "idle" /\ Walk(va) \notin Vga /\ vmm_unmap_page(va, "clear")
      /\ mem' = mem /\ i' = i /\ j' = j
  BY DEF UnmapCall
<1>3. /\ Table(va) # PTE_NULL /\ tlb' = [tlb EXCEPT ![va] = PTE_NULL]
      /\ cur' = va /\ pc' = "clear"
  BY <1>2 DEF vmm_unmap_page
<1>4. /\ va \in UserVAs /\ Tree(mem') /\ Ownership'
      /\ \A w \in UserVAs : Walk(w)' = Walk(w) /\ Table(w)' = Table(w)
  BY <1>1, <1>2, Unmapped
<1>5. Control'
  <2>1. Table(cur)' # PTE_NULL
    BY <1>2, <1>3 DEF Table
  <2>. QED
    BY <2>1, <1>1, <1>2, <1>3, <1>4 DEF Control
<1>6. Progress'
  BY <1>3 DEF Progress
<1>7. Cached'
  <2>1. tlb' \in [UserVAs -> Contents] /\ tlb'[cur'] = PTE_NULL
    BY <1>1, <1>3, <1>4 DEF Cached, Contents
  <2>2. \A w \in UserVAs : ~ReadsAhead(w) => tlb'[w] \in {Walk(w)', PTE_NULL}
    BY <1>1, <1>3, <1>4 DEF Cached
  <2>. QED
    BY <2>1, <2>2 DEF Cached
<1>. QED
  BY <1>4, <1>5, <1>6, <1>7, NoChange DEF IInv

(* The entry is cleared; in a rollback the page is as it was before.       *)
LEMMA UnmapClearStep ==
  ASSUME IInv, UnmapClear
  PROVE  IInv' /\ OneChange
<1>1. Tree(mem) /\ Ownership /\ Control /\ Progress /\ Cached
  BY DEF IInv
<1>2. /\ pc \in {"clear", "undo_clear"} /\ mem' = [mem EXCEPT ![Table(cur)][cur[2]] = PTE_NULL]
      /\ pc' = (IF pc = "clear" THEN "idle" ELSE "undo")
      /\ j' = (IF pc = "clear" THEN j ELSE j + 1)
      /\ free' = free /\ tlb' = tlb
      /\ va_' = va_ /\ sz' = sz /\ i' = i /\ before' = before
  BY DEF UnmapClear
<1>3. cur \in UserVAs /\ Table(cur) # PTE_NULL
  BY <1>1, <1>2 DEF Control, Unmapping
<1>4. /\ Tree(mem') /\ Ownership'
      /\ \A w \in UserVAs : Walk(w)' = IF w = cur THEN PTE_NULL ELSE Walk(w)
  BY <1>1, <1>2, <1>3, ClearedKeepsOwners
<1>5. ~Unmapping'
  BY <1>2 DEF Unmapping
<1>6. Control'
  BY <1>1, <1>2, <1>5 DEF Control
<1>7. Cached'
  <2>1. ASSUME NEW w \in UserVAs, ~ReadsAhead(w) PROVE tlb'[w] \in {Walk(w)', PTE_NULL}
    <3>1. (w = cur => tlb[w] = PTE_NULL) /\ tlb[w] \in {Walk(w), PTE_NULL}
      BY <1>1, <1>2, <2>1 DEF Cached, Unmapping
    <3>. QED
      BY <3>1, <1>2, <1>4
  <2>. QED
    BY <2>1, <1>1, <1>2, <1>5 DEF Cached
<1>8. Progress'
  <2>1. CASE pc = "clear"
    BY <2>1, <1>2 DEF Progress
  <2>2. CASE pc = "undo_clear"
    <3>1. /\ va_ \in Nat /\ sz \in Nat /\ va_ + sz <= ENTRIES * TOP
          /\ i \in 0 .. sz /\ j \in 0 .. i /\ j < i /\ cur = Slot(va_ + j)
          /\ before \in [UserVAs -> Contents]
          /\ \A va \in UserVAs :
               IF Num(va) \in (va_ + j) .. (va_ + i - 1)
               THEN before[va] = PTE_NULL /\ Walk(va) \in Pool
               ELSE Walk(va) = before[va]
      BY <1>1, <2>2 DEF Progress
    <3>2. va_ + j \in Nat /\ va_ + j < ENTRIES * TOP
      BY <3>1, SizeFacts
    <3>3. Num(cur) = va_ + j
      BY <3>1, <3>2, SlotOfNumber
    <3>4. j' = j + 1 /\ j' \in 0 .. i' /\ pc' = "undo"
      BY <1>2, <2>2, <3>1
    <3>5. ASSUME NEW va \in UserVAs
          PROVE  IF Num(va) \in (va_ + (j + 1)) .. (va_ + i - 1)
                 THEN before[va] = PTE_NULL /\ Walk(va)' \in Pool
                 ELSE Walk(va)' = before[va]
      <4>1. Num(va) \in Nat
        BY NumberType
      <4>2. CASE va = cur
        <5>1. Num(va) \in (va_ + j) .. (va_ + i - 1)
              /\ Num(va) \notin (va_ + (j + 1)) .. (va_ + i - 1)
          BY <4>1, <4>2, <3>1, <3>3
        <5>. QED
          BY <4>2, <5>1, <3>1, <1>4
      <4>3. CASE va # cur
        <5>1. Num(va) # va_ + j
          BY <4>3, <3>3, <1>3, NumberOfSlot
        <5>2. Num(va) \in (va_ + (j + 1)) .. (va_ + i - 1)
                <=> Num(va) \in (va_ + j) .. (va_ + i - 1)
          BY <5>1, <4>1, <3>1
        <5>3. Walk(va)' = Walk(va)
          BY <4>3, <1>4
        <5>. QED
          BY <5>2, <5>3, <3>1
      <4>. QED
        BY <4>2, <4>3
    <3>. QED
      BY <3>1, <3>4, <3>5, <1>2 DEF Progress
  <2>. QED
    BY <2>1, <2>2, <1>2
<1>9. OneChange
  BY <1>2, <1>3, <1>4 DEF OneChange, Unmapping
<1>. QED
  BY <1>4, <1>6, <1>7, <1>8, <1>9 DEF IInv

(* vmm_alloc_pages is called: what is mapped now is what was before.       *)
LEMMA AllocPagesCallStep ==
  ASSUME IInv, NEW k \in AllocVAs, NEW n \in 1 .. MaxPages,
         k + n <= ENTRIES * TOP, AllocPagesCall(k, n)
  PROVE  IInv' /\ OneChange
<1>1. Tree(mem) /\ Ownership /\ Control /\ Cached
  BY DEF IInv
<1>2. /\ pc = "idle" /\ pc' = "alloc" /\ va_' = k /\ sz' = n /\ before' = AddressSpace
      /\ mem' = mem /\ free' = free /\ tlb' = tlb /\ i' = i /\ j' = j
  BY DEF AllocPagesCall
<1>3. i = 0 /\ j = 0
  BY <1>1, <1>2 DEF Control
<1>4. /\ Tree(mem') /\ Ownership'
      /\ \A w \in UserVAs : Walk(w)' = Walk(w)
  BY <1>1, <1>2, SameTables
<1>5. Control'
  BY <1>2 DEF Control, Unmapping
<1>6. Cached'
  BY <1>1, <1>2, <1>4 DEF Cached, Unmapping
<1>7. before' \in [UserVAs -> Contents] /\ \A va \in UserVAs : before'[va] = Walk(va)'
  BY <1>1, <1>2, <1>4 DEF AddressSpace, Ownership, Contents
<1>8. k \in Nat /\ n \in Nat
  BY VmmAssumption
<1>9. \A va \in UserVAs : Num(va)' = Num(va) /\ Num(va) \notin (k + 0) .. (k + 0 - 1)
  BY <1>8
<1>10. Progress'
  BY <1>2, <1>3, <1>7, <1>8, <1>9 DEF Progress
<1>. QED
  BY <1>4, <1>5, <1>6, <1>10, NoChange DEF IInv

(* One more page, or the rollback begins.                                  *)
LEMMA AllocPagesStepStep ==
  ASSUME IInv, AllocPagesStep
  PROVE  IInv' /\ OneChange
<1>1. Tree(mem) /\ Ownership /\ Control /\ Progress /\ Cached
  BY DEF IInv
<1>2. /\ pc = "alloc" /\ i < sz /\ tlb' = tlb
      /\ va_' = va_ /\ sz' = sz /\ j' = j /\ before' = before /\ cur' = cur
  BY DEF AllocPagesStep
<1>3. /\ va_ \in Nat /\ sz \in Nat /\ va_ + sz <= ENTRIES * TOP
      /\ i \in 0 .. sz /\ j = 0
      /\ before \in [UserVAs -> Contents]
      /\ \A va \in UserVAs :
           IF Num(va) \in (va_ + j) .. (va_ + i - 1)
           THEN before[va] = PTE_NULL /\ Walk(va) \in Pool
           ELSE Walk(va) = before[va]
  BY <1>1, <1>2 DEF Progress
<1>4. ASSUME mem' = mem, free' \subseteq free, pc' = "undo", i' = i
      PROVE  IInv' /\ OneChange
  <2>1. Tree(mem') /\ Ownership' /\ \A w \in UserVAs : Walk(w)' = Walk(w)
    BY <1>1, <1>2, <1>4, SameTables
  <2>2. Control'
    BY <1>4 DEF Control, Unmapping
  <2>3. Cached'
    BY <1>1, <1>2, <1>4, <2>1 DEF Cached, Unmapping
  <2>4. Progress'
    <3>1. \A va \in UserVAs :
            IF Num(va) \in (va_ + j) .. (va_ + i - 1)
            THEN before[va] = PTE_NULL /\ Walk(va)' \in Pool
            ELSE Walk(va)' = before[va]
      BY <1>3, <2>1
    <3>. QED
      BY <3>1, <1>2, <1>3, <1>4 DEF Progress
  <2>. QED
    BY <2>1, <2>2, <2>3, <2>4, NoChange DEF IInv
<1>5. ASSUME NEW pp \in free, pc' = pc, i' = i + 1,
             __vmm_map_internal(Slot(va_ + i), pp, FALSE, free \ {pp}, TRUE)
      PROVE  IInv' /\ OneChange
  <2>. DEFINE va == Slot(va_ + i)
  <2>1. va_ + i \in Nat /\ va_ + i < ENTRIES * TOP
    BY <1>2, <1>3, SizeFacts
  <2>2. va \in UserVAs /\ Num(va) = va_ + i
    BY <2>1, SlotOfNumber
  <2>. HIDE DEF va
  <2>3. __vmm_map_internal(va, pp, FALSE, free \ {pp}, TRUE)
    BY <1>5 DEF va
  <2>4. /\ Walk(va) = PTE_NULL /\ Tree(mem') /\ Ownership'
        /\ \A w \in UserVAs : Walk(w)' = IF w = va THEN pp ELSE Walk(w)
    BY <1>1, <1>2, <1>5, <2>2, <2>3, MappingKeepsOwners
  <2>5. pp \in Pool
    BY <1>1 DEF Ownership
  <2>6. Control'
    BY <1>2, <1>5 DEF Control, Unmapping
  <2>7. Cached'
    <3>1. ASSUME NEW w \in UserVAs, ~ReadsAhead(w) PROVE tlb'[w] \in {Walk(w)', PTE_NULL}
      BY <3>1, <2>4, <1>1, <1>2 DEF Cached
    <3>. QED
      BY <3>1, <1>1, <1>2, <1>5 DEF Cached, Unmapping
  <2>8. ASSUME NEW w \in UserVAs
        PROVE  IF Num(w) \in (va_ + j) .. (va_ + (i + 1) - 1)
               THEN before[w] = PTE_NULL /\ Walk(w)' \in Pool
               ELSE Walk(w)' = before[w]
    <3>1. Num(w) \in Nat
      BY NumberType
    <3>2. CASE w = va
      <4>1. Num(w) \notin (va_ + j) .. (va_ + i - 1)
            /\ Num(w) \in (va_ + j) .. (va_ + (i + 1) - 1)
        BY <3>2, <2>2, <1>3
      <4>. QED
        BY <3>2, <4>1, <1>3, <2>4, <2>5
    <3>3. CASE w # va
      <4>1. Num(w) # va_ + i
        BY <3>3, <2>2, NumberOfSlot
      <4>2. Num(w) \in (va_ + j) .. (va_ + (i + 1) - 1)
              <=> Num(w) \in (va_ + j) .. (va_ + i - 1)
        BY <4>1, <3>1, <1>3
      <4>3. Walk(w)' = Walk(w)
        BY <3>3, <2>4
      <4>. QED
        BY <4>2, <4>3, <1>3
    <3>. QED
      BY <3>2, <3>3
  <2>9. i' \in 0 .. sz' /\ j' \in 0 .. i' /\ j' = 0 /\ pc' = "alloc"
    BY <1>2, <1>3, <1>5
  <2>10. Progress'
    BY <2>8, <2>9, <1>2, <1>3, <1>5 DEF Progress
  <2>. QED
    BY <2>2, <2>4, <2>6, <2>7, <2>10 DEF IInv, OneChange
<1>6. ASSUME NEW pp \in free, pc' = "undo", i' = i,
             __vmm_map_internal(Slot(va_ + i), pp, FALSE, free \ {pp}, FALSE)
      PROVE  IInv' /\ OneChange
  <2>1. mem' = mem /\ free' = free \ {pp}
    BY <1>6 DEF __vmm_map_internal
  <2>. QED
    BY <2>1, <1>4, <1>6
<1>7. \/ pc' = "undo" /\ mem' = mem /\ free' = free /\ i' = i
      \/ \E pp \in free :
           /\ __vmm_map_internal(Slot(va_ + i), pp, FALSE, free \ {pp}, TRUE)
           /\ i' = i + 1 /\ pc' = pc
      \/ \E pp \in free :
           /\ __vmm_map_internal(Slot(va_ + i), pp, FALSE, free \ {pp}, FALSE)
           /\ pc' = "undo" /\ i' = i
  BY DEF AllocPagesStep
<1>. QED
  BY <1>4, <1>5, <1>6, <1>7

(* The rollback unmaps the pages the call has mapped.                      *)
LEMMA RollbackStepStep ==
  ASSUME IInv, RollbackStep
  PROVE  IInv' /\ OneChange
<1>. DEFINE va == Slot(va_ + j)
<1>1. Tree(mem) /\ Ownership /\ Control /\ Progress /\ Cached
  BY DEF IInv
<1>2. /\ pc = "undo" /\ j < i /\ vmm_unmap_page(va, "undo_clear")
      /\ mem' = mem /\ va_' = va_ /\ sz' = sz /\ i' = i /\ j' = j /\ before' = before
  BY DEF RollbackStep
<1>3. /\ va_ \in Nat /\ sz \in Nat /\ va_ + sz <= ENTRIES * TOP
      /\ i \in 0 .. sz /\ j \in 0 .. i
      /\ before \in [UserVAs -> Contents]
      /\ \A w \in UserVAs :
           IF Num(w) \in (va_ + j) .. (va_ + i - 1)
           THEN before[w] = PTE_NULL /\ Walk(w) \in Pool
           ELSE Walk(w) = before[w]
  BY <1>1, <1>2 DEF Progress
<1>4. va_ + j \in Nat /\ va_ + j < ENTRIES * TOP
  BY <1>2, <1>3, SizeFacts
<1>5. va \in UserVAs /\ Num(va) = va_ + j /\ va = Slot(va_ + j)
  BY <1>4, SlotOfNumber
<1>. HIDE DEF va
<1>6. Walk(va) \in Pool
  <2>1. Num(va) \in (va_ + j) .. (va_ + i - 1)
    BY <1>2, <1>3, <1>5
  <2>. QED
    BY <2>1, <1>3, <1>5
<1>7. Walk(va) \notin Vga /\ va \in VAs
  BY <1>5, <1>6, VmmAssumption, SizeFacts DEF VAs, UserSlots
<1>8. /\ Tree(mem') /\ Ownership'
      /\ \A w \in UserVAs : Walk(w)' = Walk(w) /\ Table(w)' = Table(w)
  BY <1>1, <1>2, <1>7, Unmapped
<1>9. /\ Table(va) # PTE_NULL /\ tlb' = [tlb EXCEPT ![va] = PTE_NULL]
      /\ cur' = va /\ pc' = "undo_clear"
  BY <1>2 DEF vmm_unmap_page
<1>10. Control'
  <2>1. Table(cur)' # PTE_NULL
    BY <1>2, <1>9 DEF Table
  <2>. QED
    BY <2>1, <1>5, <1>9 DEF Control
<1>11. Cached'
  <2>1. tlb' \in [UserVAs -> Contents] /\ tlb'[cur'] = PTE_NULL
    BY <1>1, <1>5, <1>9 DEF Cached, Contents
  <2>2. \A w \in UserVAs : ~ReadsAhead(w) => tlb'[w] \in {Walk(w)', PTE_NULL}
    BY <1>1, <1>5, <1>8, <1>9 DEF Cached
  <2>. QED
    BY <2>1, <2>2 DEF Cached
<1>12. Progress'
  <2>1. \A w \in UserVAs :
          IF Num(w) \in (va_ + j) .. (va_ + i - 1)
          THEN before[w] = PTE_NULL /\ Walk(w)' \in Pool
          ELSE Walk(w)' = before[w]
    BY <1>3, <1>8
  <2>2. cur' = Slot(va_' + j')
    BY <1>2, <1>5, <1>9
  <2>. QED
    BY <2>1, <2>2, <1>2, <1>3, <1>9 DEF Progress, Slot
<1>. QED
  BY <1>8, <1>10, <1>11, <1>12, NoChange DEF IInv

(* vmm_alloc_pages returns.                                                *)
LEMMA AllocPagesReturnStep ==
  ASSUME IInv, AllocPagesReturn
  PROVE  IInv' /\ OneChange
<1>1. Tree(mem) /\ Ownership /\ Cached
  BY DEF IInv
<1>2. /\ pc \in {"alloc", "undo"} /\ pc' = "idle" /\ i' = 0 /\ j' = 0
      /\ mem' = mem /\ free' = free /\ tlb' = tlb
  BY DEF AllocPagesReturn, AllocPagesDone, AllocPagesFailed
<1>3. Tree(mem') /\ Ownership' /\ \A w \in UserVAs : Walk(w)' = Walk(w)
  BY <1>1, <1>2, SameTables
<1>4. Control' /\ Progress'
  BY <1>2 DEF Control, Progress, Unmapping
<1>5. Cached'
  BY <1>1, <1>2, <1>3 DEF Cached, Unmapping
<1>. QED
  BY <1>3, <1>4, <1>5, NoChange DEF IInv

(* Steps of the processor's cache alone.                                   *)
LEMMA CacheOnly ==
  ASSUME IInv, UNCHANGED <<mem, free, pc, locals>>, Cached'
  PROVE  IInv' /\ OneChange
<1>1. /\ mem' = mem /\ free' = free /\ pc' = pc /\ va_' = va_ /\ sz' = sz
      /\ i' = i /\ j' = j /\ cur' = cur /\ before' = before
  BY DEF locals
<1>2. \A w \in UserVAs : Walk(w)' = Walk(w)
  BY <1>1 DEF Walk, Table
<1>3. Tables' = Tables
  BY <1>1 DEF Tables
<1>4. LiveVAs' = LiveVAs
  BY <1>1, <1>2 DEF LiveVAs, Unmapping
<1>5. Tree(mem')
  BY <1>1 DEF IInv
<1>6. Ownership'
  <2>1. Ownership /\ \A w \in LiveVAs : w \in UserVAs
    BY DEF IInv, LiveVAs
  <2>2. free' \subseteq Pool /\ Tables' \cap free' = {}
    BY <2>1, <1>1, <1>3 DEF Ownership
  <2>3. \A w \in UserVAs : Walk(w)' \in Frames \cup {PTE_NULL}
    BY <2>1, <1>2 DEF Ownership
  <2>4. \A w \in LiveVAs' : Walk(w)' \notin free' \cup Tables'
    BY <2>1, <1>1, <1>2, <1>3, <1>4 DEF Ownership
  <2>5. \A w, x \in LiveVAs' : Walk(w)' = Walk(x)' /\ Walk(w)' \in Pool => w = x
    BY <2>1, <1>2, <1>4 DEF Ownership
  <2>. QED
    BY <2>2, <2>3, <2>4, <2>5 DEF Ownership
<1>7. Control'
  BY <1>1 DEF IInv, Control, Unmapping, Table
<1>8. Progress'
  <2>1. Progress
    BY DEF IInv
  <2>2. CASE pc \in {"alloc", "undo", "undo_clear"}
    <3>1. \A w \in UserVAs :
            IF Num(w) \in (va_ + j) .. (va_ + i - 1)
            THEN before[w] = PTE_NULL /\ Walk(w)' \in Pool
            ELSE Walk(w)' = before[w]
      BY <2>1, <2>2, <1>2 DEF Progress
    <3>. QED
      BY <2>1, <2>2, <3>1, <1>1 DEF Progress, Slot
  <2>3. CASE pc \notin {"alloc", "undo", "undo_clear"}
    BY <2>3, <1>1 DEF Progress
  <2>. QED
    BY <2>2, <2>3
<1>. QED
  BY <1>2, <1>5, <1>6, <1>7, <1>8, NoChange DEF IInv

(* The processor caches a translation.                                     *)
LEMMA TlbFillStep ==
  ASSUME IInv, NEW va \in UserVAs, TlbFill(va)
  PROVE  IInv' /\ OneChange
<1>1. /\ UNCHANGED <<mem, free, pc, locals>> /\ tlb' = [tlb EXCEPT ![va] = Walk(va)]
      /\ pc = "idle" \/ ReadsAhead(va)
  BY DEF TlbFill
<1>2. \A w \in UserVAs : Walk(w)' = Walk(w)
  BY <1>1 DEF Walk, Table
<1>3. Cached /\ Walk(va) \in Contents
  BY DEF IInv, Ownership, Contents
<1>4. tlb' \in [UserVAs -> Contents]
  BY <1>1, <1>3 DEF Cached
<1>5. ASSUME NEW w \in UserVAs, ~ReadsAhead(w) PROVE tlb'[w] \in {Walk(w)', PTE_NULL}
  BY <1>1, <1>2, <1>3, <1>5 DEF Cached
<1>6. ASSUME Unmapping', ~ReadsAhead(cur') PROVE tlb'[cur'] = PTE_NULL
  BY <1>1, <1>3, <1>6 DEF Cached, Unmapping, locals
<1>7. Cached'
  BY <1>4, <1>5, <1>6 DEF Cached
<1>. QED
  BY <1>1, <1>7, CacheOnly

(* Nothing happens.                                                        *)
LEMMA StutterStep ==
  ASSUME IInv, UNCHANGED vars
  PROVE  IInv' /\ OneChange
<1>1. UNCHANGED <<mem, free, pc, locals>> /\ tlb' = tlb /\ pc' = pc /\ cur' = cur
  BY DEF vars, locals
<1>2. \A w \in UserVAs : Walk(w)' = Walk(w)
  BY <1>1 DEF Walk, Table
<1>3. Cached'
  BY <1>1, <1>2 DEF IInv, Cached, Unmapping
<1>. QED
  BY <1>1, <1>3, CacheOnly

(* Every step of Next keeps the invariant, and changes one page at most.   *)
LEMMA NextIInv ==
  ASSUME IInv, SearchBelowTop, [Next]_vars
  PROVE  IInv' /\ OneChange
<1>1. CASE \E k \in DevVAs, f \in Vga \cup Mmio : MapDevice(k, f)
  BY <1>1, MapDeviceStep
<1>2. CASE \E k \in AllocVAs : vmm_alloc_page(k)
  BY <1>2, AllocPageStep
<1>3. CASE \E k \in AllocVAs : vmm_fmap_page(k)
  BY <1>3, FmapPageStep
<1>4. CASE \E k \in ReservedVAs, f \in Mmio : vmm_set_mapping(Slot(k), f)
  BY <1>4, SetMappingStep
<1>5. CASE \E va \in VAs : UnmapCall(va)
  BY <1>5, UnmapCallStep
<1>6. CASE UnmapClear
  BY <1>6, UnmapClearStep
<1>7. CASE \E k \in AllocVAs, n \in 1 .. MaxPages :
             k + n <= ENTRIES * TOP /\ AllocPagesCall(k, n)
  BY <1>7, AllocPagesCallStep
<1>8. CASE AllocPagesStep
  BY <1>8, AllocPagesStepStep
<1>9. CASE RollbackStep
  BY <1>9, RollbackStepStep
<1>10. CASE AllocPagesReturn
  BY <1>10, AllocPagesReturnStep
<1>11. CASE \E va \in UserVAs : TlbFill(va)
  BY <1>11, TlbFillStep
<1>12. CASE UNCHANGED vars
  BY <1>12, StutterStep
<1>. QED
  BY <1>1, <1>2, <1>3, <1>4, <1>5, <1>6, <1>7, <1>8, <1>9, <1>10, <1>11, <1>12 DEF Next

-----------------------------------------------------------------------------
(* What the invariant says.                                                *)

(* The parts of the properties follow from Tree and Ownership.             *)
LEMMA IInvImplies ==
  ASSUME IInv
  PROVE  InUseNotFree /\ NoSharedFrames /\ AllOrNothing
<1>1. Tree(mem) /\ Ownership /\ Control /\ Progress /\ Cached
  BY DEF IInv
<1>2. InUseNotFree
  BY <1>1 DEF Ownership, InUseNotFree
<1>3. NoSharedFrames
  <2>1. mem[DIR][TOP] = DIR
    BY <1>1 DEF Tree
  <2>2. \A s, t \in Slots \ {TOP} : mem[DIR][s] = mem[DIR][t] /\ mem[DIR][s] # PTE_NULL => s = t
    BY <1>1 DEF Tree, UserSlots
  <2>3. \A va \in LiveVAs : Walk(va) \notin Tables
    BY <1>1 DEF Ownership
  <2>4. \A va, w \in LiveVAs : Walk(va) = Walk(w) /\ Walk(va) \in Pool => va = w
    BY <1>1 DEF Ownership
  <2>. QED
    BY <2>1, <2>2, <2>3, <2>4 DEF NoSharedFrames
<1>4. AllOrNothing
  <2>1. ASSUME AllocPagesFailed PROVE AddressSpace = before
    <3>1. pc = "undo" /\ j = i
      BY <2>1 DEF AllocPagesFailed
    <3>2. /\ va_ \in Nat /\ i \in Nat /\ before \in [UserVAs -> Contents]
          /\ \A va \in UserVAs :
               IF Num(va) \in (va_ + j) .. (va_ + i - 1)
               THEN before[va] = PTE_NULL /\ Walk(va) \in Pool
               ELSE Walk(va) = before[va]
      BY <3>1, <1>1 DEF Progress
    <3>3. \A va \in UserVAs : Num(va) \notin (va_ + j) .. (va_ + i - 1)
      BY <3>1, <3>2
    <3>4. \A va \in UserVAs : Walk(va) = before[va]
      BY <3>2, <3>3
    <3>. QED
      BY <3>2, <3>4 DEF AddressSpace
  <2>2. ASSUME AllocPagesDone
        PROVE  \A va \in UserVAs : IF Num(va) \in va_ .. (va_ + sz - 1)
                                   THEN before[va] = PTE_NULL /\ Walk(va) \in Pool
                                   ELSE Walk(va) = before[va]
    <3>1. pc = "alloc" /\ i = sz
      BY <2>2 DEF AllocPagesDone
    <3>2. /\ va_ \in Nat /\ j = 0
          /\ \A va \in UserVAs :
               IF Num(va) \in (va_ + j) .. (va_ + i - 1)
               THEN before[va] = PTE_NULL /\ Walk(va) \in Pool
               ELSE Walk(va) = before[va]
      BY <3>1, <1>1 DEF Progress
    <3>3. va_ + j = va_
      BY <3>2
    <3>. QED
      BY <3>1, <3>2, <3>3
  <2>. QED
    BY <2>1, <2>2 DEF AllOrNothing
<1>. QED
  BY <1>2, <1>3, <1>4

(* The invariant holds as long as the search stays below the recursive     *)
(* slot.                                                                   *)
LEMMA Invariance == Spec /\ []SearchBelowTop => []IInv
<1>1. Init => IInv
  BY InitIInv
<1>2. IInv /\ SearchBelowTop /\ [Next]_vars => IInv'
  BY NextIInv
<1>. QED
  BY <1>1, <1>2, PTL DEF Spec

(* InUseNotFree: vmm.c never gives back a frame that is a page table or    *)
(* backs a page.                                                           *)
THEOREM NothingInUseIsFree == Spec /\ []SearchBelowTop => []InUseNotFree
<1>1. IInv => InUseNotFree
  BY IInvImplies
<1>. QED
  BY <1>1, Invariance, PTL

(* NoSharedFrames: no frame serves two purposes, and the recursive slot is *)
(* never lost.                                                             *)
THEOREM FramesHaveOneOwner == Spec /\ []SearchBelowTop => []NoSharedFrames
<1>1. IInv => NoSharedFrames
  BY IInvImplies
<1>. QED
  BY <1>1, Invariance, PTL

(* AllOrNothing: a failed vmm_alloc_pages leaves the address space as it   *)
(* was, a successful one maps what was asked for.                          *)
THEOREM AllocPagesIsAtomic == Spec /\ []SearchBelowTop => []AllOrNothing
<1>1. IInv => AllOrNothing
  BY IInvImplies
<1>. QED
  BY <1>1, Invariance, PTL

(* A step leaves a cached translation, drops it, or reads it off the       *)
(* tables.                                                                 *)
LEMMA CacheMoves ==
  ASSUME tlb \in [UserVAs -> Contents], [Next]_vars, NEW w \in UserVAs
  PROVE  tlb'[w] \in {tlb[w], PTE_NULL, Walk(w)'}
<1>1. CASE tlb' = tlb
  BY <1>1
<1>2. ASSUME NEW va, tlb' = [tlb EXCEPT ![va] = PTE_NULL] PROVE tlb'[w] \in {tlb[w], PTE_NULL}
  BY <1>2
<1>3. ASSUME NEW va \in UserVAs, TlbFill(va) PROVE tlb'[w] \in {tlb[w], Walk(w)'}
  <2>1. mem' = mem /\ tlb' = [tlb EXCEPT ![va] = Walk(va)]
    BY <1>3 DEF TlbFill
  <2>2. Walk(w)' = Walk(w)
    BY <2>1 DEF Walk, Table
  <2>. QED
    BY <2>1, <2>2
<1>4. ASSUME NEW k, vmm_fmap_page(k) PROVE tlb' = [tlb EXCEPT ![Slot(k)] = PTE_NULL]
  BY <1>4 DEF vmm_fmap_page
<1>5. ASSUME NEW va, UnmapCall(va) PROVE tlb' = [tlb EXCEPT ![va] = PTE_NULL]
  BY <1>5 DEF UnmapCall, vmm_unmap_page
<1>6. ASSUME RollbackStep PROVE tlb' = [tlb EXCEPT ![Slot(va_ + j)] = PTE_NULL]
  BY <1>6 DEF RollbackStep, vmm_unmap_page
<1>7. ASSUME NEW k, NEW f, MapDevice(k, f) PROVE tlb' = tlb
  BY <1>7 DEF MapDevice, MapFault
<1>8. ASSUME NEW k, vmm_alloc_page(k) PROVE tlb' = tlb
  BY <1>8 DEF vmm_alloc_page, MapFault
<1>9. ASSUME NEW va, NEW f, vmm_set_mapping(va, f) PROVE tlb' = tlb
  BY <1>9 DEF vmm_set_mapping
<1>10. ASSUME NEW k, NEW n, AllocPagesCall(k, n) PROVE tlb' = tlb
  BY <1>10 DEF AllocPagesCall
<1>11. ASSUME UnmapClear \/ AllocPagesStep \/ AllocPagesReturn PROVE tlb' = tlb
  BY <1>11 DEF UnmapClear, AllocPagesStep, AllocPagesReturn
<1>12. ASSUME UNCHANGED vars PROVE tlb' = tlb
  BY <1>12 DEF vars
<1>. QED
  BY <1>1, <1>2, <1>3, <1>4, <1>5, <1>6, <1>7, <1>8, <1>9, <1>10, <1>11, <1>12 DEF Next

(* StaleOnlyByUnmap: whatever the processor reads ahead, no other step of  *)
(* vmm.c leaves a translation in the cache that the tables no longer hold. *)
THEOREM OneWindowForStaleEntries == Spec /\ []SearchBelowTop => StaleOnlyByUnmap
<1>. DEFINE Fresh ==
       \A va \in UserVAs :
         tlb[va] \in {Walk(va), PTE_NULL} /\ tlb'[va] \notin {Walk(va)', PTE_NULL}
           => ReadsAhead(va) /\ Unmapping /\ va = cur
<1>1. ASSUME IInv, SearchBelowTop, [Next]_vars PROVE Fresh
  <2>. SUFFICES ASSUME NEW va \in UserVAs,
                       tlb[va] \in {Walk(va), PTE_NULL}, tlb'[va] \notin {Walk(va)', PTE_NULL}
                PROVE  ReadsAhead(va) /\ Unmapping /\ va = cur
    OBVIOUS
  <2>1. Cached /\ Cached' /\ OneChange
    BY <1>1, NextIInv DEF IInv
  <2>2. ReadsAhead(va)
    BY <2>1 DEF Cached
  <2>3. tlb'[va] = tlb[va]
    BY <1>1, <2>1, CacheMoves DEF Cached
  <2>4. Walk(va) # PTE_NULL /\ Walk(va)' # Walk(va) /\ tlb'[va] # PTE_NULL
    BY <2>3
  <2>. QED
    BY <2>1, <2>2, <2>4 DEF OneChange
<1>2. [][Fresh]_vars => StaleOnlyByUnmap
  BY DEF StaleOnlyByUnmap
<1>. HIDE DEF Fresh
<1>. QED
  BY <1>1, <1>2, Invariance, PTL DEF Spec

(* OnePageAtATime: no step changes the translations of two pages.          *)
THEOREM StepsAreLocal == Spec /\ []SearchBelowTop => OnePageAtATime
<1>. DEFINE Local == \A va, w \in UserVAs :
                       Walk(va)' # Walk(va) /\ Walk(w)' # Walk(w) => va = w
<1>1. IInv /\ SearchBelowTop /\ [Next]_vars => Local
  BY NextIInv DEF OneChange
<1>2. [][Local]_vars => OnePageAtATime
  BY DEF OnePageAtATime
<1>. HIDE DEF Local
<1>. QED
  BY <1>1, <1>2, Invariance, PTL DEF Spec
=============================================================================
