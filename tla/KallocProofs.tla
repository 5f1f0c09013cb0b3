---------------------------- MODULE KallocProofs ----------------------------
(***************************************************************************)
(* Theorems about Kalloc, for every size of the heap and of its pages and  *)
(* every set of requests, when no interrupt calls lxfree while lxmalloc    *)
(* walks the heap.                                                         *)
(***************************************************************************)
EXTENDS Kalloc, KallocSizes, TLAPS

-----------------------------------------------------------------------------
(* Heaps as values: the words m, the headers hs, the epilogue b.           *)

Header == [s : Nat, a : BOOLEAN, pf : BOOLEAN]

(* Chunk by chunk from the start to the epilogue.                          *)
Tiled(m, hs, b) ==
  /\ m \in [Words -> Header]
  /\ b \in Words /\ hs \subseteq 0 .. (b - 1)
  /\ 0 \in hs /\ m[0].a
  /\ \A h \in hs : m[h].s > 0 /\ h + m[h].s \in hs \cup {b}
  /\ \A h, g \in hs : h < g => h + m[h].s <= g
  /\ \A g \in (hs \cup {b}) \ {0} : \E h \in hs : h + m[h].s = g
  /\ m[b].s = 0 /\ m[b].a

(* The flag after a chunk and the footer of a free one, but for those cs.  *)
Tagged(m, hs, cs) ==
  \A h \in hs : /\ m[h + m[h].s].pf <=> ~m[h].a
                /\ ~m[h].a => m[h + m[h].s - 1] = m[h] \/ h \in cs

(* A free chunk is followed by a free one at the headers cs only.          *)
Separate(m, hs, cs) ==
  \A h \in hs : ~m[h].a /\ ~m[h + m[h].s].a => h \in cs

Sound(m, hs, b) == Tiled(m, hs, b) /\ Tagged(m, hs, {}) /\ Separate(m, hs, {})

(* Only the free chunk c may have free neighbours, and the one behind it a *)
(* footer that is out of date.                                             *)
Loose(m, hs, b, c) ==
  /\ Tiled(m, hs, b) /\ Tagged(m, hs, {c + m[c].s})
  /\ c \in hs \ {0} /\ ~m[c].a
  /\ Separate(m, hs, {h \in hs : h = c \/ h + m[h].s = c})

(* The blocks lv are the chunks in use, and hold what their owners wrote.  *)
Owned(m, hs, lv) ==
  /\ lv \subseteq [at : Nat, len : Nat]
  /\ \A k \in lv : /\ k.at - 1 \in hs \ {0}
                   /\ m[k.at - 1].a /\ m[k.at - 1].s = k.len + 1
                   /\ \A q \in k.at .. (k.at + k.len - 1) : m[q] = JUNK
  /\ \A h \in hs \ {0} : m[h].a => \E k \in lv : k.at - 1 = h

-----------------------------------------------------------------------------
(* Words are natural numbers.                                              *)
LEMMA WordFacts ==
  /\ MaxAddr \in Nat /\ MaxAddr > 1 /\ Words \subseteq Nat /\ Words = 0 .. (MaxAddr - 1)
  /\ 0 \in Words /\ 1 \in Words
BY KallocAssumption DEF Words

(* The fields of a header word.                                            *)
LEMMA PackFacts ==
  ASSUME NEW x \in Nat, NEW y \in BOOLEAN, NEW z \in BOOLEAN
  PROVE  /\ PACK(x, y, z) \in Header
         /\ PACK(x, y, z).s = x /\ (PACK(x, y, z).a <=> y) /\ (PACK(x, y, z).pf <=> z)
BY DEF PACK, Header

(* A free chunk from start to end takes the place of the free chunks       *)
(* there, in the heap n; its neighbours are in use.                        *)
Replaced(m, hs, start, end, n) ==
  /\ ~m[start].pf /\ m[end].pf /\ m[end].a
  /\ Tagged(m, hs, start .. (end - 1)) /\ Separate(m, hs, start .. (end - 1))
  /\ \A h \in hs : start <= h /\ h < end => ~m[h].a
  /\ n \in [Words -> Header]
  /\ n[start].s = end - start /\ ~n[start].a /\ ~n[start].pf
  /\ n[end - 1] = n[start]
  /\ \A q \in Words : q < start \/ end <= q => n[q] = m[q]

(* The merging of kalloc.c:206-231, whatever neighbours are free.          *)
LEMMA FreeChunk ==
  ASSUME NEW m, NEW hs, NEW b, Tiled(m, hs, b),
         NEW start \in hs \ {0}, NEW end \in hs \cup {b}, start < end,
         NEW n, Replaced(m, hs, start, end, n),
         NEW ks, ks = {h \in hs : ~(start < h /\ h < end)}
  PROVE  Sound(n, ks, b) /\ \A lv : Owned(m, hs, lv) => Owned(n, ks, lv)
<1>1. /\ b \in Nat /\ b \in Words /\ start \in Nat /\ end \in Nat /\ end <= b /\ 0 < start
      /\ hs \subseteq Nat /\ \A h \in hs : h < b /\ h \in Words
      /\ \A h \in hs : m[h].s \in Nat /\ m[h].s > 0
  BY WordFacts DEF Tiled, Header
<1>a. \A q \in Words : q < start \/ end <= q => n[q] = m[q]
  BY DEF Replaced
<1>b. n[start].s = end - start /\ n[end - 1] = n[start]
  BY DEF Replaced
<1>c. n \in [Words -> Header] /\ ~n[start].a /\ ~n[start].pf
  BY DEF Replaced
<1>f. Tagged(m, hs, start .. (end - 1))
  BY DEF Replaced
<1>d. ~m[start].pf /\ m[end].pf /\ m[end].a /\ Separate(m, hs, start .. (end - 1))
  BY DEF Replaced
<1>e. \A h \in hs : start <= h /\ h < end => ~m[h].a
  BY DEF Replaced
<1>2. \A h \in hs : h + m[h].s \in hs \cup {b} /\ h + m[h].s \in Nat /\ h + m[h].s \in Words
  BY <1>1 DEF Tiled
<1>3. \A h, g \in hs : h < g => h + m[h].s <= g
  BY DEF Tiled
<1>4. \A h \in hs : h < end => h + m[h].s <= end
  BY <1>1, <1>2, <1>3
<1>5. start \in ks /\ ks \subseteq hs /\ \A h \in ks : h = start \/ h < start \/ end <= h
  BY <1>1
<1>6. \A h \in ks : h # start => n[h] = m[h] /\ (h + m[h].s <= start \/ end <= h)
  BY <1>1, <1>3, <1>5, <1>a
<1>7. \A h \in ks : h # start => h + m[h].s \in ks \cup {b}
  BY <1>1, <1>2, <1>6
<1>8. start + n[start].s = end /\ end \in ks \cup {b} /\ end - 1 \in Nat
  BY <1>1, <1>b
<1>9. \A g \in ks \cup {b} : g # start => n[g] = m[g]
  BY <1>1, <1>5, <1>a
<1>10. Tiled(n, ks, b)
  <2>1. ASSUME NEW h \in ks PROVE n[h].s > 0 /\ h + n[h].s \in ks \cup {b}
    <3>1. CASE h = start
      <4>1. n[start].s > 0
        BY <1>1, <1>b
      <4>. QED
        BY <3>1, <4>1, <1>8
    <3>2. CASE h # start
      <4>1. n[h] = m[h] /\ m[h].s > 0
        BY <3>2, <1>1, <1>5, <1>6
      <4>. QED
        BY <3>2, <4>1, <1>7
    <3>. QED
      BY <3>1, <3>2
  <2>2. \A h, g \in ks : h < g => h + n[h].s <= g
    <3>1. ASSUME NEW h \in ks, NEW g \in ks, h < g PROVE h + n[h].s <= g
      <4>1. CASE h = start
        <5>1. end <= g
          <6>1. start < g /\ (g = start \/ g < start \/ end <= g)
            BY <3>1, <4>1, <1>5
          <6>2. start \in Nat /\ g \in Nat
            BY <1>1, <1>5
          <6>. QED
            BY <6>1, <6>2
        <5>. QED
          BY <4>1, <5>1, <1>8
      <4>2. CASE h # start
        BY <3>1, <4>2, <1>3, <1>5, <1>6
      <4>. QED
        BY <4>1, <4>2
    <3>. QED
      BY <3>1
  <2>3. ASSUME NEW g \in (ks \cup {b}) \ {0} PROVE \E h \in ks : h + n[h].s = g
    <3>1. CASE g = end
      BY <3>1, <1>5, <1>8
    <3>2. CASE g # end
      <4>1. PICK h \in hs : h + m[h].s = g
        BY <1>5 DEF Tiled
      <4>2. ~(start <= h /\ h < end)
        BY <3>2, <4>1, <1>1, <1>4, <1>5
      <4>. QED
        BY <4>1, <4>2, <1>1, <1>6
    <3>. QED
      BY <3>1, <3>2
  <2>4. 0 \in ks /\ n[0] = m[0] /\ n[b] = m[b] /\ ks \subseteq 0 .. (b - 1)
    <3>1. 0 \in hs /\ 0 \in ks
      BY <1>1 DEF Tiled
    <3>2. n[0] = m[0] /\ n[b] = m[b]
      BY <3>1, <1>1, <1>5, <1>9
    <3>. QED
      BY <3>1, <3>2, <1>1, <1>5 DEF Tiled
  <2>. QED
    BY <1>1, <1>c, <2>1, <2>2, <2>3, <2>4 DEF Tiled
<1>11. Tagged(n, ks, {})
  <2>1. ASSUME NEW h \in ks
        PROVE  /\ n[h + n[h].s].pf <=> ~n[h].a
               /\ ~n[h].a => n[h + n[h].s - 1] = n[h]
    <3>1. CASE h = start
      <4>1. n[end] = m[end]
        BY <1>1, <1>2, <1>a, WordFacts DEF Tiled
      <4>2. h + n[h].s = end /\ ~n[h].a /\ n[end - 1] = n[h]
        BY <3>1, <1>8, <1>b, <1>c
      <4>3. n[h + n[h].s] = m[end] /\ n[h + n[h].s - 1] = n[h]
        <5>1. h + n[h].s = end
          BY <4>2
        <5>2. n[h + n[h].s] = n[end]
          BY <5>1
        <5>3. n[h + n[h].s - 1] = n[end - 1]
          <6>1. h \in Nat /\ n[h].s \in Nat
            BY <3>1, <1>1, <1>b
          <6>2. h + n[h].s - 1 = end - 1
            BY <5>1, <6>1
          <6>. QED
            BY <6>2
        <5>. QED
          BY <5>2, <5>3, <4>1, <4>2
      <4>. QED
        BY <4>2, <4>3, <1>d
    <3>2. CASE h # start
      <4>1. PICK g : g = h + m[h].s
        OBVIOUS
      <4>2. n[h] = m[h] /\ g \in ks \cup {b} /\ g \in Nat /\ (g <= start \/ end <= h)
        BY <3>2, <4>1, <1>2, <1>5, <1>6, <1>7
      <4>3. h \in hs /\ m[h].s \in Nat /\ m[h].s > 0 /\ h \in Nat /\ g \in Words
        BY <4>1, <1>1, <1>2, <1>5
      <4>4. (m[g].pf <=> ~m[h].a) /\ (~m[h].a => m[g - 1] = m[h])
        <5>1. h \notin start .. (end - 1)
          BY <3>2, <1>1, <1>5
        <5>. QED
          BY <4>1, <4>3, <5>1, <1>f DEF Tagged
      <4>5. n[g].pf <=> m[g].pf
        <5>1. CASE g = start
          BY <5>1, <1>c, <1>d
        <5>2. CASE g # start
          BY <4>2, <5>2, <1>9
        <5>. QED
          BY <5>1, <5>2
      <4>6. n[g - 1] = m[g - 1]
        <5>1. g - 1 \in Words /\ (g - 1 < start \/ end <= g - 1)
          <6>1. start \in Nat /\ end \in Nat
            BY <1>1
          <6>. QED
            BY <6>1, <4>1, <4>2, <4>3, WordFacts
        <5>. QED
          BY <5>1, <1>a
      <4>. QED
        <5>1. h + n[h].s = g
          BY <4>1, <4>2
        <5>2. n[h + n[h].s] = n[g]
          BY <5>1
        <5>3. n[h + n[h].s - 1] = n[g - 1]
          <6>1. h \in Nat /\ n[h].s \in Nat
            BY <4>2, <4>3
          <6>2. h + n[h].s - 1 = g - 1
            BY <5>1, <6>1
          <6>. QED
            BY <6>2
        <5>. QED
          BY <5>2, <5>3, <4>2, <4>4, <4>5, <4>6
    <3>. QED
      BY <3>1, <3>2
  <2>. QED
    BY <2>1, <1>f DEF Tagged
<1>12. Separate(n, ks, {})
  <2>1. ASSUME NEW h \in ks, ~n[h].a, ~n[h + n[h].s].a PROVE FALSE
    <3>1. CASE h = start
      <4>1. n[end] = m[end]
        BY <1>1, <1>2, <1>a, WordFacts DEF Tiled
      <4>. QED
        BY <2>1, <3>1, <4>1, <1>8, <1>b, <1>c, <1>d
    <3>2. CASE h # start
      <4>. DEFINE g == h + m[h].s
      <4>1. n[h] = m[h] /\ g \in ks \cup {b} /\ (g <= start \/ end <= h)
        BY <3>2, <1>6, <1>7
      <4>2. CASE g = start
        BY <2>1, <4>1, <4>2, <1>5, <1>d, <1>f DEF Tagged
      <4>3. CASE g # start
        <5>1. n[g] = m[g]
          BY <4>1, <4>3, <1>9
        <5>2. start <= h /\ h < end
          <6>1. h \in start .. (end - 1)
            BY <2>1, <4>1, <5>1, <1>5, <1>d DEF Separate
          <6>. QED
            BY <6>1, <1>1
        <5>. QED
          BY <5>2, <3>2, <1>1, <1>5
      <4>. QED
        BY <4>2, <4>3
    <3>. QED
      BY <3>1, <3>2
  <2>. QED
    BY <2>1 DEF Separate
<1>13. ASSUME NEW lv, Owned(m, hs, lv) PROVE Owned(n, ks, lv)
  <2>1. \A h \in hs : m[h].a => h \in ks /\ h # start /\ n[h] = m[h]
    <3>1. ASSUME NEW h \in hs, m[h].a PROVE h \in ks /\ h # start
      <4>1. ~(start <= h /\ h < end)
        BY <3>1, <1>e
      <4>. QED
        BY <4>1, <1>1
    <3>. QED
      BY <3>1, <1>6
  <2>2. \A h \in ks : n[h].a => m[h].a
    BY <1>6, <1>c
  <2>3. ASSUME NEW k \in lv
        PROVE  /\ k.at - 1 \in ks \ {0}
               /\ n[k.at - 1].a /\ n[k.at - 1].s = k.len + 1
               /\ \A q \in k.at .. (k.at + k.len - 1) : n[q] = JUNK
    <3>1. PICK x \in Nat, l \in Nat : x = k.at /\ l = k.len
      BY <1>13 DEF Owned
    <3>2. /\ x - 1 \in hs \ {0} /\ m[x - 1].a /\ m[x - 1].s = l + 1
          /\ \A q \in x .. (x + l - 1) : m[q] = JUNK
      BY <3>1, <1>13 DEF Owned
    <3>3. x - 1 \in ks /\ x - 1 # start /\ n[x - 1] = m[x - 1]
      BY <2>1, <3>2
    <3>4. x + l <= start \/ end <= x - 1
      BY <3>2, <3>3, <1>6
    <3>5. x + l <= b
      BY <3>2, <1>1, <1>2, <1>3 DEF Tiled
    <3>6. ASSUME NEW q \in x .. (x + l - 1) PROVE n[q] = JUNK
      <4>1. q \in Words /\ (q < start \/ end <= q)
        BY <3>4, <3>5, <1>1, WordFacts
      <4>. QED
        BY <4>1, <3>2, <1>a
    <3>. QED
      BY <3>1, <3>2, <3>3, <3>6
  <2>4. \A h \in ks \ {0} : n[h].a => \E k \in lv : k.at - 1 = h
    BY <2>2, <1>5, <1>13 DEF Owned
  <2>. QED
    BY <2>3, <2>4, <1>13 DEF Owned
<1>. QED
  BY <1>10, <1>11, <1>12, <1>13 DEF Sound

(* Every chunk but the first follows one, and the flag tells about it.     *)
LEMMA Predecessor ==
  ASSUME NEW m, NEW hs, NEW b, NEW c \in hs \ {0}, m[c].pf,
         Tiled(m, hs, b), Tagged(m, hs, {c + m[c].s})
  PROVE  /\ c - m[c - 1].s \in hs \ {0} /\ m[c - m[c - 1].s].s = m[c - 1].s
         /\ m[c - 1] = m[c - m[c - 1].s] /\ ~m[c - m[c - 1].s].a
<1>1. PICK h \in hs : h + m[h].s = c
  BY DEF Tiled
<1>0. h \in Nat /\ m[h].s \in Nat
  BY WordFacts DEF Tiled, Header
<1>2. ~m[h].a /\ m[c - 1] = m[h]
  <2>1. m[h + m[h].s].pf <=> ~m[h].a
    BY DEF Tagged
  <2>2. ~m[h].a => m[h + m[h].s - 1] = m[h]
    <3>1. c \in Nat /\ m[c].s \in Nat /\ m[c].s > 0 /\ m[h].s > 0
      BY WordFacts DEF Tiled, Header
    <3>2. h # c + m[c].s
      BY <3>1, <1>0, <1>1
    <3>. QED
      BY <3>2 DEF Tagged
  <2>3. m[h + m[h].s] = m[c] /\ m[h + m[h].s - 1] = m[c - 1]
    <3>1. h + m[h].s - 1 = c - 1
      BY <1>1, <1>0
    <3>2. m[h + m[h].s] = m[c]
      BY <1>1
    <3>3. m[h + m[h].s - 1] = m[c - 1]
      BY <3>1
    <3>. QED
      BY <3>2, <3>3
  <2>. QED
    BY <2>1, <2>2, <2>3
<1>3. h # 0
  BY <1>2 DEF Tiled
<1>5. c - m[c - 1].s = h
  <2>1. m[c - 1].s = m[h].s
    BY <1>2
  <2>. QED
    BY <2>1, <1>0, <1>1
<1>. QED
  BY <1>2, <1>3, <1>5

(* Where the chunk that coalesce makes of the free chunk c begins.         *)
LEMMA MergedStart ==
  ASSUME NEW m, NEW hs, NEW b, NEW c, Loose(m, hs, b, c)
  PROVE  LET start == Merged(m, c)
         IN  /\ start \in hs \ {0} /\ ~m[start].a /\ ~m[start].pf
             /\ m[c].pf => start + m[start].s = c /\ m[c - 1] = m[start]
             /\ ~m[c].pf => start = c
<1>0. Tiled(m, hs, b) /\ Tagged(m, hs, {c + m[c].s}) /\ c \in hs \ {0} /\ ~m[c].a
  BY DEF Loose
<1>1. CASE ~m[c].pf
  BY <1>0, <1>1 DEF Merged, PrevFree
<1>2. CASE m[c].pf
  <2>. DEFINE start == c - m[c - 1].s
  <2>1. Merged(m, c) = start
    BY <1>2 DEF Merged, PrevFree
  <2>2. /\ start \in hs \ {0} /\ m[start].s = m[c - 1].s
        /\ m[c - 1] = m[start] /\ ~m[start].a
    BY <1>0, <1>2, Predecessor
  <2>3. c \in Nat /\ start \in Nat /\ m[start].s \in Nat /\ m[start].s > 0
    BY <1>0, <2>2, WordFacts DEF Tiled, Header
  <2>4. start + m[start].s = c /\ start < c
    <3>1. PICK x, y : x = start /\ y = m[start].s
      OBVIOUS
    <3>2. x = c - y /\ x \in Nat /\ y \in Nat /\ y > 0 /\ c \in Nat
      BY <2>2, <2>3, <3>1
    <3>3. x + y = c /\ x < c
      BY <3>2
    <3>. QED
      BY <3>1, <3>3
  <2>. HIDE DEF start
  <2>5. ~m[start].pf
    <3>1. SUFFICES ASSUME m[start].pf PROVE FALSE
      OBVIOUS
    <3>2. PICK h \in hs : h + m[h].s = start
      BY <1>0, <2>2 DEF Tiled
    <3>3. ~m[h].a
      <4>1. m[h + m[h].s].pf <=> ~m[h].a
        BY <1>0 DEF Tagged
      <4>2. m[h + m[h].s] = m[start]
        BY <3>2
      <4>. QED
        BY <4>1, <4>2, <3>1
    <3>4. ~m[h + m[h].s].a
      BY <2>2, <3>2
    <3>5. h = c \/ h + m[h].s = c
      BY <3>3, <3>4 DEF Loose, Separate
    <3>6. h \in Nat /\ m[h].s \in Nat
      BY <1>0, WordFacts DEF Tiled, Header
    <3>. QED
      BY <2>3, <2>4, <3>2, <3>5, <3>6
  <2>. QED
    BY <1>2, <2>1, <2>2, <2>4, <2>5
<1>. QED
  BY <1>1, <1>2

(* And where it ends: behind c, or behind the free chunk that follows.     *)
Behind(m, c) ==
  IF NextFree(m, c) THEN NEXT_CHK(m, c) + m[NEXT_CHK(m, c)].s ELSE NEXT_CHK(m, c)

(* That end is a header in use, or the epilogue.                           *)
LEMMA MergedEnd ==
  ASSUME NEW m, NEW hs, NEW b, NEW c, Loose(m, hs, b, c)
  PROVE  LET end == Behind(m, c)
         IN  /\ end \in hs \cup {b} /\ NEXT_CHK(m, c) <= end
             /\ m[end].pf /\ m[end].a
             /\ NextFree(m, c) => NEXT_CHK(m, c) \in hs \ {0} /\ NEXT_CHK(m, c) < end
             /\ c < NEXT_CHK(m, c)
<1>. DEFINE next == NEXT_CHK(m, c)
<1>0. Tiled(m, hs, b) /\ Tagged(m, hs, {c + m[c].s}) /\ c \in hs \ {0} /\ ~m[c].a
  BY DEF Loose
<1>1. next = c + m[c].s
  BY DEF NEXT_CHK
<1>2. c \in Nat /\ m[c].s \in Nat /\ m[c].s > 0
  BY <1>0, WordFacts DEF Tiled, Header
<1>3. c < next /\ next \in Nat
  BY <1>1, <1>2
<1>4. next \in hs \cup {b}
  BY <1>0, <1>1 DEF Tiled
<1>5. m[next].pf
  <2>1. m[c + m[c].s].pf <=> ~m[c].a
    BY <1>0 DEF Tagged
  <2>2. m[c + m[c].s] = m[next]
    BY <1>1
  <2>. QED
    BY <2>1, <2>2, <1>0
<1>. HIDE DEF next
<1>6. CASE m[next].a
  <2>1. Behind(m, c) = next /\ ~NextFree(m, c)
    BY <1>6 DEF Behind, NextFree, next
  <2>. QED
    BY <2>1, <1>3, <1>4, <1>5, <1>6 DEF next
<1>7. CASE ~m[next].a
  <2>. DEFINE end == next + m[next].s
  <2>1. Behind(m, c) = end /\ NextFree(m, c)
    BY <1>7 DEF Behind, NextFree, next
  <2>2. next \in hs \ {0}
    BY <1>0, <1>3, <1>4, <1>7 DEF Tiled
  <2>3. m[next].s \in Nat /\ m[next].s > 0
    BY <1>0, <1>3, <2>2, WordFacts DEF Tiled, Header
  <2>4. next < end
    BY <1>3, <2>3
  <2>5. end \in hs \cup {b}
    BY <1>0, <2>2 DEF Tiled
  <2>6. m[end].pf
    BY <1>0, <1>7, <2>2 DEF Tagged
  <2>7. m[end].a
    <3>1. next # c /\ end # c
      BY <1>2, <1>3, <2>3
    <3>. QED
      BY <1>7, <2>2, <3>1 DEF Loose, Separate
  <2>8. next <= end
    BY <1>3, <2>3
  <2>. HIDE DEF end
  <2>9. /\ end \in hs \cup {b} /\ next <= end /\ m[end].pf /\ m[end].a
        /\ next \in hs \ {0} /\ next < end /\ c < next
    BY <2>2, <2>4, <2>5, <2>6, <2>7, <2>8, <1>3
  <2>. QED
    BY <2>1, <2>9 DEF next
<1>. QED
  BY <1>6, <1>7

(* A heap with a header and its footer written in.                         *)
LEMMA TwoWords ==
  ASSUME NEW m \in [Words -> Header], NEW p \in Words, NEW q \in Words, NEW w \in Header
  PROVE  LET n == SW(SW(m, p, w), q, w)
         IN  /\ n \in [Words -> Header] /\ n[p] = w /\ n[q] = w
             /\ \A x \in Words : x # p /\ x # q => n[x] = m[x]
BY DEF SW

(* coalesce leaves no two free neighbours, and touches no block in use.    *)
LEMMA Coalesce ==
  ASSUME NEW m, NEW hs, NEW b, NEW c, Loose(m, hs, b, c),
         NEW n, n = coalesce(m, c), NEW ks, ks = MergedHeads(m, c, hs)
  PROVE  /\ Sound(n, ks, b) /\ \A lv : Owned(m, hs, lv) => Owned(n, ks, lv)
         /\ Merged(m, c) \in ks \ {0} /\ ~n[Merged(m, c)].a /\ n[Merged(m, c)].s >= m[c].s
<1>0. /\ Tiled(m, hs, b) /\ Tagged(m, hs, {c + m[c].s}) /\ c \in hs \ {0} /\ ~m[c].a
      /\ Separate(m, hs, {h \in hs : h = c \/ h + m[h].s = c})
  BY DEF Loose
<1>1. PICK start : start = Merged(m, c)
  OBVIOUS
<1>2. PICK next : next = NEXT_CHK(m, c)
  OBVIOUS
<1>3. PICK end : end = Behind(m, c)
  OBVIOUS
<1>4. /\ start \in hs \ {0} /\ ~m[start].a /\ ~m[start].pf
      /\ m[c].pf => start + m[start].s = c /\ m[c - 1] = m[start]
      /\ ~m[c].pf => start = c
  BY <1>1, MergedStart
<1>5. /\ end \in hs \cup {b} /\ next <= end /\ m[end].pf /\ m[end].a
      /\ NextFree(m, c) => next \in hs \ {0} /\ next < end
      /\ c < next
  BY <1>2, <1>3, MergedEnd
<1>6. /\ NextFree(m, c) => end = next + m[next].s
      /\ ~NextFree(m, c) => end = next
      /\ next = c + m[c].s
  BY <1>2, <1>3 DEF Behind, NEXT_CHK
<1>7. /\ \A h \in hs : h \in Nat /\ m[h].s \in Nat /\ m[h].s > 0 /\ h < b /\ h \in Words
      /\ b \in Nat /\ b \in Words /\ m \in [Words -> Header]
  BY <1>0, WordFacts DEF Tiled, Header
<1>8. \A h, g \in hs : h < g => h + m[h].s <= g
  BY <1>0 DEF Tiled
<1>9. start \in Nat /\ c \in Nat /\ next \in Nat /\ end \in Nat /\ end <= b
  BY <1>0, <1>4, <1>5, <1>6, <1>7
<1>10. start <= c /\ start < end
  <2>1. start <= c
    <3>1. CASE m[c].pf
      <4>1. m[start].s \in Nat
        BY <1>4, <1>7
      <4>. QED
        BY <3>1, <4>1, <1>4, <1>9
    <3>2. CASE ~m[c].pf
      BY <3>2, <1>4, <1>9
    <3>. QED
      BY <3>1, <3>2
  <2>. QED
    BY <2>1, <1>5, <1>9
<1>11. ASSUME NEW h \in hs, start <= h, h < end
       PROVE  /\ ~m[h].a
              /\ h = start \/ (h = c /\ m[c].pf) \/ (h = next /\ NextFree(m, c))
  <2>1. CASE h < c
    <3>1. CASE m[c].pf
      <4>1. ~(start < h)
        <5>1. ASSUME start < h PROVE FALSE
          <6>1. start + m[start].s <= h
            BY <5>1, <1>4, <1>8
          <6>. QED
            BY <6>1, <3>1, <2>1, <1>4, <1>7, <1>9
        <5>. QED
          BY <5>1
      <4>2. h = start
        BY <4>1, <1>7, <1>9, <1>11
      <4>. QED
        BY <4>2, <1>4
    <3>2. CASE ~m[c].pf
      BY <3>2, <2>1, <1>4, <1>7, <1>9, <1>11
    <3>. QED
      BY <3>1, <3>2
  <2>2. CASE h = c
    BY <2>2, <1>0, <1>4
  <2>3. CASE c < h
    <3>1. next <= h
      BY <2>3, <1>0, <1>6, <1>8
    <3>2. NextFree(m, c)
      BY <3>1, <1>6, <1>7, <1>9, <1>11
    <3>3. ~(next < h)
      <4>1. ASSUME next < h PROVE FALSE
        <5>1. next + m[next].s <= h
          BY <4>1, <3>2, <1>5, <1>8
        <5>2. end <= h
          BY <5>1, <3>2, <1>6
        <5>. QED
          BY <5>2, <1>7, <1>9, <1>11
      <4>. QED
        BY <4>1
    <3>4. h = next
      BY <3>1, <3>3, <1>7, <1>9
    <3>5. ~m[next].a
      BY <3>2, <1>2 DEF NextFree
    <3>. QED
      BY <3>2, <3>4, <3>5
  <2>. QED
    BY <2>1, <2>2, <2>3, <1>7, <1>9
<1>12. Separate(m, hs, start .. (end - 1))
  <2>1. ASSUME NEW h \in hs, ~m[h].a, ~m[h + m[h].s].a
        PROVE  h \in start .. (end - 1)
    <3>1. h = c \/ h + m[h].s = c
      BY <2>1, <1>0 DEF Separate
    <3>2. CASE h = c
      BY <3>2, <1>5, <1>9, <1>10
    <3>3. CASE h + m[h].s = c
      <4>1. m[c].pf
        <5>1. m[h + m[h].s].pf <=> ~m[h].a
          BY <1>0 DEF Tagged
        <5>2. m[h + m[h].s] = m[c]
          BY <3>3
        <5>. QED
          BY <5>1, <5>2, <2>1
      <4>2. start + m[start].s = c
        BY <4>1, <1>4
      <4>3. ~(h < start)
        <5>1. ASSUME h < start PROVE FALSE
          <6>1. h + m[h].s <= start
            BY <5>1, <1>4, <1>8
          <6>2. m[start].s > 0 /\ m[start].s \in Nat
            BY <1>4, <1>7
          <6>. QED
            BY <6>1, <6>2, <3>3, <4>2, <1>9
        <5>. QED
          BY <5>1
      <4>4. h < c
        <5>1. h \in Nat /\ m[h].s \in Nat /\ m[h].s > 0
          BY <1>7
        <5>. QED
          BY <5>1, <3>3, <1>9
      <4>. QED
        BY <4>3, <4>4, <1>5, <1>7, <1>9
    <3>. QED
      BY <3>1, <3>2, <3>3
  <2>. QED
    BY <2>1 DEF Separate
<1>13. /\ n \in [Words -> Header]
       /\ n[start].s = end - start /\ ~n[start].a /\ ~n[start].pf
       /\ n[end - 1] = n[start]
       /\ \A q \in Words : q < start \/ end <= q => n[q] = m[q]
  <2>1. CASE ~m[c].pf /\ ~NextFree(m, c)
    <3>1. n = m /\ start = c /\ end = next
      BY <2>1, <1>4, <1>6 DEF coalesce, PrevFree
    <3>2. m[c].s \in Nat
      BY <1>0, <1>7
    <3>3. n[start].s = end - start
      BY <3>1, <3>2, <1>6, <1>9
    <3>4. n[end - 1] = n[start]
      <4>1. m[c + m[c].s - 1] = m[c]
        <5>1. c # c + m[c].s
          BY <1>5, <1>6, <1>9
        <5>. QED
          BY <5>1, <1>0 DEF Tagged
      <4>2. c + m[c].s - 1 = end - 1
        BY <3>1, <3>2, <1>6, <1>9
      <4>. QED
        BY <4>1, <4>2, <3>1
    <3>. QED
      BY <3>1, <3>3, <3>4, <1>4, <1>7
  <2>2. CASE m[c].pf \/ NextFree(m, c)
    <3>1. PICK w : w = PACK(end - start, FALSE, FALSE)
      OBVIOUS
    <3>2. (IF PrevFree(m, c) THEN m[c - 1].pf ELSE FALSE) = FALSE
      <4>1. CASE m[c].pf
        <5>1. m[start].pf = FALSE
          BY <1>4, <1>7 DEF Header
        <5>. QED
          BY <4>1, <5>1, <1>4 DEF PrevFree
      <4>2. CASE ~m[c].pf
        BY <4>2 DEF PrevFree
      <4>. QED
        BY <4>1, <4>2
    <3>3. n = SW(SW(m, start, w), end - 1, w)
      BY <2>2, <3>1, <3>2, <1>1, <1>2, <1>3 DEF coalesce, Behind, PrevFree
    <3>4. w \in Header /\ w.s = end - start /\ ~w.a /\ ~w.pf
      <4>1. end - start \in Nat
        BY <1>9, <1>10
      <4>. QED
        BY <3>1, <4>1, PackFacts
    <3>5. start \in Words /\ end - 1 \in Words
      BY <1>4, <1>7, <1>9, <1>10, WordFacts
    <3>6. /\ n \in [Words -> Header] /\ n[start] = w /\ n[end - 1] = w
          /\ \A x \in Words : x # start /\ x # end - 1 => n[x] = m[x]
      <4>1. m \in [Words -> Header] /\ w \in Header
        BY <3>4, <1>7
      <4>. QED
        BY ONLY <4>1, <3>3, <3>5, TwoWords
    <3>7. \A q \in Words : q < start \/ end <= q => n[q] = m[q]
      <4>1. \A q \in Words : q < start \/ end <= q => q # start /\ q # end - 1
        BY <1>9, <1>10, WordFacts
      <4>. QED
        BY <4>1, <3>6
    <3>. QED
      BY <3>4, <3>6, <3>7
  <2>. QED
    BY <2>1, <2>2
<1>14. Replaced(m, hs, start, end, n)
  <2>1. Tagged(m, hs, start .. (end - 1))
    <3>1. ASSUME NEW h \in hs, ~m[h].a, h = next PROVE h \in start .. (end - 1)
      <4>1. NextFree(m, c)
        BY <3>1, <1>2 DEF NextFree
      <4>. QED
        BY <3>1, <4>1, <1>5, <1>9, <1>10
    <3>. QED
      BY <3>1, <1>0, <1>6 DEF Tagged
  <2>. QED
    BY <2>1, <1>4, <1>5, <1>11, <1>12, <1>13 DEF Replaced
<1>15. ks = {h \in hs : ~(start < h /\ h < end)}
  <2>1. ASSUME NEW h \in ks PROVE h \in hs /\ ~(start < h /\ h < end)
    <3>1. /\ h \in hs /\ (m[c].pf => h # c)
          /\ NextFree(m, c) => h # next
      BY <1>2 DEF MergedHeads, PrevFree
    <3>2. start < h => h # start
      BY <1>9
    <3>3. start < h => start <= h
      BY <1>7, <1>9, <3>1
    <3>. QED
      BY <3>1, <3>2, <3>3, <1>11
  <2>2. ASSUME NEW h \in hs, ~(start < h /\ h < end) PROVE h \in ks
    <3>1. m[c].pf => h # c
      <4>1. m[c].pf => start < c
        BY <1>4, <1>7, <1>9
      <4>. QED
        BY <4>1, <2>2, <1>5, <1>9
    <3>2. NextFree(m, c) => h # next
      BY <2>2, <1>5, <1>9, <1>10
    <3>. QED
      BY <3>1, <3>2, <1>2 DEF MergedHeads, PrevFree
  <2>. QED
    BY <2>1, <2>2
<1>16. Sound(n, ks, b) /\ \A lv : Owned(m, hs, lv) => Owned(n, ks, lv)
  <2>1. /\ Tiled(m, hs, b) /\ start \in hs \ {0} /\ end \in hs \cup {b} /\ start < end
        /\ Replaced(m, hs, start, end, n) /\ ks = {h \in hs : ~(start < h /\ h < end)}
    BY <1>0, <1>4, <1>5, <1>10, <1>14, <1>15
  <2>. QED
    BY ONLY <2>1, FreeChunk
<1>17. start \in ks \ {0}
  BY <1>4, <1>9, <1>15
<1>18. n[start].s >= m[c].s
  <2>1. m[c].s \in Nat /\ n[start].s = end - start /\ next = c + m[c].s /\ next <= end
    BY <1>0, <1>5, <1>6, <1>7, <1>13
  <2>. QED
    BY <2>1, <1>9, <1>10
<1>. QED
  BY <1>1, <1>13, <1>16, <1>17, <1>18

(* What a heap looks like around one of its chunks.                        *)
LEMMA Around ==
  ASSUME NEW m, NEW hs, NEW b, Tiled(m, hs, b), NEW c \in hs
  PROVE  /\ c \in Nat /\ c \in Words /\ m[c].s \in Nat /\ m[c].s > 0
         /\ c + m[c].s \in hs \cup {b} /\ c + m[c].s \in Words /\ c + m[c].s <= b
         /\ \A h \in hs : h \in Nat /\ m[h].s \in Nat /\ m[h].s > 0 /\ h < b /\ h \in Words
         /\ \A h \in hs \ {c} : h + m[h].s <= c \/ c + m[c].s <= h
         /\ b \in Nat /\ b \in Words /\ b > 0 /\ m \in [Words -> Header]
<1>1. /\ \A h \in hs : h \in Nat /\ m[h].s \in Nat /\ m[h].s > 0 /\ h < b /\ h \in Words
      /\ b \in Nat /\ b \in Words /\ m \in [Words -> Header]
  BY WordFacts DEF Tiled, Header
<1>2. c + m[c].s \in hs \cup {b}
  BY DEF Tiled
<1>3. c + m[c].s \in Words /\ c + m[c].s <= b
  BY <1>1, <1>2
<1>4. \A h \in hs \ {c} : h < c \/ c < h
  BY <1>1
<1>5. \A h, g \in hs : h < g => h + m[h].s <= g
  BY DEF Tiled
<1>6. b > 0
  BY <1>1 DEF Tiled
<1>. QED
  BY <1>1, <1>2, <1>3, <1>4, <1>5, <1>6

(* New headers of the old sizes leave the chunks where they are.           *)
LEMMA SameTiles ==
  ASSUME NEW m, NEW hs, NEW b, Tiled(m, hs, b), NEW n \in [Words -> Header],
         \A h \in hs : n[h].s = m[h].s, n[0].a, n[b].s = 0, n[b].a
  PROVE  Tiled(n, hs, b)
BY DEF Tiled

(* The headers and the footer that lxfree writes before it merges.         *)
Released(m, c) ==
  LET hdr == [m[c] EXCEPT !.a = FALSE]
      next_hdr == c + hdr.s
  IN  SW(SW(SW(m, c, hdr), c + hdr.s - 1, hdr),
         next_hdr, [m[next_hdr] EXCEPT !.pf = TRUE])

(* They are where lxfree puts them, inside the heap.                       *)
LEMMA ReleasedWords ==
  ASSUME NEW m, NEW hs, NEW b, Tiled(m, hs, b), NEW c \in hs,
         NEW next, next = c + m[c].s, NEW n, n = Released(m, c)
  PROVE  /\ n \in [Words -> Header]
         /\ n[c].s = m[c].s /\ ~n[c].a /\ n[c].pf = m[c].pf
         /\ n[next - 1] = n[c]
         /\ n[next].s = m[next].s /\ n[next].a = m[next].a /\ n[next].pf
         /\ \A q \in Words : q < c \/ next < q => n[q] = m[q]
<1>2. /\ c \in Nat /\ next \in Nat /\ c < next /\ c \in Words /\ next \in Words
      /\ next - 1 \in Words /\ c <= next - 1 /\ m \in [Words -> Header]
  BY Around, WordFacts
<1>3. PICK w : w = [m[c] EXCEPT !.a = FALSE]
  OBVIOUS
<1>4. PICK v : v = [m[next] EXCEPT !.pf = TRUE]
  OBVIOUS
<1>5. w \in Header /\ w.s = m[c].s /\ ~w.a /\ w.pf = m[c].pf
  BY <1>2, <1>3 DEF Header
<1>6. v \in Header /\ v.s = m[next].s /\ v.a = m[next].a /\ v.pf
  BY <1>2, <1>4 DEF Header
<1>7. n = SW(SW(SW(m, c, w), next - 1, w), next, v)
  <2>1. c + w.s = next
    BY <1>5
  <2>2. c + w.s - 1 = next - 1
    <3>1. w.s \in Nat
      BY <1>5 DEF Header
    <3>. QED
      BY <2>1, <3>1, <1>2
  <2>. QED
    BY <1>3, <1>4, <2>1, <2>2 DEF Released
<1>8. /\ n \in [Words -> Header] /\ n[c] = w /\ n[next - 1] = w /\ n[next] = v
      /\ \A q \in Words : q # c /\ q # next - 1 /\ q # next => n[q] = m[q]
  BY <1>2, <1>5, <1>6, <1>7 DEF SW
<1>9. \A q \in Words : q < c \/ next < q => q # c /\ q # next - 1 /\ q # next
  BY <1>2, WordFacts
<1>. QED
  BY <1>5, <1>6, <1>8, <1>9

(* A released chunk may have free neighbours; the other blocks are intact. *)
LEMMA Release ==
  ASSUME NEW m, NEW hs, NEW b, Sound(m, hs, b), NEW lv, Owned(m, hs, lv),
         NEW k \in lv, NEW c, c = k.at - 1, NEW n, n = Released(m, c)
  PROVE  c \in hs /\ m[c].s = k.len + 1 /\ Loose(n, hs, b, c) /\ Owned(n, hs, lv \ {k})
<1>0. Tiled(m, hs, b) /\ Tagged(m, hs, {}) /\ Separate(m, hs, {})
  BY DEF Sound
<1>1. c \in hs \ {0} /\ m[c].a /\ m[c].s = k.len + 1
  BY DEF Owned
<1>2. PICK next : next = c + m[c].s
  OBVIOUS
<1>3. /\ c \in Nat /\ c \in Words /\ m[c].s \in Nat /\ m[c].s > 0
      /\ next \in hs \cup {b} /\ next \in Words /\ next <= b
      /\ \A h \in hs : h \in Nat /\ m[h].s \in Nat /\ m[h].s > 0 /\ h < b /\ h \in Words
      /\ \A h \in hs \ {c} : h + m[h].s <= c \/ next <= h
      /\ b \in Nat /\ b \in Words /\ m \in [Words -> Header]
  BY <1>0, <1>1, <1>2, Around
<1>4. /\ n \in [Words -> Header]
      /\ n[c].s = m[c].s /\ ~n[c].a /\ n[c].pf = m[c].pf
      /\ n[next - 1] = n[c]
      /\ n[next].s = m[next].s /\ n[next].a = m[next].a /\ n[next].pf
      /\ \A q \in Words : q < c \/ next < q => n[q] = m[q]
  BY <1>0, <1>1, <1>2, ReleasedWords
<1>5. c < next /\ next \in Nat
  BY <1>2, <1>3
<1>6. ASSUME NEW g \in hs \cup {b}, g # c
      PROVE  n[g].s = m[g].s /\ n[g].a = m[g].a /\ (g # next => n[g] = m[g])
  <2>1. CASE g = next
    BY <2>1, <1>4
  <2>2. CASE g # next
    <3>1. g \in Nat /\ g \in Words
      BY <1>3
    <3>2. g < c \/ next < g
      <4>1. CASE g \in hs
        <5>1. g + m[g].s <= c \/ next <= g
          BY <4>1, <1>3, <1>6
        <5>. QED
          BY <4>1, <5>1, <2>2, <3>1, <1>3, <1>5
      <4>2. CASE g = b
        BY <4>2, <2>2, <1>3, <1>5
      <4>. QED
        BY <4>1, <4>2
    <3>. QED
      BY <2>2, <3>1, <3>2, <1>4
  <2>. QED
    BY <2>1, <2>2
<1>7. Tiled(n, hs, b)
  <2>1. \A h \in hs : n[h].s = m[h].s
    BY <1>4, <1>6
  <2>2. n[0].a /\ n[b].s = 0 /\ n[b].a
    <3>1. b # c /\ 0 # c /\ 0 \in hs /\ m[0].a /\ m[b].s = 0 /\ m[b].a
      BY <1>0, <1>1, <1>3 DEF Tiled
    <3>2. n[0].a = m[0].a /\ n[b].s = m[b].s /\ n[b].a = m[b].a
      BY <3>1, <1>6
    <3>. QED
      BY <3>1, <3>2
  <2>. QED
    BY <2>1, <2>2, <1>0, <1>4, SameTiles
<1>8. ASSUME NEW h \in hs, h # c
      PROVE  LET g == h + m[h].s
             IN  /\ g \in hs \cup {b} /\ g # next /\ g \in Nat /\ n[g].pf = m[g].pf
                 /\ n[h].a = m[h].a /\ n[h].s = m[h].s
                 /\ h # next => n[h] = m[h] /\ n[g - 1] = m[g - 1]
  <2>1. PICK g : g = h + m[h].s
    OBVIOUS
  <2>2. /\ g \in hs \cup {b} /\ g \in Nat /\ h < g /\ h \in Nat
        /\ g <= c \/ next <= h
    BY <2>1, <1>0, <1>3, <1>8 DEF Tiled
  <2>3. g # next
    BY <2>2, <1>3, <1>5
  <2>4. n[g].pf = m[g].pf
    BY <2>2, <2>3, <1>4, <1>6
  <2>5. n[h].a = m[h].a /\ n[h].s = m[h].s /\ (h # next => n[h] = m[h])
    BY <1>6, <1>8
  <2>6. h # next => n[g - 1] = m[g - 1]
    <3>1. g - 1 \in Words
      BY <2>2, <1>3, WordFacts
    <3>2. h # next => g - 1 < c \/ next < g - 1
      BY <2>2, <1>3, <1>5
    <3>. QED
      BY <3>1, <3>2, <1>4
  <2>. QED
    BY <2>1, <2>2, <2>3, <2>4, <2>5, <2>6
<1>9. Tagged(n, hs, {c + n[c].s})
  <2>1. ASSUME NEW h \in hs
        PROVE  /\ n[h + n[h].s].pf <=> ~n[h].a
               /\ ~n[h].a => n[h + n[h].s - 1] = n[h] \/ h \in {c + n[c].s}
    <3>1. CASE h = c
      <4>1. h + n[h].s = next
        BY <3>1, <1>2, <1>4
      <4>2. n[h + n[h].s] = n[next]
        BY <4>1
      <4>3. n[h + n[h].s - 1] = n[next - 1]
        <5>1. h + n[h].s - 1 = next - 1
          BY <4>1, <1>5, <3>1, <1>3, <1>4
        <5>. QED
          BY <5>1
      <4>. QED
        BY <4>2, <4>3, <3>1, <1>4
    <3>2. CASE h # c
      <4>1. PICK g : g = h + m[h].s
        OBVIOUS
      <4>2. /\ g \in Nat /\ n[g].pf = m[g].pf /\ n[h].a = m[h].a /\ n[h].s = m[h].s
            /\ h # next => n[h] = m[h] /\ n[g - 1] = m[g - 1]
        BY <3>2, <4>1, <1>8
      <4>3. (m[g].pf <=> ~m[h].a) /\ (~m[h].a => m[g - 1] = m[h])
        <5>1. /\ m[h + m[h].s].pf <=> ~m[h].a
              /\ ~m[h].a => m[h + m[h].s - 1] = m[h]
          BY <1>0 DEF Tagged
        <5>2. m[h + m[h].s] = m[g]
          BY <4>1
        <5>3. m[h + m[h].s - 1] = m[g - 1]
          <6>1. h + m[h].s - 1 = g - 1
            BY <4>1, <4>2, <1>3
          <6>. QED
            BY <6>1
        <5>. QED
          BY <5>1, <5>2, <5>3
      <4>4. h + n[h].s = g
        BY <4>1, <4>2
      <4>5. n[h + n[h].s] = n[g]
        BY <4>4
      <4>6. n[h + n[h].s - 1] = n[g - 1]
        <5>1. h + n[h].s - 1 = g - 1
          BY <4>2, <4>4, <1>3
        <5>. QED
          BY <5>1
      <4>7. h = next => h \in {c + n[c].s}
        BY <1>2, <1>4
      <4>. QED
        BY <4>2, <4>3, <4>5, <4>6, <4>7
    <3>. QED
      BY <3>1, <3>2
  <2>. QED
    BY <2>1 DEF Tagged
<1>10. Separate(n, hs, {h \in hs : h = c \/ h + n[h].s = c})
  <2>1. ASSUME NEW h \in hs, ~n[h].a, ~n[h + n[h].s].a, h # c, h + n[h].s # c
        PROVE  FALSE
    <3>1. PICK g : g = h + m[h].s
      OBVIOUS
    <3>2. g \in hs \cup {b} /\ n[h].a = m[h].a /\ n[h].s = m[h].s
      BY <2>1, <3>1, <1>8
    <3>3. g # c /\ ~n[g].a
      BY <2>1, <3>1, <3>2
    <3>4. n[g].a = m[g].a
      BY <3>2, <3>3, <1>6
    <3>. QED
      BY <2>1, <3>1, <3>2, <3>3, <3>4, <1>0 DEF Separate
  <2>. QED
    BY <2>1 DEF Separate
<1>11. Owned(n, hs, lv \ {k})
  <2>1. ASSUME NEW r \in lv \ {k}
        PROVE  /\ r.at - 1 \in hs \ {0}
               /\ n[r.at - 1].a /\ n[r.at - 1].s = r.len + 1
               /\ \A q \in r.at .. (r.at + r.len - 1) : n[q] = JUNK
    <3>1. PICK x \in Nat, l \in Nat : x = r.at /\ l = r.len
      BY DEF Owned
    <3>2. /\ x - 1 \in hs \ {0} /\ m[x - 1].a /\ m[x - 1].s = l + 1
          /\ \A q \in x .. (x + l - 1) : m[q] = JUNK
      BY <3>1 DEF Owned
    <3>3. x - 1 # c
      <4>1. ASSUME x - 1 = c PROVE FALSE
        <5>1. r.at = k.at
          <6>1. k.at \in Nat
            BY DEF Owned
          <6>. QED
            BY <6>1, <3>1, <4>1
        <5>2. r.len = k.len
          <6>1. k.len \in Nat /\ m[c].s = l + 1
            BY <4>1, <3>2 DEF Owned
          <6>. QED
            BY <6>1, <3>1, <1>1
        <5>3. r \in [at : Nat, len : Nat] /\ k \in [at : Nat, len : Nat]
          BY DEF Owned
        <5>. QED
          BY <5>1, <5>2, <5>3
      <4>. QED
        BY <4>1
    <3>4. n[x - 1].a = m[x - 1].a /\ n[x - 1].s = m[x - 1].s
      BY <3>2, <3>3, <1>6
    <3>5. x - 1 + (l + 1) <= c \/ next <= x - 1
      BY <3>2, <3>3, <1>3
    <3>6. x + l <= b
      BY <3>2, <1>0, Around
    <3>7. ASSUME NEW q \in x .. (x + l - 1) PROVE n[q] = JUNK
      <4>1. q \in Words /\ (q < c \/ next < q)
        BY <3>5, <3>6, <1>3, <1>5, WordFacts
      <4>. QED
        BY <4>1, <3>2, <1>4
    <3>. QED
      BY <3>1, <3>2, <3>4, <3>7
  <2>2. ASSUME NEW h \in hs \ {0}, n[h].a PROVE \E r \in lv \ {k} : r.at - 1 = h
    <3>1. h # c /\ m[h].a
      <4>1. h # c
        BY <2>2, <1>4
      <4>. QED
        BY <2>2, <4>1, <1>6
    <3>2. PICK r \in lv : r.at - 1 = h
      BY <3>1 DEF Owned
    <3>. QED
      BY <3>1, <3>2
  <2>. QED
    BY <2>1, <2>2 DEF Owned
<1>. QED
  BY <1>1, <1>4, <1>7, <1>9, <1>10, <1>11 DEF Loose

(* The heap grown by sz words: the old epilogue is a free chunk.           *)
Extended(m, b, sz) ==
  LET free_hdr == PACK(sz, FALSE, m[b].pf)
  IN  SW(SW(SW(m, b, free_hdr), b + sz - 1, free_hdr), b + sz, PACK(0, TRUE, TRUE))

(* The new chunk may follow a free one; the blocks are intact.             *)
LEMMA Extend ==
  ASSUME NEW m, NEW hs, NEW b, Sound(m, hs, b), NEW lv, Owned(m, hs, lv),
         NEW sz \in Nat \ {0}, NEW e \in Words, e = b + sz,
         NEW n, n = Extended(m, b, sz), NEW ks, ks = hs \cup {b}
  PROVE  Loose(n, ks, e, b) /\ n[b].s = sz /\ Owned(n, ks, lv)
<1>0. /\ Tiled(m, hs, b) /\ Tagged(m, hs, {}) /\ Separate(m, hs, {})
      /\ 0 \in hs /\ m[0].a /\ m[b].a
  BY DEF Sound, Tiled
<1>1. /\ \A h \in hs : /\ h \in Nat /\ m[h].s \in Nat /\ m[h].s > 0 /\ h < b /\ h \in Words
                       /\ h + m[h].s \in hs \cup {b} /\ h + m[h].s <= b
      /\ b \in Nat /\ b \in Words /\ b > 0 /\ m \in [Words -> Header]
  BY <1>0, Around
<1>2. e \in Nat /\ e - 1 \in Words /\ b < e /\ b <= e - 1
  BY <1>1, WordFacts
<1>3. PICK w : w = PACK(sz, FALSE, m[b].pf)
  OBVIOUS
<1>4. PICK v : v = PACK(0, TRUE, TRUE)
  OBVIOUS
<1>5. w \in Header /\ w.s = sz /\ ~w.a /\ w.pf = m[b].pf
  <2>1. m[b].pf \in BOOLEAN
    BY <1>1 DEF Header
  <2>. QED
    BY <2>1, <1>3 DEF PACK, Header
<1>6. v \in Header /\ v.s = 0 /\ v.a /\ v.pf
  BY <1>4 DEF PACK, Header
<1>7. n = SW(SW(SW(m, b, w), e - 1, w), e, v)
  <2>1. b + sz - 1 = e - 1
    BY <1>1
  <2>. QED
    BY <1>3, <1>4, <2>1 DEF Extended
<1>8. /\ n \in [Words -> Header] /\ n[b] = w /\ n[e - 1] = w /\ n[e] = v
      /\ \A q \in Words : q # b /\ q # e - 1 /\ q # e => n[q] = m[q]
  BY <1>1, <1>2, <1>5, <1>6, <1>7 DEF SW
<1>9. \A q \in Words : q < b => n[q] = m[q]
  BY <1>1, <1>2, <1>8, WordFacts
<1>10. \A h \in hs : n[h] = m[h] /\ h # b /\ h \in ks
  BY <1>1, <1>9
<1>11. Tiled(n, ks, e)
  <2>1. ks \subseteq 0 .. (e - 1) /\ 0 \in ks /\ n[0].a
    BY <1>0, <1>1, <1>2, <1>10
  <2>2. ASSUME NEW h \in ks PROVE n[h].s > 0 /\ h + n[h].s \in ks \cup {e}
    <3>1. CASE h = b
      BY <3>1, <1>5, <1>8
    <3>2. CASE h # b
      BY <3>2, <1>1, <1>10
    <3>. QED
      BY <3>1, <3>2
  <2>3. ASSUME NEW h \in ks, NEW g \in ks, h < g PROVE h + n[h].s <= g
    <3>1. h \in hs
      BY <2>3, <1>1
    <3>2. n[h] = m[h]
      BY <3>1, <1>10
    <3>3. h + m[h].s <= g
      BY <2>3, <3>1, <1>0, <1>1 DEF Tiled
    <3>. QED
      BY <3>2, <3>3
  <2>4. ASSUME NEW g \in (ks \cup {e}) \ {0} PROVE \E h \in ks : h + n[h].s = g
    <3>1. CASE g = e
      BY <3>1, <1>5, <1>8
    <3>2. CASE g # e
      <4>1. PICK h \in hs : h + m[h].s = g
        BY <3>2, <1>0 DEF Tiled
      <4>. QED
        BY <4>1, <1>10
    <3>. QED
      BY <3>1, <3>2
  <2>. QED
    BY <2>1, <2>2, <2>3, <2>4, <1>6, <1>8 DEF Tiled
<1>12. ASSUME NEW h \in hs
       PROVE  LET g == h + m[h].s
              IN  /\ g \in hs \cup {b} /\ g \in Nat /\ n[g].pf = m[g].pf
                  /\ n[g - 1] = m[g - 1]
  <2>1. PICK g : g = h + m[h].s
    OBVIOUS
  <2>2. g \in hs \cup {b} /\ g \in Nat /\ g <= b /\ g - 1 \in Words /\ g - 1 < b
    BY <2>1, <1>1, WordFacts
  <2>3. n[g].pf = m[g].pf
    BY <2>2, <1>5, <1>8, <1>10
  <2>. QED
    BY <2>1, <2>2, <2>3, <1>9
<1>13. Tagged(n, ks, {b + n[b].s})
  <2>1. ASSUME NEW h \in ks
        PROVE  /\ n[h + n[h].s].pf <=> ~n[h].a
               /\ ~n[h].a => n[h + n[h].s - 1] = n[h] \/ h \in {b + n[b].s}
    <3>1. CASE h = b
      <4>1. h + n[h].s = e
        BY <3>1, <1>5, <1>8
      <4>2. h + n[h].s - 1 = e - 1
        BY <3>1, <4>1, <1>1, <1>5, <1>8
      <4>3. n[h + n[h].s] = n[e] /\ n[h + n[h].s - 1] = n[e - 1]
        <5>1. n[h + n[h].s] = n[e]
          BY <4>1
        <5>2. n[h + n[h].s - 1] = n[e - 1]
          BY <4>2
        <5>. QED
          BY <5>1, <5>2
      <4>. QED
        BY <4>3, <3>1, <1>5, <1>6, <1>8
    <3>2. CASE h # b
      <4>1. h \in hs /\ n[h] = m[h]
        BY <3>2, <1>10
      <4>2. PICK g : g = h + m[h].s
        OBVIOUS
      <4>3. g \in Nat /\ n[g].pf = m[g].pf /\ n[g - 1] = m[g - 1]
        BY <4>1, <4>2, <1>12
      <4>4. /\ m[h + m[h].s].pf <=> ~m[h].a
            /\ ~m[h].a => m[h + m[h].s - 1] = m[h]
        BY <4>1, <1>0 DEF Tagged
      <4>5. m[h + m[h].s] = m[g] /\ n[h + n[h].s] = n[g]
        <5>1. m[h + m[h].s] = m[g]
          BY <4>2
        <5>2. h + n[h].s = g
          BY <4>1, <4>2
        <5>3. n[h + n[h].s] = n[g]
          BY <5>2
        <5>. QED
          BY <5>1, <5>3
      <4>6. m[h + m[h].s - 1] = m[g - 1] /\ n[h + n[h].s - 1] = n[g - 1]
        <5>1. h + m[h].s - 1 = g - 1
          BY <4>1, <4>2, <4>3, <1>1
        <5>2. h + n[h].s - 1 = g - 1
          BY <4>1, <4>2, <4>3, <1>1
        <5>3. m[h + m[h].s - 1] = m[g - 1]
          BY <5>1
        <5>4. n[h + n[h].s - 1] = n[g - 1]
          BY <5>2
        <5>. QED
          BY <5>3, <5>4
      <4>. QED
        BY <4>1, <4>3, <4>4, <4>5, <4>6
    <3>. QED
      BY <3>1, <3>2
  <2>. QED
    BY <2>1 DEF Tagged
<1>14. Separate(n, ks, {h \in ks : h = b \/ h + n[h].s = b})
  <2>1. ASSUME NEW h \in ks, ~n[h].a, ~n[h + n[h].s].a, h # b, h + n[h].s # b
        PROVE  FALSE
    <3>1. h \in hs /\ n[h] = m[h]
      BY <2>1, <1>10
    <3>2. PICK g : g = h + m[h].s
      OBVIOUS
    <3>3. g \in hs /\ n[g] = m[g]
      BY <2>1, <3>1, <3>2, <1>1, <1>10
    <3>4. n[h + n[h].s] = n[g]
      BY <3>1, <3>2
    <3>. QED
      BY <2>1, <3>1, <3>2, <3>3, <3>4, <1>0 DEF Separate
  <2>. QED
    BY <2>1 DEF Separate
<1>15. Owned(n, ks, lv)
  <2>1. ASSUME NEW r \in lv
        PROVE  /\ r.at - 1 \in ks \ {0}
               /\ n[r.at - 1].a /\ n[r.at - 1].s = r.len + 1
               /\ \A q \in r.at .. (r.at + r.len - 1) : n[q] = JUNK
    <3>1. PICK x \in Nat, l \in Nat : x = r.at /\ l = r.len
      BY DEF Owned
    <3>2. /\ x - 1 \in hs \ {0} /\ m[x - 1].a /\ m[x - 1].s = l + 1
          /\ \A q \in x .. (x + l - 1) : m[q] = JUNK
      BY <3>1 DEF Owned
    <3>3. n[x - 1] = m[x - 1] /\ x - 1 \in ks
      BY <3>2, <1>10
    <3>4. x + l <= b
      BY <3>2, <1>1
    <3>5. ASSUME NEW q \in x .. (x + l - 1) PROVE n[q] = JUNK
      <4>1. q \in Words /\ q < b
        BY <3>4, <1>1, WordFacts
      <4>. QED
        BY <4>1, <3>2, <1>9
    <3>. QED
      BY <3>1, <3>2, <3>3, <3>5
  <2>2. ASSUME NEW h \in ks \ {0}, n[h].a PROVE \E r \in lv : r.at - 1 = h
    <3>1. h \in hs /\ m[h].a
      BY <2>2, <1>5, <1>8, <1>10
    <3>. QED
      BY <3>1 DEF Owned
  <2>. QED
    BY <2>1, <2>2 DEF Owned
<1>. QED
  BY <1>1, <1>5, <1>8, <1>11, <1>13, <1>14, <1>15 DEF Loose

(* The free chunk from p to end is taken up to nx: what is left of it is a *)
(* free chunk, and the owner of the first part writes all over it.         *)
Taken(m, p, nx, end, x) ==
  /\ x \in [Words -> Header]
  /\ x[p].s = nx - p /\ x[p].a /\ (x[p].pf <=> m[p].pf)
  /\ \A q \in Words : p < q /\ q < nx => x[q] = JUNK
  /\ \A q \in Words : q < p \/ end < q => x[q] = m[q]
  /\ x[end].s = m[end].s /\ x[end].a /\ (x[end].pf <=> nx < end)
  /\ nx < end => /\ x[nx].s = end - nx /\ ~x[nx].a /\ ~x[nx].pf
                 /\ x[end - 1] = x[nx]

TakenHeads(hs, nx, end) == IF nx < end THEN hs \cup {nx} ELSE hs

(* A chunk is taken: the heap stays sound, and the other blocks intact.    *)
LEMMA TakeChunk ==
  ASSUME NEW m, NEW hs, NEW b, Sound(m, hs, b), NEW lv, Owned(m, hs, lv),
         NEW p \in hs \ {0}, ~m[p].a, NEW end, end = p + m[p].s,
         NEW nx \in Nat, p < nx, nx <= end, NEW x, Taken(m, p, nx, end, x),
         NEW ks, ks = TakenHeads(hs, nx, end),
         NEW k, k = [at |-> p + 1, len |-> nx - p - 1]
  PROVE  Sound(x, ks, b) /\ Owned(x, ks, lv \cup {k})
<1>0. Tiled(m, hs, b) /\ Tagged(m, hs, {}) /\ Separate(m, hs, {})
  BY DEF Sound
<1>a. /\ p \in Nat /\ p \in Words /\ m[p].s \in Nat
      /\ p + m[p].s \in hs \cup {b} /\ p + m[p].s \in Words /\ p + m[p].s <= b
      /\ \A h \in hs : h \in Nat /\ m[h].s \in Nat /\ m[h].s > 0 /\ h < b /\ h \in Words
      /\ \A h \in hs \ {p} : h + m[h].s <= p \/ p + m[p].s <= h
      /\ b \in Nat /\ b \in Words /\ m \in [Words -> Header]
  BY ONLY <1>0, Around, p \in hs \ {0}
<1>b. p > 0 /\ end \in Nat
  BY <1>a, WordFacts
<1>1. /\ p \in Nat /\ p \in Words /\ end \in Nat /\ end \in Words /\ end <= b
      /\ end \in hs \cup {b} /\ p > 0
      /\ \A h \in hs : h \in Nat /\ m[h].s \in Nat /\ m[h].s > 0 /\ h < b /\ h \in Words
      /\ \A h \in hs \ {p} : h + m[h].s <= p \/ end <= h
      /\ b \in Nat /\ b \in Words /\ m \in [Words -> Header]
  BY <1>a, <1>b
<1>2. m[end].a
  <2>1. ~m[p].a => m[p + m[p].s].a
    BY <1>0 DEF Separate
  <2>2. m[p + m[p].s] = m[end]
    OBVIOUS
  <2>. QED
    BY <2>1, <2>2
<1>3. x[p].s = nx - p /\ x[p].a /\ (x[p].pf <=> m[p].pf) /\ x \in [Words -> Header]
  BY DEF Taken
<1>4. \A q \in Words : q < p \/ end < q => x[q] = m[q]
  BY DEF Taken
<1>5. x[end].s = m[end].s /\ x[end].a /\ (x[end].pf <=> nx < end)
  BY DEF Taken
<1>6. nx < end => /\ x[nx].s = end - nx /\ ~x[nx].a /\ ~x[nx].pf /\ x[end - 1] = x[nx]
  BY DEF Taken
<1>7. /\ hs \subseteq ks /\ \A h \in ks : h \in hs \/ (h = nx /\ nx < end)
      /\ nx < end => nx \in ks
  BY DEF TakenHeads
<1>8. ASSUME NEW g \in hs \cup {b}, g # p
      PROVE  /\ x[g].s = m[g].s /\ (x[g].a <=> m[g].a) /\ (g # end => x[g] = m[g])
             /\ g \in Nat /\ (g < p \/ end <= g)
  <2>1. g \in Nat /\ g \in Words /\ (g < p \/ end <= g)
    <3>1. CASE g \in hs
      <4>1. g + m[g].s <= p \/ end <= g
        BY <3>1, <1>1, <1>8
      <4>. QED
        BY <3>1, <4>1, <1>1
    <3>2. CASE g = b
      BY <3>2, <1>1
    <3>. QED
      BY <3>1, <3>2
  <2>2. CASE g = end
    BY <2>1, <2>2, <1>2, <1>5
  <2>3. CASE g # end
    <3>1. x[g] = m[g]
      BY <2>1, <2>3, <1>1, <1>4
    <3>. QED
      BY <2>1, <2>3, <3>1
  <2>. QED
    BY <2>2, <2>3
<1>9. ASSUME NEW h \in hs, h # p
      PROVE  LET g == h + m[h].s
             IN  /\ g \in hs \cup {b} /\ g \in Nat /\ h < g /\ g # end
                 /\ g <= p \/ end < g
                 /\ x[g].pf <=> m[g].pf
                 /\ h # end => x[g - 1] = m[g - 1]
  <2>1. PICK g : g = h + m[h].s
    OBVIOUS
  <2>2. g \in hs \cup {b} /\ g \in Nat /\ h < g /\ h \in Nat /\ (g <= p \/ end <= h)
    BY <2>1, <1>0, <1>1, <1>9 DEF Tiled
  <2>3. g <= p \/ end < g
    BY <2>2, <1>1
  <2>4. g # end
    BY <2>2, <2>3, <1>1
  <2>5. x[g].pf <=> m[g].pf
    <3>1. CASE g = p
      BY <3>1, <1>3
    <3>2. CASE g # p
      BY <3>2, <2>2, <2>4, <1>8
    <3>. QED
      BY <3>1, <3>2
  <2>6. h # end => x[g - 1] = m[g - 1]
    <3>1. g - 1 \in Words
      BY <2>2, <1>1, WordFacts
    <3>2. h # end => g - 1 < p \/ end < g - 1
      BY <2>2, <1>1
    <3>. QED
      BY <3>1, <3>2, <1>4
  <2>. QED
    BY <2>1, <2>2, <2>3, <2>4, <2>5, <2>6
<1>10. p + x[p].s = nx /\ (nx < end => nx + x[nx].s = end) /\ nx \in ks \cup {b}
  <2>1. p + x[p].s = nx
    BY <1>1, <1>3
  <2>2. nx < end => nx + x[nx].s = end
    BY <1>1, <1>6
  <2>3. nx \in ks \cup {b}
    BY <1>1, <1>7
  <2>. QED
    BY <2>1, <2>2, <2>3
<1>11. Tiled(x, ks, b)
  <2>1. ks \subseteq 0 .. (b - 1) /\ 0 \in ks /\ x[0].a /\ x[b].s = 0 /\ x[b].a
    <3>1. 0 \in hs /\ m[0].a /\ m[b].s = 0 /\ m[b].a /\ hs \subseteq 0 .. (b - 1)
      BY <1>0 DEF Tiled
    <3>2. b # p /\ 0 # p
      BY <1>1
    <3>3. x[0].a /\ x[b].s = 0 /\ x[b].a
      BY <3>1, <3>2, <1>8
    <3>4. ASSUME NEW h \in ks PROVE h \in 0 .. (b - 1)
      <4>1. nx < end => nx \in 0 .. (b - 1)
        BY <1>1
      <4>. QED
        BY <3>1, <4>1, <1>7
    <3>. QED
      BY <3>1, <3>3, <3>4, <1>7
  <2>2. ASSUME NEW h \in ks PROVE x[h].s > 0 /\ h + x[h].s \in ks \cup {b}
    <3>1. CASE h = p
      BY <3>1, <1>1, <1>3, <1>10
    <3>2. CASE h # p /\ h \in hs
      <4>1. x[h].s = m[h].s
        BY <3>2, <1>8
      <4>2. m[h].s > 0 /\ h + m[h].s \in hs \cup {b}
        BY <3>2, <1>0 DEF Tiled
      <4>. QED
        BY <4>1, <4>2, <1>7
    <3>3. CASE h = nx /\ nx < end
      BY <3>3, <1>1, <1>6, <1>7, <1>10
    <3>. QED
      BY <3>1, <3>2, <3>3, <1>7
  <2>3. ASSUME NEW h \in ks, NEW g \in ks, h < g PROVE h + x[h].s <= g
    <3>1. CASE h = p
      <4>1. CASE g = nx
        BY <3>1, <4>1, <1>10
      <4>2. CASE g \in hs
        <5>1. g \in Nat /\ g # p /\ (g < p \/ end <= g)
          BY <2>3, <3>1, <4>2, <1>1, <1>8
        <5>. QED
          BY <2>3, <3>1, <5>1, <1>1, <1>10
      <4>. QED
        BY <4>1, <4>2, <1>7
    <3>2. CASE h # p /\ h \in hs
      <4>1. x[h].s = m[h].s
        BY <3>2, <1>8
      <4>2. CASE g \in hs
        BY <2>3, <3>2, <4>1, <4>2, <1>0 DEF Tiled
      <4>3. CASE g = nx /\ nx < end
        <5>1. h + m[h].s <= p \/ end <= h
          BY <3>2, <1>1
        <5>2. h \in Nat /\ m[h].s \in Nat
          BY <3>2, <1>1
        <5>3. h + m[h].s <= g
          BY <2>3, <4>3, <5>1, <5>2, <1>1
        <5>. QED
          BY <4>1, <5>3
      <4>. QED
        BY <4>2, <4>3, <1>7
    <3>3. CASE h = nx /\ nx < end
      <4>1. g \in hs /\ g # p /\ g \in Nat
        BY <2>3, <3>3, <1>1, <1>7
      <4>2. end <= g
        BY <2>3, <3>3, <4>1, <1>1, <1>8
      <4>. QED
        BY <3>3, <4>2, <1>10
    <3>. QED
      BY <3>1, <3>2, <3>3, <1>7
  <2>4. ASSUME NEW g \in (ks \cup {b}) \ {0} PROVE \E h \in ks : h + x[h].s = g
    <3>1. CASE g = nx
      BY <3>1, <1>7, <1>10
    <3>2. CASE g # nx /\ g = end
      BY <3>2, <1>1, <1>7, <1>10
    <3>3. CASE g # nx /\ g # end
      <4>1. PICK h \in hs : h + m[h].s = g
        BY <3>3, <1>0, <1>7 DEF Tiled
      <4>2. h # p
        BY <3>3, <4>1
      <4>3. x[h].s = m[h].s
        BY <4>2, <1>8
      <4>. QED
        BY <4>1, <4>3, <1>7
    <3>. QED
      BY <3>1, <3>2, <3>3
  <2>. QED
    BY <2>1, <2>2, <2>3, <2>4, <1>1, <1>3 DEF Tiled
<1>12. Tagged(x, ks, {})
  <2>1. ASSUME NEW h \in ks
        PROVE  /\ x[h + x[h].s].pf <=> ~x[h].a
               /\ ~x[h].a => x[h + x[h].s - 1] = x[h]
    <3>1. CASE h = p
      <4>1. x[h + x[h].s] = x[nx]
        BY <3>1, <1>10
      <4>2. ~x[nx].pf
        <5>1. CASE nx < end
          BY <5>1, <1>6
        <5>2. CASE nx = end
          BY <5>2, <1>1, <1>5
        <5>. QED
          BY <5>1, <5>2, <1>1
      <4>. QED
        BY <3>1, <4>1, <4>2, <1>3
    <3>2. CASE h # p /\ h \in hs
      <4>1. PICK g : g = h + m[h].s
        OBVIOUS
      <4>2. g \in Nat /\ (x[g].pf <=> m[g].pf) /\ (h # end => x[g - 1] = m[g - 1])
        BY <3>2, <4>1, <1>9
      <4>3. x[h].s = m[h].s /\ (x[h].a <=> m[h].a) /\ (h # end => x[h] = m[h])
        BY <3>2, <1>8
      <4>4. (m[g].pf <=> ~m[h].a) /\ (~m[h].a => m[g - 1] = m[h])
        <5>1. /\ m[h + m[h].s].pf <=> ~m[h].a
              /\ ~m[h].a => m[h + m[h].s - 1] = m[h]
          BY <3>2, <1>0 DEF Tagged
        <5>2. m[h + m[h].s] = m[g]
          BY <4>1
        <5>3. m[h + m[h].s - 1] = m[g - 1]
          <6>1. h + m[h].s - 1 = g - 1
            BY <3>2, <4>1, <4>2, <1>1
          <6>. QED
            BY <6>1
        <5>. QED
          BY <5>1, <5>2, <5>3
      <4>5. h + x[h].s = g
        BY <4>1, <4>3
      <4>6. x[h + x[h].s] = x[g]
        BY <4>5
      <4>7. x[h + x[h].s - 1] = x[g - 1]
        <5>1. h + x[h].s - 1 = g - 1
          BY <3>2, <4>2, <4>3, <4>5, <1>1
        <5>. QED
          BY <5>1
      <4>. QED
        BY <4>2, <4>3, <4>4, <4>6, <4>7, <1>2
    <3>3. CASE h = nx /\ nx < end
      <4>1. h + x[h].s = end
        BY <3>3, <1>10
      <4>2. x[h + x[h].s] = x[end]
        BY <4>1
      <4>3. x[h + x[h].s - 1] = x[end - 1]
        <5>1. h + x[h].s - 1 = end - 1
          BY <3>3, <4>1, <1>1, <1>6
        <5>. QED
          BY <5>1
      <4>. QED
        BY <3>3, <4>2, <4>3, <1>5, <1>6
    <3>. QED
      BY <3>1, <3>2, <3>3, <1>7
  <2>. QED
    BY <2>1 DEF Tagged
<1>13. Separate(x, ks, {})
  <2>1. ASSUME NEW h \in ks, ~x[h].a, ~x[h + x[h].s].a PROVE FALSE
    <3>1. CASE h = p
      BY <2>1, <3>1, <1>3
    <3>2. CASE h # p /\ h \in hs
      <4>1. PICK g : g = h + m[h].s
        OBVIOUS
      <4>2. g \in hs \cup {b}
        BY <3>2, <4>1, <1>9
      <4>3. x[h].s = m[h].s /\ ~m[h].a
        BY <2>1, <3>2, <1>8
      <4>4. ~x[g].a
        BY <2>1, <4>1, <4>3
      <4>5. ~m[g].a
        <5>1. g # p
          BY <4>4, <1>3
        <5>. QED
          BY <4>2, <4>4, <5>1, <1>8
      <4>. QED
        BY <3>2, <4>1, <4>3, <4>5, <1>0 DEF Separate
    <3>3. CASE h = nx /\ nx < end
      <4>1. x[h + x[h].s] = x[end]
        BY <3>3, <1>10
      <4>. QED
        BY <2>1, <4>1, <1>5
    <3>. QED
      BY <3>1, <3>2, <3>3, <1>7
  <2>. QED
    BY <2>1 DEF Separate
<1>14. Owned(x, ks, lv \cup {k})
  <2>1. ASSUME NEW r \in lv
        PROVE  /\ r.at - 1 \in ks \ {0}
               /\ x[r.at - 1].a /\ x[r.at - 1].s = r.len + 1
               /\ \A q \in r.at .. (r.at + r.len - 1) : x[q] = JUNK
    <3>1. PICK y \in Nat, l \in Nat : y = r.at /\ l = r.len
      BY DEF Owned
    <3>2. /\ y - 1 \in hs \ {0} /\ m[y - 1].a /\ m[y - 1].s = l + 1
          /\ \A q \in y .. (y + l - 1) : m[q] = JUNK
      BY <3>1 DEF Owned
    <3>3. y - 1 # p
      BY <3>2
    <3>4. x[y - 1].s = l + 1 /\ x[y - 1].a /\ y - 1 \in ks \ {0}
      BY <3>2, <3>3, <1>7, <1>8
    <3>5. y - 1 + (l + 1) <= p \/ end <= y - 1
      BY <3>2, <3>3, <1>1
    <3>6. y + l <= b
      <4>1. y - 1 + (l + 1) <= b
        BY <3>2, <1>0, Around
      <4>. QED
        BY <4>1, <1>1
    <3>7. ASSUME NEW q \in y .. (y + l - 1) PROVE x[q] = JUNK
      <4>1. q \in Words /\ (q < p \/ end < q)
        BY <3>5, <3>6, <1>1, WordFacts
      <4>. QED
        BY <4>1, <3>2, <1>4
    <3>. QED
      BY <3>1, <3>4, <3>7
  <2>2. /\ k \in [at : Nat, len : Nat] /\ k.at = p + 1 /\ k.len = nx - p - 1
        /\ k.at - 1 = p /\ k.len + 1 = nx - p /\ k.at + k.len - 1 = nx - 1
    BY <1>1
  <2>3. \A q \in k.at .. (k.at + k.len - 1) : x[q] = JUNK
    <3>1. ASSUME NEW q \in (p + 1) .. (nx - 1) PROVE x[q] = JUNK
      <4>1. q \in Words /\ p < q /\ q < nx
        BY <1>1, WordFacts
      <4>. QED
        BY <4>1 DEF Taken
    <3>. QED
      BY <3>1, <2>2
  <2>4. k.at - 1 \in ks \ {0} /\ x[k.at - 1].a /\ x[k.at - 1].s = k.len + 1
    BY <2>2, <1>3, <1>7
  <2>5. ASSUME NEW h \in ks \ {0}, x[h].a PROVE \E r \in lv \cup {k} : r.at - 1 = h
    <3>1. CASE h = p
      BY <3>1, <2>2
    <3>2. CASE h # p
      <4>1. h \in hs \ {0} /\ m[h].a
        BY <2>5, <3>2, <1>6, <1>7, <1>8
      <4>. QED
        BY <4>1 DEF Owned
    <3>. QED
      BY <3>1, <3>2
  <2>6. lv \cup {k} \subseteq [at : Nat, len : Nat]
    BY <2>2 DEF Owned
  <2>. QED
    BY <2>1, <2>3, <2>4, <2>5, <2>6 DEF Owned
<1>. QED
  BY <1>11, <1>12, <1>13, <1>14 DEF Sound

(* place_chunk and the owner's writing, of a free chunk of sz words or     *)
(* more.                                                                   *)
LEMMA Place ==
  ASSUME NEW m, NEW hs, NEW b, Sound(m, hs, b), NEW lv, Owned(m, hs, lv),
         NEW p \in hs \ {0}, ~m[p].a, NEW sz \in Nat \ {0}, m[p].s >= sz,
         NEW n, n = place_chunk(m, p, sz), NEW x, x = Scribble(n, Block(p, sz)),
         NEW ks, ks = PlacedHeads(m, p, sz, hs)
  PROVE  Sound(x, ks, b) /\ Owned(x, ks, lv \cup {Block(p, sz)}) /\ p + sz <= b
<1>0. Tiled(m, hs, b) /\ Separate(m, hs, {}) /\ Tagged(m, hs, {})
  BY DEF Sound
<1>1. PICK end : end = p + m[p].s
  OBVIOUS
<1>2. PICK nx : nx = p + sz
  OBVIOUS
<1>3. /\ p \in Nat /\ p \in Words /\ end \in Nat /\ end \in Words /\ end <= b
      /\ m[p].s \in Nat /\ m \in [Words -> Header] /\ b \in Words
  BY <1>0, <1>1, Around, WordFacts
<1>4. nx \in Nat /\ p < nx /\ nx <= end /\ nx \in Words /\ sz = nx - p
  BY <1>1, <1>2, <1>3, WordFacts
<1>5. m[end].a /\ m[end].pf
  <2>1. (~m[p].a => m[p + m[p].s].a) /\ (m[p + m[p].s].pf <=> ~m[p].a)
    BY <1>0 DEF Separate, Tagged
  <2>2. m[p + m[p].s] = m[end]
    BY <1>1
  <2>. QED
    BY <2>1, <2>2
<1>6. PICK w : w = PACK(sz, TRUE, m[p].pf)
  OBVIOUS
<1>7. w \in Header /\ w.s = nx - p /\ w.a /\ (w.pf <=> m[p].pf)
  <2>1. m[p].pf \in BOOLEAN
    BY <1>3 DEF Header
  <2>. QED
    BY <2>1, <1>4, <1>6, PackFacts
<1>8. JUNK \in Header
  BY DEF JUNK, PACK, Header
<1>9. /\ x \in [Words -> Header] <=> \A q \in Words : x[q] \in Header
      /\ \A q \in Words : p < q /\ q < nx => x[q] = JUNK
      /\ \A q \in Words : q <= p \/ nx <= q => x[q] = n[q]
  <2>1. x = [q \in Words |-> IF q \in (p + 1) .. (nx - 1) THEN JUNK ELSE n[q]]
    <3>1. Block(p, sz).at = p + 1 /\ Block(p, sz).len = sz - 1
      BY DEF Block
    <3>2. Block(p, sz).at + Block(p, sz).len - 1 = nx - 1
      BY <3>1, <1>3, <1>4
    <3>. QED
      BY <3>1, <3>2 DEF Scribble
  <2>2. \A q \in Words : q \in (p + 1) .. (nx - 1) <=> p < q /\ q < nx
    BY <1>3, <1>4, WordFacts
  <2>3. \A q \in Words : q <= p \/ nx <= q => ~(p < q /\ q < nx)
    BY <1>3, <1>4, WordFacts
  <2>. QED
    BY <2>1, <2>2, <2>3
<1>10. CASE nx = end
  <2>1. m[p].s = sz
    BY <1>1, <1>3, <1>4, <1>10
  <2>2. PICK t : t = SW(m, p, w)
    OBVIOUS
  <2>3. PICK v : v = [t[nx] EXCEPT !.pf = FALSE]
    OBVIOUS
  <2>4. t \in [Words -> Header] /\ t[p] = w /\ \A q \in Words : q # p => t[q] = m[q]
    BY <2>2, <1>3, <1>7 DEF SW
  <2>5. v \in Header /\ v.s = m[end].s /\ v.a /\ ~v.pf
    <3>1. t[nx] = m[end] /\ m[end] \in Header
      BY <2>4, <1>3, <1>4, <1>10
    <3>. QED
      BY <3>1, <2>3, <1>5 DEF Header
  <2>6. n = SW(t, nx, v)
    <3>1. n = Split(m, p, sz)
      BY <2>1 DEF place_chunk
    <3>2. m[p].s - sz = 0
      BY <2>1
    <3>. QED
      BY <3>1, <3>2, <2>2, <2>3, <1>2, <1>6 DEF Split
  <2>7. n \in [Words -> Header] /\ n[nx] = v /\ \A q \in Words : q # nx => n[q] = t[q]
    BY <2>4, <2>5, <2>6, <1>4 DEF SW
  <2>8. x \in [Words -> Header] /\ x[p] = w /\ x[end] = v
    <3>1. ASSUME NEW q \in Words PROVE x[q] \in Header
      BY <2>7, <1>3, <1>4, <1>8, <1>9, WordFacts
    <3>2. x[p] = n[p] /\ n[p] = t[p] /\ x[end] = n[end]
      BY <2>7, <1>3, <1>4, <1>9, <1>10
    <3>. QED
      BY <3>1, <3>2, <2>4, <2>7, <1>9, <1>10
  <2>9. ASSUME NEW q \in Words, q < p \/ end < q PROVE x[q] = m[q]
    <3>1. q # p /\ q # nx /\ (q <= p \/ nx <= q)
      BY <2>9, <1>3, <1>4, <1>10, WordFacts
    <3>. QED
      BY <3>1, <2>4, <2>7, <1>9
  <2>10. Taken(m, p, nx, end, x)
    BY <2>5, <2>8, <2>9, <1>4, <1>7, <1>9, <1>10 DEF Taken
  <2>11. ks = TakenHeads(hs, nx, end)
    BY <2>1, <1>4, <1>10 DEF PlacedHeads, TakenHeads
  <2>12. Block(p, sz) = [at |-> p + 1, len |-> nx - p - 1]
    BY <1>4 DEF Block
  <2>13. Sound(x, ks, b) /\ Owned(x, ks, lv \cup {Block(p, sz)})
    BY ONLY <2>10, <2>11, <2>12, <1>1, <1>4, TakeChunk,
            Sound(m, hs, b), Owned(m, hs, lv), p \in hs \ {0}, ~m[p].a
  <2>. QED
    BY <2>13, <1>2, <1>3, <1>10
<1>11. CASE nx # end
  <2>1. nx < end /\ m[p].s # sz /\ m[p].s - sz = end - nx /\ m[p].s - sz # 0
    BY <1>1, <1>2, <1>3, <1>4, <1>11
  <2>2. PICK r : r = PACK(end - nx, FALSE, FALSE)
    OBVIOUS
  <2>3. r \in Header /\ r.s = end - nx /\ ~r.a /\ ~r.pf
    <3>1. end - nx \in Nat
      BY <2>1, <1>3, <1>4
    <3>. QED
      BY <3>1, <2>2, PackFacts
  <2>4. PICK t : t = SW(m, p, w)
    OBVIOUS
  <2>5. t \in [Words -> Header] /\ t[p] = w /\ \A q \in Words : q # p => t[q] = m[q]
    BY <2>4, <1>3, <1>7 DEF SW
  <2>6. PICK u : u = SW(SW(t, nx, r), end - 1, r)
    OBVIOUS
  <2>7. Split(m, p, sz) = u
    <3>1. nx + (end - nx) - 1 = end - 1
      BY <1>3, <1>4
    <3>. QED
      BY <3>1, <2>1, <2>2, <2>4, <2>6, <1>2, <1>6 DEF Split
  <2>8. /\ u \in [Words -> Header] /\ u[nx] = r /\ u[end - 1] = r
        /\ \A q \in Words : q # nx /\ q # end - 1 => u[q] = t[q]
    <3>1. end - 1 \in Words
      BY <2>1, <1>3, <1>4, WordFacts
    <3>2. t \in [Words -> Header] /\ r \in Header /\ nx \in Words
      BY <2>3, <2>5, <1>4
    <3>. QED
      BY ONLY <3>1, <3>2, <2>6, TwoWords
  <2>9. u[end] = m[end]
    <3>1. end # nx /\ end # end - 1 /\ end # p
      BY <2>1, <1>3, <1>4
    <3>. QED
      BY <3>1, <2>5, <2>8, <1>3
  <2>10. NEXT_CHK(u, nx) = end
    BY <2>3, <2>8, <1>3, <1>4 DEF NEXT_CHK
  <2>11. ~PrevFree(u, nx) /\ ~NextFree(u, nx)
    BY <2>3, <2>8, <2>9, <2>10, <1>5 DEF PrevFree, NextFree
  <2>12. n = u /\ ks = hs \cup {nx}
    <3>1. n = coalesce(u, nx) /\ ks = MergedHeads(u, nx, hs \cup {nx})
      BY <2>1, <2>7, <1>2 DEF place_chunk, PlacedHeads
    <3>. QED
      BY <3>1, <2>11 DEF coalesce, MergedHeads
  <2>13. x \in [Words -> Header] /\ x[p] = w /\ x[nx] = r /\ x[end - 1] = r /\ x[end] = m[end]
    <3>1. ASSUME NEW q \in Words PROVE x[q] \in Header
      BY <2>8, <2>12, <1>3, <1>4, <1>8, <1>9, WordFacts
    <3>2. end - 1 \in Words /\ nx <= end - 1 /\ p # nx /\ p # end - 1
      BY <2>1, <1>3, <1>4, WordFacts
    <3>3. x[p] = u[p] /\ u[p] = t[p] /\ x[nx] = u[nx] /\ x[end - 1] = u[end - 1]
          /\ x[end] = u[end]
      BY <3>2, <2>8, <2>12, <1>3, <1>4, <1>9
    <3>. QED
      BY <3>1, <3>3, <2>5, <2>8, <2>9, <1>9
  <2>14. ASSUME NEW q \in Words, q < p \/ end < q PROVE x[q] = m[q]
    <3>1. q # p /\ q # nx /\ q # end - 1 /\ (q <= p \/ nx <= q)
      BY <2>1, <2>14, <1>3, <1>4, WordFacts
    <3>. QED
      BY <3>1, <2>5, <2>8, <2>12, <1>9
  <2>15. Taken(m, p, nx, end, x)
    BY <2>1, <2>3, <2>13, <2>14, <1>5, <1>7, <1>9 DEF Taken
  <2>16. ks = TakenHeads(hs, nx, end)
    BY <2>1, <2>12 DEF TakenHeads
  <2>17. Block(p, sz) = [at |-> p + 1, len |-> nx - p - 1]
    BY <1>4 DEF Block
  <2>18. Sound(x, ks, b) /\ Owned(x, ks, lv \cup {Block(p, sz)})
    BY ONLY <2>15, <2>16, <2>17, <1>1, <1>4, TakeChunk,
            Sound(m, hs, b), Owned(m, hs, lv), p \in hs \ {0}, ~m[p].a
  <2>. QED
    BY <2>1, <2>18, <1>2, <1>3, <1>4
<1>. QED
  BY <1>10, <1>11

-----------------------------------------------------------------------------
(* Pages and regions.                                                      *)

(* The page of a word.                                                     *)
LEMMA PageGrows ==
  ASSUME NEW x \in Nat, NEW y \in Nat, x <= y
  PROVE  Page(x) \in Nat /\ Page(y) \in Nat /\ Page(x) <= Page(y)
<1>0. PGW \in Nat /\ PGW > 0
  BY KallocAssumption
<1>1. \A z \in Nat : /\ z \div PGW \in Nat /\ z % PGW \in 0 .. (PGW - 1)
                     /\ z = PGW * (z \div PGW) + (z % PGW)
  BY <1>0
<1>. DEFINE q == x \div PGW
            s == y \div PGW
<1>2. /\ q \in Nat /\ s \in Nat /\ PGW * q <= x /\ y < PGW * s + PGW
  BY <1>0, <1>1
<1>. HIDE DEF q, s
<1>3. ASSUME s < q PROVE FALSE
  <2>1. PGW * (s + 1) <= PGW * q
    BY <1>0, <1>2, <1>3
  <2>2. PGW * (s + 1) = PGW * s + PGW /\ PGW * s \in Nat /\ PGW * q \in Nat
    BY <1>0, <1>2
  <2>. QED
    BY <2>1, <2>2, <1>0, <1>2
<1>4. q <= s
  BY <1>2, <1>3
<1>. QED
  BY <1>2, <1>4 DEF Page, q, s

(* Two blocks in use share no word, and lie in the heap.                   *)
LEMMA Disjoint ==
  ASSUME NEW m, NEW hs, NEW b, Sound(m, hs, b), NEW lv, Owned(m, hs, lv),
         NEW k \in lv
  PROVE  /\ k \in [at : Words, len : Words] /\ Abstract!Region(k) \subseteq Words
         /\ \A r \in lv : k.at # r.at => Abstract!Region(k) \cap Abstract!Region(r) = {}
<1>0. Tiled(m, hs, b)
  BY DEF Sound
<1>1. ASSUME NEW r \in lv
      PROVE  \E y \in Nat, l \in Nat :
               /\ y = r.at /\ l = r.len /\ y > 0 /\ y + l <= b
               /\ y - 1 \in hs /\ m[y - 1].s = l + 1
               /\ Abstract!Region(r) = y .. (y + l - 1)
  <2>1. PICK y \in Nat, l \in Nat : y = r.at /\ l = r.len
    BY DEF Owned
  <2>2. y - 1 \in hs /\ m[y - 1].s = l + 1
    BY <2>1 DEF Owned
  <2>3. y - 1 \in Nat /\ y - 1 + (l + 1) <= b /\ b \in Nat
    BY <2>2, <1>0, Around, WordFacts
  <2>4. y > 0 /\ y + l <= b
    BY <2>3
  <2>. QED
    BY <2>1, <2>2, <2>4 DEF Abstract!Region
<1>2. PICK x \in Nat, n \in Nat :
        /\ x = k.at /\ n = k.len /\ x > 0 /\ x + n <= b
        /\ x - 1 \in hs /\ m[x - 1].s = n + 1
        /\ Abstract!Region(k) = x .. (x + n - 1)
  BY <1>1
<1>3. b \in Words /\ b \in Nat /\ \A q \in Nat : q <= b => q \in Words
  BY <1>0, WordFacts DEF Tiled
<1>4. k \in [at : Words, len : Words]
  <2>1. k \in [at : Nat, len : Nat]
    BY DEF Owned
  <2>2. x \in Words /\ n \in Words
    BY <1>2, <1>3
  <2>. QED
    BY <2>1, <2>2, <1>2
<1>5. Abstract!Region(k) \subseteq Words
  <2>1. \A q \in x .. (x + n - 1) : q \in Nat /\ q <= b
    BY <1>2, <1>3
  <2>. QED
    BY <2>1, <1>2, <1>3
<1>6. ASSUME NEW r \in lv, k.at # r.at
      PROVE  Abstract!Region(k) \cap Abstract!Region(r) = {}
  <2>1. PICK y \in Nat, l \in Nat :
          /\ y = r.at /\ l = r.len /\ y > 0 /\ y + l <= b
          /\ y - 1 \in hs /\ m[y - 1].s = l + 1
          /\ Abstract!Region(r) = y .. (y + l - 1)
    BY <1>1
  <2>2. x - 1 # y - 1
    <3>1. x # y
      BY <2>1, <1>2, <1>6
    <3>. QED
      BY ONLY <3>1, x \in Nat, y \in Nat
  <2>3. y - 1 + (l + 1) <= x - 1 \/ x - 1 + (n + 1) <= y - 1
    <3>1. PICK g, h : g = y - 1 /\ h = x - 1
      OBVIOUS
    <3>2. g \in hs /\ h \in hs \ {g} /\ m[g].s = l + 1 /\ m[h].s = n + 1
      BY <3>1, <2>1, <2>2, <1>2
    <3>3. h + m[h].s <= g \/ g + m[g].s <= h
      BY <3>2, <1>0, Around
    <3>. QED
      BY <3>1, <3>2, <3>3
  <2>4. y + l <= x \/ x + n <= y
    <3>1. x \in Int /\ y \in Int /\ l \in Int /\ n \in Int
      OBVIOUS
    <3>. QED
      BY ONLY <3>1, <2>3
  <2>5. ASSUME NEW q \in x .. (x + n - 1), q \in y .. (y + l - 1) PROVE FALSE
    BY ONLY x \in Nat, y \in Nat, l \in Nat, n \in Nat, <2>4, <2>5
  <2>. QED
    BY <2>1, <2>5, <1>2
<1>. QED
  BY <1>4, <1>5, <1>6

-----------------------------------------------------------------------------
(* The invariant.  The walk stands on a header or at the epilogue: nobody  *)
(* moves headers between its steps.                                        *)
Walking ==
  /\ pc # "start" /\ (pc = "init" => size = HEAP_INIT)
  /\ pc = "scan" => ptr \in heads \cup {brk}
  /\ pc \in {"scan", "grow"} => size \in Requests

(* The heap once kalloc_init has written its prologue and its epilogue.    *)
Usable ==
  /\ Sound(mem, heads, brk)
  /\ Owned(mem, heads, live)
  /\ 0 .. Page(brk) \subseteq mapped
  /\ Walking

(* Before that, and for ever if dmm_init gets no page: nothing is mapped,  *)
(* no walk takes a step, and the first growth is a page fault.             *)
Unset ==
  /\ mem \in [Words -> Header] /\ heads = {} /\ live = {}
  /\ pc # "init" /\ (pc = "scan" => ptr = 0)
  /\ pc # "fault" => brk = 0 /\ mapped = {}

IInv == Usable \/ Unset

(* A step of the abstract heap, or none.                                   *)
HeapStep == Abstract!Next \/ live' = live

(* Nothing is mapped or written at first.                                  *)
LEMMA InitIInv == Init => IInv
<1>. SUFFICES ASSUME Init PROVE Unset
  BY DEF IInv
<1>1. mem \in [Words -> Header]
  BY DEF Init, JUNK, PACK, Header
<1>. QED
  BY <1>1 DEF Init, Unset

(* kalloc_init writes prologue and epilogue, or nothing.                   *)
LEMMA InitStep == ASSUME Unset, kalloc_init PROVE IInv' /\ HeapStep
<1>0. mem \in [Words -> Header] /\ live' = {} /\ live = {} /\ ptr' = ptr
  BY DEF Unset, kalloc_init
<1>1. CASE InitFails
  BY <1>0, <1>1 DEF InitFails, Unset, kalloc_init, IInv, HeapStep
<1>2. CASE /\ mapped' = {0} /\ heads' = {0} /\ brk' = 1 /\ pc' = "init" /\ size' = HEAP_INIT
           /\ mem' = SW(SW(mem, 0, PACK(1, TRUE, FALSE)), 1, PACK(0, TRUE, FALSE))
  <2>. DEFINE n == mem'
  <2>1. n \in [Words -> Header]
    <3>1. PACK(1, TRUE, FALSE) \in Header /\ PACK(0, TRUE, FALSE) \in Header
      BY PackFacts
    <3>. QED
      BY <3>1, <1>0, <1>2 DEF SW
  <2>2. n[0].s = 1 /\ n[0].a /\ ~n[0].pf /\ n[1].s = 0 /\ n[1].a /\ ~n[1].pf
    <3>1. n[0] = PACK(1, TRUE, FALSE) /\ n[1] = PACK(0, TRUE, FALSE)
      BY <1>0, <1>2, WordFacts DEF SW
    <3>. QED
      BY <3>1 DEF PACK
  <2>. HIDE DEF n
  <2>3. 0 + n[0].s = 1 /\ n[0 + n[0].s] = n[1]
    <3>1. 0 + n[0].s = 1
      BY <2>2
    <3>. QED
      BY <3>1
  <2>4. \A h \in {0} : h = 0
    OBVIOUS
  <2>5. Tiled(n, {0}, 1)
    <3>1. 1 \in Words /\ {0} \subseteq 0 .. (1 - 1)
      BY WordFacts
    <3>2. \A h \in {0} : n[h].s > 0 /\ h + n[h].s \in {0} \cup {1}
      BY <2>2, <2>3, <2>4
    <3>3. \A h, g \in {0} : h < g => h + n[h].s <= g
      BY <2>4
    <3>4. \A g \in ({0} \cup {1}) \ {0} : \E h \in {0} : h + n[h].s = g
      BY <2>3
    <3>. QED
      BY <3>1, <3>2, <3>3, <3>4, <2>1, <2>2 DEF Tiled
  <2>6. Tagged(n, {0}, {}) /\ Separate(n, {0}, {})
    BY <2>2, <2>3, <2>4 DEF Tagged, Separate
  <2>7. Sound(mem', heads', brk') /\ Owned(mem', heads', live')
    <3>1. Sound(n, {0}, 1)
      BY <2>5, <2>6 DEF Sound
    <3>2. Owned(n, {0}, {})
      BY DEF Owned
    <3>. QED
      BY <3>1, <3>2, <1>0, <1>2 DEF n
  <2>8. 0 .. Page(brk') \subseteq mapped'
    <3>1. Page(1) = 0
      BY KallocAssumption DEF Page
    <3>2. 0 .. 0 = {0}
      OBVIOUS
    <3>. QED
      BY <3>1, <3>2, <1>2
  <2>. QED
    BY <1>0, <1>2, <2>7, <2>8 DEF IInv, Usable, Walking, HeapStep
<1>. QED
  BY <1>1, <1>2 DEF kalloc_init

(* In a heap that was not set up nothing but the page fault happens.       *)
LEMMA UnsetStep == ASSUME Unset, [Next]_vars PROVE IInv' /\ HeapStep
<1>0. heads = {} /\ live = {} /\ pc # "init"
  BY DEF Unset
<1>1. CASE kalloc_init
  BY <1>1, InitStep
<1>2. ASSUME NEW sz \in Requests, lxmalloc(sz) PROVE IInv' /\ HeapStep
  BY <1>2 DEF lxmalloc, Unset, IInv, HeapStep
<1>3. CASE ScanTake \/ ScanPass
  BY <1>3 DEF ScanTake, ScanPass, Unset
<1>4. CASE ScanEnd
  BY <1>4 DEF ScanEnd, Unset, IInv, HeapStep
<1>5. CASE GrowTake
  BY <1>5 DEF GrowTake, Unset
<1>6. CASE GrowFault
  BY <1>6 DEF GrowFault, Unset, IInv, HeapStep
<1>7. CASE OutOfMemory
  BY <1>7 DEF OutOfMemory, Return, Unset, IInv, HeapStep
<1>8. CASE BrkPanic
  BY <1>8 DEF BrkPanic, Unset, IInv, HeapStep
<1>9. CASE UNCHANGED vars
  BY <1>9 DEF vars, Unset, IInv, HeapStep
<1>10. CASE FirstGrowth
  BY <1>0, <1>10 DEF FirstGrowth
<1>. QED
  BY <1>0, <1>1, <1>2, <1>3, <1>4, <1>5, <1>6, <1>7, <1>8, <1>9, <1>10 DEF Next

(* A chunk handed out of a sound heap: ScanTake and GrowTake.              *)
LEMMA HandOutStep ==
  ASSUME NEW m, NEW hs, NEW b, Sound(m, hs, b), Owned(m, hs, live),
         NEW p \in hs \ {0}, ~m[p].a, NEW sz \in Requests, m[p].s >= sz,
         HandOut(m, p, sz, hs)
  PROVE  Sound(mem', heads', b) /\ Owned(mem', heads', live') /\ HeapStep
<1>1. sz \in Nat \ {0}
  BY KallocAssumption
<1>2. PICK k : k = Block(p, sz)
  OBVIOUS
<1>3. PICK x, ks : x = mem' /\ ks = heads'
  OBVIOUS
<1>4. /\ x = Scribble(place_chunk(m, p, sz), Block(p, sz))
      /\ ks = PlacedHeads(m, p, sz, hs) /\ live' = live \cup {k}
  BY <1>2, <1>3 DEF HandOut
<1>5. Sound(x, ks, b) /\ Owned(x, ks, live \cup {k})
  <2>1. Sound(x, ks, b) /\ Owned(x, ks, live \cup {Block(p, sz)})
    BY ONLY <1>1, <1>4, Place, Sound(m, hs, b), Owned(m, hs, live), p \in hs \ {0},
            ~m[p].a, m[p].s >= sz
  <2>. QED
    BY <2>1, <1>2
<1>6. k.at = p + 1 /\ p \in Nat
  BY <1>2, WordFacts DEF Block, Sound, Tiled
<1>7. ASSUME NEW r \in live PROVE r.at # k.at
  <2>1. m[r.at - 1].a /\ r.at \in Nat
    BY DEF Owned
  <2>2. r.at - 1 # p
    BY <2>1
  <2>. QED
    BY <2>1, <2>2, <1>6
<1>8. /\ k \in [at : Words, len : Words] /\ Abstract!Region(k) \subseteq Words
      /\ \A r \in live \cup {k} :
           k.at # r.at => Abstract!Region(k) \cap Abstract!Region(r) = {}
  <2>1. k \in live \cup {k}
    OBVIOUS
  <2>. QED
    BY ONLY <2>1, <1>5, Disjoint
<1>9. Abstract!Malloc
  <2>1. \A c \in live : Abstract!Region(k) \cap Abstract!Region(c) = {} /\ k # c
    BY <1>7, <1>8
  <2>. QED
    BY <2>1, <1>4, <1>8 DEF Abstract!Malloc
<1>. QED
  BY <1>3, <1>4, <1>5, <1>9 DEF HeapStep, Abstract!Next

(* A heap grown by lxbrk is sound again once the new chunk is merged.      *)
LEMMA GrowStep ==
  ASSUME Usable, NEW sz \in Nat \ {0}, lxbrk(sz), NEW n, n = coalesce(Grown(sz), brk),
         NEW ks, ks = GrownHeads(sz), NEW p, p = Merged(Grown(sz), brk)
  PROVE  /\ Sound(n, ks, brk') /\ Owned(n, ks, live)
         /\ p \in ks \ {0} /\ ~n[p].a /\ n[p].s >= sz
         /\ 0 .. Page(brk') \subseteq mapped'
<1>1. Sound(mem, heads, brk) /\ Owned(mem, heads, live) /\ 0 .. Page(brk) \subseteq mapped
  BY DEF Usable
<1>2. brk \in Nat
  BY <1>1, WordFacts DEF Sound, Tiled
<1>3. /\ brk' = brk + sz /\ brk + sz + 1 < MaxAddr
      /\ mapped' = mapped \cup ((Page(brk) + 1) .. Page(brk + sz + 1))
  BY DEF lxbrk, lxbrk_fits, NewPages
<1>4. brk + sz \in Words /\ brk + sz \in Nat /\ brk + sz + 1 \in Nat
  BY <1>2, <1>3, WordFacts
<1>5. PICK e, v, hs, m, c : /\ e = brk + sz /\ v = Extended(mem, brk, sz)
                            /\ hs = heads \cup {brk} /\ m = mem /\ c = brk
  OBVIOUS
<1>6. Loose(v, hs, e, c) /\ v[c].s = sz /\ Owned(v, hs, live)
  <2>1. /\ Sound(m, heads, c) /\ Owned(m, heads, live) /\ e \in Words /\ e = c + sz
        /\ v = Extended(m, c, sz) /\ hs = heads \cup {c} /\ sz \in Nat \ {0}
    BY <1>1, <1>4, <1>5
  <2>. QED
    BY ONLY <2>1, Extend
<1>7. Grown(sz) = v
  BY <1>5 DEF Grown, Extended
<1>8. n = coalesce(v, c) /\ ks = MergedHeads(v, c, hs) /\ p = Merged(v, c)
  BY <1>5, <1>7 DEF GrownHeads
<1>9. /\ Sound(n, ks, e) /\ Owned(n, ks, live)
      /\ p \in ks \ {0} /\ ~n[p].a /\ n[p].s >= v[c].s
  <2>1. /\ Sound(n, ks, e) /\ \A lv : Owned(v, hs, lv) => Owned(n, ks, lv)
        /\ Merged(v, c) \in ks \ {0} /\ ~n[Merged(v, c)].a /\ n[Merged(v, c)].s >= v[c].s
    BY ONLY <1>6, <1>8, Coalesce
  <2>. QED
    BY <2>1, <1>6, <1>8
<1>10. ASSUME NEW q \in 0 .. Page(brk') PROVE q \in mapped'
  <2>1. /\ Page(brk) \in Nat /\ Page(brk + sz) \in Nat /\ Page(brk + sz + 1) \in Nat
        /\ Page(brk + sz) <= Page(brk + sz + 1)
    BY <1>2, <1>4, PageGrows
  <2>2. q \in Nat /\ q <= Page(brk + sz)
    BY <2>1, <1>3, <1>10
  <2>3. q \in 0 .. Page(brk) \/ q \in (Page(brk) + 1) .. Page(brk + sz + 1)
    BY <2>1, <2>2
  <2>. QED
    BY <2>3, <1>1, <1>3
<1>. QED
  BY <1>3, <1>5, <1>6, <1>9, <1>10

(* kalloc_init's first growth, which may fail.                             *)
LEMMA FirstGrowthStep == ASSUME Usable, FirstGrowth PROVE Usable' /\ HeapStep
<1>0. live' = live /\ size = HEAP_INIT
  BY DEF FirstGrowth, Usable, Walking
<1>1. CASE /\ lxbrk(size) /\ mem' = coalesce(Grown(size), brk)
           /\ heads' = GrownHeads(size) /\ pc' = "idle"
  <2>1. size \in Nat \ {0}
    BY <1>0, KallocAssumption
  <2>2. /\ Sound(mem', heads', brk') /\ Owned(mem', heads', live)
        /\ 0 .. Page(brk') \subseteq mapped'
    BY <2>1, <1>1, GrowStep
  <2>. QED
    BY <1>0, <2>2, <1>1 DEF Usable, Walking, HeapStep
<1>2. CASE InitFails
  BY <1>0, <1>2 DEF InitFails, Usable, Walking, HeapStep
<1>. QED
  BY <1>1, <1>2 DEF FirstGrowth

(* lxmalloc starts its walk at the first header.                           *)
LEMMA MallocStep ==
  ASSUME Usable, NEW sz \in Requests, lxmalloc(sz)
  PROVE  Usable' /\ HeapStep
BY DEF lxmalloc, Usable, Walking, HeapStep, Sound, Tiled

(* The walk finds a free chunk that is large enough: not the prologue.     *)
LEMMA ScanTakeStep == ASSUME Usable, ScanTake PROVE Usable' /\ HeapStep
<1>1. Sound(mem, heads, brk) /\ Owned(mem, heads, live) /\ Walking
  BY DEF Usable
<1>2. size \in Requests /\ ptr \in heads \ {0} /\ ~mem[ptr].a /\ mem[ptr].s >= size
  <2>1. pc = "scan" /\ ptr < brk /\ mem[ptr].s >= size /\ ~mem[ptr].a
    BY DEF ScanTake, Fits
  <2>2. ptr \in heads \cup {brk} /\ size \in Requests
    BY <2>1, <1>1 DEF Walking
  <2>3. brk \in Nat /\ mem[0].a
    BY <1>1, WordFacts DEF Sound, Tiled
  <2>. QED
    BY <2>1, <2>2, <2>3
<1>3. HandOut(mem, ptr, size, heads) /\ pc' = "idle" /\ UNCHANGED <<brk, mapped>>
  BY DEF ScanTake, Return
<1>4. Sound(mem', heads', brk) /\ Owned(mem', heads', live') /\ HeapStep
  BY <1>1, <1>2, <1>3, HandOutStep
<1>. QED
  BY <1>3, <1>4 DEF Usable, Walking

(* The walk goes to the next header.                                       *)
LEMMA ScanPassStep == ASSUME Usable, ScanPass PROVE Usable' /\ HeapStep
<1>1. ptr + mem[ptr].s \in heads \cup {brk}
  <2>1. ptr \in heads \cup {brk} /\ ptr < brk /\ brk \in Nat
    BY WordFacts DEF ScanPass, Usable, Walking, Sound, Tiled
  <2>2. ptr \in heads
    BY <2>1
  <2>. QED
    BY <2>2 DEF Usable, Sound, Tiled
<1>2. pc = "scan" /\ ptr' = ptr + mem[ptr].s /\ UNCHANGED <<mem, brk, mapped, pc, size, live, heads>>
  BY DEF ScanPass
<1>. QED
  BY <1>1, <1>2 DEF Usable, Walking, HeapStep

(* The heap grows and the chunk at its end is taken.                       *)
LEMMA GrowTakeStep == ASSUME Usable, GrowTake PROVE Usable' /\ HeapStep
<1>1. pc = "grow" /\ lxbrk(size) /\ pc' = "idle"
  BY DEF GrowTake, Return
<1>2. size \in Requests /\ size \in Nat \ {0}
  BY <1>1, KallocAssumption DEF Usable, Walking
<1>3. PICK n, ks, p : /\ n = coalesce(Grown(size), brk) /\ ks = GrownHeads(size)
                      /\ p = Merged(Grown(size), brk)
  OBVIOUS
<1>4. /\ Sound(n, ks, brk') /\ Owned(n, ks, live)
      /\ p \in ks \ {0} /\ ~n[p].a /\ n[p].s >= size
      /\ 0 .. Page(brk') \subseteq mapped'
  BY <1>1, <1>2, <1>3, GrowStep
<1>5. HandOut(n, p, size, ks)
  BY <1>3 DEF GrowTake
<1>6. Sound(mem', heads', brk') /\ Owned(mem', heads', live') /\ HeapStep
  BY ONLY <1>2, <1>4, <1>5, HandOutStep
<1>. QED
  BY <1>1, <1>4, <1>6 DEF Usable, Walking

(* lxfree, which no walk is interrupted by.                                *)
LEMMA FreeStep ==
  ASSUME ~IsrFrees, Usable, NEW k \in live, lxfree(k)
  PROVE  Usable' /\ HeapStep
<1>1. Sound(mem, heads, brk) /\ Owned(mem, heads, live)
  BY DEF Usable
<1>2. PICK m, c, n : m = mem /\ c = k.at - 1 /\ n = Released(m, c)
  OBVIOUS
<1>3. c \in heads /\ m[c].s = k.len + 1 /\ Loose(n, heads, brk, c) /\ Owned(n, heads, live \ {k})
  BY ONLY <1>1, <1>2, Release, k \in live
<1>4. /\ mem' = coalesce(n, c) /\ heads' = MergedHeads(n, c, heads)
      /\ live' = live \ {k} /\ pc = "idle" /\ UNCHANGED <<brk, mapped, pc>>
  BY <1>2 DEF lxfree, Released
<1>5. PICK x, ks : x = mem' /\ ks = heads'
  OBVIOUS
<1>6. Sound(x, ks, brk) /\ \A lv : Owned(n, heads, lv) => Owned(x, ks, lv)
  <2>1. x = coalesce(n, c) /\ ks = MergedHeads(n, c, heads)
    BY <1>4, <1>5
  <2>. QED
    BY ONLY <2>1, <1>3, Coalesce
<1>7. Sound(mem', heads', brk) /\ Owned(mem', heads', live')
  BY <1>3, <1>4, <1>5, <1>6
<1>8. Abstract!Next
  BY <1>4 DEF Abstract!Next, Abstract!Free
<1>. QED
  BY <1>4, <1>7, <1>8 DEF Usable, Walking, HeapStep

(* The page of the epilogue is mapped in a heap that was set up.           *)
LEMMA BrkMapped == ASSUME Usable PROVE Page(brk) \in mapped
<1>1. brk \in Nat /\ 0 .. Page(brk) \subseteq mapped
  BY WordFacts DEF Usable, Sound, Tiled
<1>2. Page(brk) \in Nat
  BY <1>1, PageGrows
<1>. QED
  BY <1>1, <1>2

(* Every step keeps the heap usable and is one of the abstract heap.       *)
LEMMA UsableStep ==
  ASSUME ~IsrFrees, Usable, [Next]_vars
  PROVE  Usable' /\ HeapStep
<1>1. CASE FirstGrowth
  BY <1>1, FirstGrowthStep
<1>2. ASSUME NEW sz \in Requests, lxmalloc(sz) PROVE Usable' /\ HeapStep
  BY <1>2, MallocStep
<1>3. CASE ScanTake
  BY <1>3, ScanTakeStep
<1>4. CASE ScanPass
  BY <1>4, ScanPassStep
<1>5. CASE ScanEnd
  BY <1>5 DEF ScanEnd, Usable, Walking, HeapStep
<1>6. CASE GrowTake
  BY <1>6, GrowTakeStep
<1>7. CASE OutOfMemory
  BY <1>7 DEF OutOfMemory, Return, Usable, Walking, HeapStep
<1>8. ASSUME NEW k \in live, lxfree(k) PROVE Usable' /\ HeapStep
  BY <1>8, FreeStep
<1>9. CASE UNCHANGED vars
  BY <1>9 DEF vars, Usable, Walking, HeapStep
<1>10. CASE kalloc_init
  BY <1>10 DEF kalloc_init, Usable, Walking
<1>11. CASE GrowFault
  BY <1>11, BrkMapped DEF GrowFault
<1>12. CASE BrkPanic
  BY <1>12 DEF BrkPanic, Usable, Walking, HeapStep
<1>. QED
  BY <1>1, <1>2, <1>3, <1>4, <1>5, <1>6, <1>7, <1>8, <1>9, <1>10, <1>11, <1>12 DEF Next

(* Every step keeps the invariant and is one of the abstract heap.         *)
LEMMA NextIInv ==
  ASSUME ~IsrFrees, IInv, [Next]_vars
  PROVE  IInv' /\ HeapStep
BY UsableStep, UnsetStep DEF IInv

-----------------------------------------------------------------------------
(* What the invariant says.                                                *)

(* Tiled is ChunksTile, and more.                                          *)
LEMMA TilesFact == IInv => ChunksTile
<1>. SUFFICES ASSUME Usable PROVE ChunksTile
  BY DEF IInv, Unset, ChunksTile
<1>1. Tiled(mem, heads, brk)
  BY DEF Usable, Sound
<1>2. /\ 0 \in heads /\ mem[brk].s = 0 /\ mem[brk].a
      /\ \A h \in heads : mem[h].s > 0 /\ h + mem[h].s \in heads \cup {brk}
      /\ \A h, g \in heads : h < g => h + mem[h].s <= g
      /\ \A h \in heads : h \in Nat /\ mem[h].s \in Nat
  BY <1>1, WordFacts DEF Tiled, Header
<1>3. ASSUME NEW h \in heads, NEW g \in heads, h < g, g < NEXT_CHK(mem, h) PROVE FALSE
  BY <1>2, <1>3 DEF NEXT_CHK
<1>. QED
  BY <1>2, <1>3 DEF ChunksTile, NEXT_CHK

(* Tagged and Separate, of no exceptions, are BoundaryTags.                *)
LEMMA TagsFact == IInv => BoundaryTags
<1>. SUFFICES ASSUME Usable, NEW h \in heads, NEW next, next = NEXT_CHK(mem, h)
              PROVE  mem[next].pf = ~mem[h].a
                     /\ (~mem[h].a => mem[next - 1] = mem[h] /\ mem[next].a)
  BY DEF BoundaryTags, IInv, Unset
<1>1. Tiled(mem, heads, brk) /\ Tagged(mem, heads, {}) /\ Separate(mem, heads, {})
  BY DEF Usable, Sound
<1>2. /\ next = h + mem[h].s /\ next \in Words /\ h \in Words /\ mem \in [Words -> Header]
      /\ h \in Nat /\ mem[h].s \in Nat
  BY <1>1, Around DEF NEXT_CHK
<1>3. /\ mem[h + mem[h].s].pf <=> ~mem[h].a
      /\ ~mem[h].a => mem[h + mem[h].s - 1] = mem[h]
      /\ ~mem[h].a => mem[h + mem[h].s].a
  BY <1>1 DEF Tagged, Separate
<1>4. mem[next].pf \in BOOLEAN /\ mem[h].a \in BOOLEAN
  BY <1>2 DEF Header
<1>5. mem[h + mem[h].s] = mem[next] /\ mem[h + mem[h].s - 1] = mem[next - 1]
  <2>1. mem[h + mem[h].s] = mem[next]
    BY <1>2
  <2>2. h + mem[h].s - 1 = next - 1
    BY <1>2
  <2>3. mem[h + mem[h].s - 1] = mem[next - 1]
    BY <2>2
  <2>. QED
    BY <2>1, <2>3
<1>6. mem[next].pf <=> ~mem[h].a
  BY <1>3, <1>5
<1>7. ~mem[h].a => mem[next - 1] = mem[h] /\ mem[next].a
  BY <1>3, <1>5
<1>8. mem[next].pf = ~mem[h].a
  BY <1>4, <1>6
<1>. QED
  BY <1>7, <1>8

(* Owned is BlocksIntact.                                                  *)
LEMMA BlocksFact == IInv => BlocksIntact
<1>1. Usable => BlocksIntact
  BY DEF Usable, Owned, BlocksIntact
<1>2. Unset => BlocksIntact
  BY DEF Unset, BlocksIntact
<1>. QED
  BY <1>1, <1>2 DEF IInv

(* All the pages up to that of the epilogue are mapped, or nothing lies on *)
(* an unmapped one.                                                        *)
LEMMA MappedFact == IInv => HeapMapped
<1>1. CASE Unset
  <2>1. pc = "scan" => ptr = 0 /\ brk = 0
    BY <1>1 DEF Unset
  <2>. QED
    BY <2>1, <1>1 DEF Unset, HeapMapped
<1>2. CASE Usable
  <2>1. Tiled(mem, heads, brk) /\ 0 .. Page(brk) \subseteq mapped /\ Walking
    BY <1>2 DEF Usable, Sound
  <2>2. brk \in Nat /\ heads \subseteq Nat
    BY <2>1, WordFacts DEF Tiled
  <2>0. \A p \in heads \cup {brk} : p \in Nat /\ p <= brk
    <3>1. heads \subseteq 0 .. (brk - 1)
      BY <2>1 DEF Tiled
    <3>2. \A p \in heads : p <= brk
      BY <2>2, <3>1
    <3>. QED
      BY <2>2, <3>2
  <2>3. ASSUME NEW p \in Nat, p <= brk PROVE Page(p) \in mapped
    <3>1. Page(p) \in Nat /\ Page(brk) \in Nat /\ Page(p) <= Page(brk)
      BY <2>2, <2>3, PageGrows
    <3>. QED
      BY <2>1, <3>1
  <2>4. ASSUME NEW h \in heads, NEW p \in h .. NEXT_CHK(mem, h) PROVE Page(p) \in mapped
    <3>1. h \in Nat /\ NEXT_CHK(mem, h) \in heads \cup {brk}
      BY <2>1, <2>2 DEF Tiled, NEXT_CHK
    <3>2. NEXT_CHK(mem, h) \in Nat /\ NEXT_CHK(mem, h) <= brk
      BY <2>0, <3>1
    <3>3. p \in Nat /\ p <= brk
      BY <2>2, <3>1, <3>2
    <3>. QED
      BY <2>3, <3>3
  <2>5. ASSUME pc = "scan", ptr < brk PROVE Page(ptr) \in mapped
    <3>1. ptr \in Nat /\ ptr <= brk
      BY <2>0, <2>1, <2>5 DEF Walking
    <3>. QED
      BY <2>3, <3>1
  <2>. QED
    BY <2>4, <2>5 DEF HeapMapped
<1>. QED
  BY <1>1, <1>2 DEF IInv

(* The invariant holds if no interrupt frees blocks.                       *)
LEMMA Invariance == ASSUME ~IsrFrees PROVE Spec => []IInv
<1>1. IInv /\ [Next]_vars => IInv'
  BY NextIInv
<1>. QED
  BY <1>1, InitIInv, PTL DEF Spec

(* ChunksTile: the walk of lx_malloc_internal goes from header to header   *)
(* and ends at the epilogue, whatever was allocated and released before.   *)
THEOREM HeadersTileTheHeap == ASSUME ~IsrFrees PROVE Spec => []ChunksTile
BY TilesFact, Invariance, PTL

(* BoundaryTags: the flags and footers that coalesce trusts are right, and *)
(* what lxfree, place_chunk and lx_grow_heap release is always merged.     *)
THEOREM TagsAreRight == ASSUME ~IsrFrees PROVE Spec => []BoundaryTags
BY TagsFact, Invariance, PTL

(* BlocksIntact: the chunks in use are the blocks handed out and not       *)
(* returned, and the allocator's own words never lie inside one.           *)
THEOREM OwnersKeepTheirWords == ASSUME ~IsrFrees PROVE Spec => []BlocksIntact
BY BlocksFact, Invariance, PTL

(* HeapMapped: lxbrk maps the page of the epilogue with those of the heap; *)
(* in a heap that kalloc_init failed to set up no chunk is handed out and  *)
(* no header read by the walk.                                             *)
THEOREM HeapIsMapped == ASSUME ~IsrFrees PROVE Spec => []HeapMapped
BY MappedFact, Invariance, PTL

(* ImplementsHeap: the chunks of kalloc.c implement blocks that are        *)
(* contiguous and share no word.                                           *)
THEOREM Refinement == ASSUME ~IsrFrees PROVE Spec => ImplementsHeap
<1>1. Init => Abstract!Init
  BY DEF Init, Abstract!Init
<1>2. IInv /\ [Next]_vars => [Abstract!Next]_live
  BY NextIInv DEF HeapStep
<1>. QED
  BY <1>1, <1>2, Invariance, PTL DEF Spec, ImplementsHeap, Abstract!Spec

-----------------------------------------------------------------------------
(* The size arithmetic in front of it (KallocSizes), for every word that   *)
(* holds a header and is a multiple of the alignment.                      *)

(* A chunk is what lx_malloc_internal made of the size; a request that     *)
(* was refused had a product of 0, or one found to overflow.               *)
Computed ==
  /\ {calloc_n, calloc_elem, malloc_size} \subseteq Sizes
  /\ request_pc = "search" => malloc_chunk = ChunkSize(malloc_size)
  /\ request_pc = "malloc" => malloc_size = Product(calloc_n, calloc_elem)
  /\ request_pc = "null" =>
       LET pd == Product(calloc_n, calloc_elem) IN pd = 0 \/ OverflowDetected(pd)

(* Rounding up adds less than a word and makes a multiple of one.          *)
LEMMA RoundUp ==
  ASSUME NEW v \in Nat
  PROVE  LET r == (v + 3) - ((v + 3) % 4)
         IN  r \in Nat /\ v <= r /\ r < v + 4 /\ r % 4 = 0
OBVIOUS

(* Below the top seven bytes no sum wraps (kalloc.c:141).                  *)
LEMMA ChunkOfSize ==
  ASSUME NEW s \in Sizes, s <= WORD - 8
  PROVE  /\ ChunkSize(s) >= s + WSIZE
         /\ ChunkSize(s) < s + WSIZE + BOUNDARY
         /\ ChunkSize(s) % BOUNDARY = 0
<1>1. s \in Nat /\ WORD \in Nat
  BY WordAssumption DEF Sizes
<1>2. Plus(s, WSIZE) = s + 4
  BY <1>1 DEF Plus, WSIZE
<1>3. Plus(s + 4, BOUNDARY - 1) = s + 4 + 3
  BY <1>1 DEF Plus, BOUNDARY
<1>4. ChunkSize(s) = (s + 4 + 3) - ((s + 4 + 3) % 4)
  BY <1>2, <1>3 DEF ChunkSize, ROUNDUP, Down, BOUNDARY
<1>. QED
  BY <1>1, <1>4, RoundUp DEF WSIZE, BOUNDARY

(* Within the top seven bytes one of the two sums wraps.                   *)
LEMMA ChunkWraps ==
  ASSUME NEW s \in Sizes, s > WORD - 8
  PROVE  ChunkSize(s) \in {0, WSIZE}
<1>1. s \in Nat /\ WORD \in Nat /\ WORD > 8 /\ WORD % 4 = 0 /\ s < WORD
  BY WordAssumption DEF Sizes
<1>2. CASE s >= WORD - 4
  <2>1. Plus(s, WSIZE) = s + 4 - WORD
    BY <1>1, <1>2 DEF Plus, WSIZE
  <2>2. PICK t \in 0 .. 3 : t = s + 4 - WORD
    BY <1>1, <1>2
  <2>3. Plus(t, BOUNDARY - 1) = t + 3
    BY <1>1 DEF Plus, BOUNDARY
  <2>4. (t + 3) - ((t + 3) % 4) \in {0, 4}
    OBVIOUS
  <2>. QED
    BY <2>1, <2>2, <2>3, <2>4 DEF ChunkSize, ROUNDUP, Down, BOUNDARY, WSIZE
<1>3. CASE s < WORD - 4
  <2>1. Plus(s, WSIZE) = s + 4
    BY <1>1, <1>3 DEF Plus, WSIZE
  <2>2. PICK t \in 0 .. 2 : t = s + 4 + 3 - WORD
    BY <1>1, <1>3
  <2>3. Plus(s + 4, BOUNDARY - 1) = t
    BY <1>1, <1>3, <2>2 DEF Plus, BOUNDARY
  <2>4. t - (t % 4) = 0
    OBVIOUS
  <2>. QED
    BY <2>1, <2>3, <2>4 DEF ChunkSize, ROUNDUP, Down, BOUNDARY
<1>. QED
  BY <1>1, <1>2, <1>3

(* A product that does not wrap is no smaller than its factors.            *)
LEMMA ProductOfFactors ==
  ASSUME NEW a \in Sizes, NEW b \in Sizes,
         a # 0, b # 0, a * b < WORD
  PROVE  /\ Product(a, b) = a * b
         /\ Product(a, b) >= a /\ Product(a, b) >= b /\ Product(a, b) # 0
<1>1. a \in Nat \ {0} /\ b \in Nat \ {0} /\ WORD \in Nat
  BY WordAssumption DEF Sizes
<1>2. a * b >= a /\ a * b >= b /\ a * b \in Nat
  BY <1>1, Z3
<1>3. (a * b) % WORD = a * b
  BY <1>1, <1>2, Z3
<1>. QED
  BY <1>1, <1>2, <1>3 DEF Product

(* Nothing is computed at first.                                           *)
LEMMA ComputedInit == SizesInit => Computed
BY WordAssumption DEF SizesInit, Computed, Sizes

(* Each step computes its value from the one before.                       *)
LEMMA ComputedStep == Computed /\ [SizesNext]_sizes_vars => Computed'
<1>. SUFFICES ASSUME Computed, [SizesNext]_sizes_vars PROVE Computed'
  OBVIOUS
<1>1. Product(calloc_n, calloc_elem) \in Sizes
  BY WordAssumption DEF Computed, Product, Sizes
<1>2. CASE lxcalloc
  BY <1>1, <1>2 DEF lxcalloc, Computed, OverflowDetected
<1>3. CASE lx_malloc_internal
  BY <1>3 DEF lx_malloc_internal, Computed, OverflowDetected
<1>4. CASE UNCHANGED sizes_vars
  BY <1>4 DEF sizes_vars, Computed, OverflowDetected, Product
<1>. QED
  BY <1>2, <1>3, <1>4 DEF SizesNext

(* ChunkHoldsRequest, whatever the size of the word (kalloc.c:139-141):    *)
(* all sizes but the top seven get a chunk that holds them, and those get  *)
(* one without a block.                                                    *)
THEOREM WhichRequestsFit == SizesSpec => []ChunkHoldsRequest
<1>1. ASSUME Computed, request_pc = "search" PROVE ChunkHoldsRequest
  <2>1. malloc_size \in Sizes /\ malloc_chunk = ChunkSize(malloc_size)
    BY <1>1 DEF Computed
  <2>2. malloc_size <= WORD - 8 \/ malloc_size > WORD - 8
    BY <2>1, WordAssumption DEF Sizes
  <2>. QED
    BY <2>1, <2>2, ChunkOfSize, ChunkWraps DEF ChunkHoldsRequest
<1>2. Computed => ChunkHoldsRequest
  BY <1>1 DEF ChunkHoldsRequest
<1>. QED
  BY <1>2, ComputedInit, ComputedStep, PTL DEF SizesSpec

(* No array that can be had is refused (kalloc.c:88-91).                   *)
THEOREM OnlyOverflowsAreRefused == SizesSpec => []NoFalseAlarm
<1>1. Computed => NoFalseAlarm
  <2> SUFFICES ASSUME Computed, request_pc = "null", calloc_n # 0, calloc_elem # 0,
                      ~(calloc_n * calloc_elem >= WORD)
               PROVE  FALSE
    BY DEF NoFalseAlarm
  <2>1. calloc_n * calloc_elem < WORD
    BY WordAssumption DEF Computed, Sizes
  <2>2. /\ calloc_n \in Sizes /\ calloc_elem \in Sizes
        /\ Product(calloc_n, calloc_elem) \in Nat
    BY WordAssumption DEF Computed, Sizes, Product
  <2>. QED
    BY <2>1, <2>2, ProductOfFactors DEF Computed, OverflowDetected, Sizes
<1>. QED
  BY <1>1, ComputedInit, ComputedStep, PTL DEF SizesSpec
=============================================================================
