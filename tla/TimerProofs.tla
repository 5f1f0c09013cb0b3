----------------------------- MODULE TimerProofs -----------------------------
(***************************************************************************)
(* Theorems about Timer, for every number of periodic timers and every     *)
(* width of the counters, within the two bounds the code's list survives:  *)
(* one one-shot timer at a time, and no tick inside an append while it is  *)
(* registered.                                                             *)
(***************************************************************************)
EXTENDS Timer, FiniteSetTheorems, SequenceTheorems, TLAPS

-----------------------------------------------------------------------------
(* The list as a value: the element at place k, the head at both ends.     *)

At(s, k) == IF k \in 1 .. Len(s) THEN s[k] ELSE HEAD

Elements(s) == {s[k] : k \in 1 .. Len(s)}

Prepend(e, s) == <<e>> \o s

Distinct(s) == \A k, l \in 1 .. Len(s) : s[k] = s[l] => k = l

(* next leads from place to place.                                         *)
Chained(s) == \A k \in 0 .. Len(s) : next[At(s, k)] = At(s, k + 1)

(* How far a timer is, ticks after it was last set.                        *)
Counted(e, ticks) ==
  ticks \in 0 .. (Period(e) - 1) /\ counter[e] = (Period(e) - ticks) % WORD

-----------------------------------------------------------------------------
(* The invariant.                                                          *)

TypeOK ==
  /\ prev \in [Links -> Links] /\ next \in [Links -> Links]
  /\ counter \in [Nodes -> Counts] /\ deadline \in [Nodes -> Counts]
  /\ periodic \in [Nodes -> BOOLEAN] /\ age \in [Nodes -> Nat]
  /\ allocated \subseteq Nodes /\ IsFiniteSet(allocated)
  /\ list \in Seq(Nodes)
  /\ mpc \in {"idle", "read", "back", "elem", "publish"} /\ ipc \in {"none", "walk"}
  /\ elem \in Links /\ after \in Links /\ pos \in Links /\ n \in Links

(* What is registered, and the one timer that is about to be.              *)
Registered ==
  /\ Distinct(list) /\ Chained(list)
  /\ allocated = Listed \cup ({elem} \ {HEAD})
  /\ IF mpc = "idle" THEN elem = HEAD ELSE elem \in Nodes \ Listed
  /\ mpc \in {"back", "elem", "publish"} => after = next[HEAD]
  /\ mpc = "publish" => next[elem] = after /\ prev[elem] = HEAD
  /\ elem # HEAD => counter[elem] = deadline[elem]

(* The one-shot timer can be unlinked, except while an append has changed  *)
(* its prev and not yet its predecessor.                                   *)
OneShots ==
  /\ \A e, f \in allocated : ~periodic[e] /\ ~periodic[f] => e = f
  /\ \A k \in 1 .. Len(list) :
       ~periodic[list[k]] =>
         prev[list[k]] = IF k = 1 /\ mpc \in {"elem", "publish"} THEN elem
                                                                 ELSE At(list, k - 1)

(* The handler stands at place k: the timers before it have counted the    *)
(* tick, it and the others have not.                                       *)
StandsAt(k) ==
  /\ pos = At(list, k) /\ n = next[pos]
  /\ \A l \in 1 .. Len(list) :
       IF l < k THEN Counted(list[l], age[list[l]])
                ELSE age[list[l]] > 0 /\ Counted(list[l], age[list[l]] - 1)

Walk ==
  IF ipc = "walk"
  THEN /\ \E k \in 1 .. (Len(list) + 1) : StandsAt(k)
       /\ mpc = "idle" \/ \A e \in Listed : periodic[e]
  ELSE /\ pos = HEAD /\ n = HEAD
       /\ \A e \in Listed : Counted(e, age[e])

IInv == TypeOK /\ Registered /\ OneShots /\ Walk

-----------------------------------------------------------------------------
(* Counters.                                                               *)

(* A counter wraps at WORD.                                                *)
LEMMA ModFacts ==
  /\ WORD \in Nat /\ WORD > 0 /\ HEAD \notin Nodes
  /\ \A x \in Nat : x % WORD \in Counts
  /\ \A x \in Counts : x % WORD = x /\ (x + WORD) % WORD = x
<1>1. WORD \in Nat /\ WORD > 0 /\ HEAD \notin Nodes
  BY TimerAssumption
<1>2. \A x \in Nat : /\ x \div WORD \in Nat /\ x % WORD \in 0 .. (WORD - 1)
                     /\ x = WORD * (x \div WORD) + (x % WORD)
  BY <1>1
<1>3. ASSUME NEW x \in Counts PROVE x % WORD = x /\ (x + WORD) % WORD = x
  <2>1. x \in Nat /\ x < WORD /\ x + WORD \in Nat
    BY <1>1 DEF Counts
  <2>2. x % WORD = x
    <3>1. PICK q, r : q = x \div WORD /\ r = x % WORD
      OBVIOUS
    <3>2. q \in Nat /\ r \in 0 .. (WORD - 1) /\ x = WORD * q + r
      BY <3>1, <2>1, <1>2
    <3>3. q = 0
      <4>1. ASSUME q >= 1 PROVE FALSE
        <5>1. WORD * q >= WORD
          BY <3>2, <4>1, <1>1
        <5>2. WORD * q \in Nat
          BY <3>2, <1>1
        <5>. QED
          BY <5>1, <5>2, <3>2, <2>1, <1>1
      <4>. QED
        BY <4>1, <3>2
    <3>4. WORD * 0 = 0
      BY <1>1
    <3>. QED
      BY <3>1, <3>2, <3>3, <3>4
  <2>3. (x + WORD) % WORD = x
    <3>1. PICK q, r : q = (x + WORD) \div WORD /\ r = (x + WORD) % WORD
      OBVIOUS
    <3>2. q \in Nat /\ r \in 0 .. (WORD - 1) /\ x + WORD = WORD * q + r
      BY <3>1, <2>1, <1>2
    <3>3. WORD * q \in Nat /\ WORD * 0 = 0 /\ WORD * 1 = WORD /\ WORD * 2 = WORD + WORD
      BY <3>2, <1>1
    <3>4. q # 0
      BY <3>2, <3>3, <2>1, <1>1
    <3>5. ~(q >= 2)
      <4>1. ASSUME q >= 2 PROVE FALSE
        <5>1. WORD * q >= WORD * 2
          BY <3>2, <4>1, <1>1
        <5>. QED
          BY <5>1, <3>2, <3>3, <2>1, <1>1
      <4>. QED
        BY <4>1
    <3>6. q = 1
      BY <3>2, <3>4, <3>5
    <3>. QED
      BY <3>1, <3>2, <3>3, <3>6, <2>1, <1>1
  <2>. QED
    BY <2>2, <2>3
<1>. QED
  BY <1>1, <1>2, <1>3 DEF Counts

(* A timer of period p that is set p - t ticks before its end: the next    *)
(* decrement makes its counter 0 at the end of the period and only then.   *)
LEMMA CountOneTick ==
  ASSUME NEW p \in 1 .. WORD, NEW t \in Nat, t > 0, t - 1 \in 0 .. (p - 1),
         NEW c, c = (p - (t - 1)) % WORD
  PROVE  /\ Minus1(c) \in Counts
         /\ Minus1(c) = 0 => t = p
         /\ Minus1(c) # 0 => t \in 0 .. (p - 1) /\ Minus1(c) = (p - t) % WORD
<1>1. WORD \in Nat /\ WORD > 0 /\ p \in Nat /\ p <= WORD /\ t <= p
  BY ModFacts
<1>2. PICK d : d = p - t
  OBVIOUS
<1>3. d \in Nat /\ d < WORD /\ d \in Counts /\ p - (t - 1) = d + 1
  BY <1>1, <1>2 DEF Counts
<1>4. d % WORD = d
  BY <1>3, ModFacts
<1>5. Minus1(c) = d
  <2>1. CASE d + 1 = WORD
    <3>1. WORD % WORD = 0
      <4>1. 0 \in Counts /\ 0 + WORD = WORD
        BY <1>1 DEF Counts
      <4>. QED
        BY <4>1, ModFacts
    <3>2. c = 0
      BY <3>1, <2>1, <1>3
    <3>3. c + WORD - 1 = d
      BY <3>2, <2>1, <1>1, <1>3
    <3>. QED
      BY <3>3, <1>4 DEF Minus1
  <2>2. CASE d + 1 < WORD
    <3>1. d + 1 \in Counts
      BY <2>2, <1>1, <1>3 DEF Counts
    <3>2. c = d + 1
      BY <3>1, <1>3, ModFacts
    <3>3. c + WORD - 1 = d + WORD
      BY <3>2, <1>1, <1>3
    <3>4. (d + WORD) % WORD = d
      BY <1>3, ModFacts
    <3>. QED
      BY <3>3, <3>4 DEF Minus1
  <2>. QED
    BY <2>1, <2>2, <1>1, <1>3
<1>6. d = 0 => t = p
  BY <1>1, <1>2
<1>7. d # 0 => t \in 0 .. (p - 1)
  BY <1>1, <1>2, <1>3
<1>. QED
  BY <1>2, <1>3, <1>4, <1>5, <1>6, <1>7

-----------------------------------------------------------------------------
(* Places in a list.                                                       *)

(* The head is before the first element and after the last.                *)
LEMMA Places ==
  ASSUME NEW s \in Seq(Nodes)
  PROVE  /\ Len(s) \in Nat /\ At(s, 0) = HEAD /\ At(s, Len(s) + 1) = HEAD
         /\ \A k \in 1 .. Len(s) : At(s, k) = s[k] /\ s[k] \in Nodes /\ s[k] # HEAD
         /\ \A k : At(s, k) \in Links
         /\ Distinct(s) => \A k, l \in 0 .. Len(s) : At(s, k) = At(s, l) => k = l
<1>1. Len(s) \in Nat
  BY LenProperties
<1>2. \A k \in 1 .. Len(s) : s[k] \in Nodes /\ s[k] # HEAD
  BY ElementOfSeq, ModFacts
<1>3. 0 \notin 1 .. Len(s) /\ Len(s) + 1 \notin 1 .. Len(s)
  BY <1>1
<1>4. ASSUME Distinct(s), NEW k \in 0 .. Len(s), NEW l \in 0 .. Len(s), At(s, k) = At(s, l)
      PROVE  k = l
  <2>1. (k = 0 \/ k \in 1 .. Len(s)) /\ (l = 0 \/ l \in 1 .. Len(s))
    BY <1>1
  <2>. QED
    BY <2>1, <1>2, <1>3, <1>4 DEF At, Distinct
<1>. QED
  BY <1>1, <1>2, <1>3, <1>4 DEF At, Links

(* Deletion moves the places behind the element.                           *)
LEMMA WithoutPlaces ==
  ASSUME NEW s \in Seq(Nodes), Distinct(s), NEW k \in 1 .. Len(s),
         NEW w, w = Without(s, s[k])
  PROVE  /\ w \in Seq(Nodes) /\ Len(w) = Len(s) - 1 /\ Distinct(w)
         /\ \A j \in 0 .. Len(s) : At(w, j) = IF j < k THEN At(s, j) ELSE At(s, j + 1)
         /\ Elements(w) = Elements(s) \ {s[k]}
<1>1. Len(s) \in Nat /\ k \in Nat /\ \A j \in 1 .. Len(s) : s[j] \in Nodes
  BY Places
<1>2. PICK l : l = Len(s) - 1
  OBVIOUS
<1>3. l \in Nat /\ l + 1 = Len(s)
  BY <1>1, <1>2
<1>4. w = [j \in 1 .. l |-> IF j < k THEN s[j] ELSE s[j + 1]]
  <2>1. \A h \in 1 .. Len(s) : s[h] = s[k] => h = k
    BY DEF Distinct
  <2>2. (CHOOSE h \in 1 .. Len(s) : s[h] = s[k]) = k
    BY <2>1
  <2>. QED
    BY <2>2, <1>2 DEF Without
<1>5. \A j \in 1 .. l : /\ j \in 1 .. Len(s) /\ j + 1 \in 1 .. Len(s)
                        /\ w[j] = (IF j < k THEN s[j] ELSE s[j + 1]) /\ w[j] \in Nodes
  <2>1. \A j \in 1 .. l : j \in 1 .. Len(s) /\ j + 1 \in 1 .. Len(s)
    BY <1>3
  <2>. QED
    BY <2>1, <1>1, <1>4
<1>6. w \in [1 .. l -> Nodes]
  BY <1>4, <1>5
<1>7. w \in Seq(Nodes) /\ Len(w) = l
  <2>1. w \in Seq(Nodes)
    BY <1>3, <1>6, SeqDef
  <2>2. DOMAIN w = 1 .. Len(w) /\ Len(w) \in Nat /\ DOMAIN w = 1 .. l
    BY <2>1, <1>6, LenProperties
  <2>3. 1 .. Len(w) = 1 .. l
    BY <2>2
  <2>4. Len(w) = l
    <3>1. ASSUME Len(w) < l PROVE FALSE
      <4>1. l \in 1 .. l /\ l \notin 1 .. Len(w)
        BY <3>1, <2>2, <1>3
      <4>. QED
        BY <4>1, <2>3
    <3>2. ASSUME l < Len(w) PROVE FALSE
      <4>1. Len(w) \in 1 .. Len(w) /\ Len(w) \notin 1 .. l
        BY <3>2, <2>2, <1>3
      <4>. QED
        BY <4>1, <2>3
    <3>. QED
      BY <3>1, <3>2, <2>2, <1>3
  <2>. QED
    BY <2>1, <2>4
<1>8. Distinct(w)
  <2>1. ASSUME NEW i \in 1 .. l, NEW j \in 1 .. l, w[i] = w[j] PROVE i = j
    <3>1. \A g, h \in 1 .. Len(s) : s[g] = s[h] => g = h
      BY DEF Distinct
    <3>. QED
      BY <2>1, <3>1, <1>1, <1>3, <1>5
  <2>. QED
    BY <2>1, <1>7 DEF Distinct
<1>9. ASSUME NEW j \in 0 .. Len(s)
      PROVE  At(w, j) = IF j < k THEN At(s, j) ELSE At(s, j + 1)
  <2>1. CASE j \in 1 .. l
    BY <2>1, <1>5, <1>7 DEF At
  <2>2. CASE j = 0
    <3>1. 0 < k /\ 0 \notin 1 .. l /\ 0 \notin 1 .. Len(s)
      BY <1>1, <1>3
    <3>. QED
      BY <2>2, <3>1, <1>7 DEF At
  <2>3. CASE j = Len(s)
    <3>1. ~(j < k) /\ j \notin 1 .. l /\ j + 1 \notin 1 .. Len(s)
      BY <2>3, <1>1, <1>3
    <3>. QED
      BY <3>1, <1>7 DEF At
  <2>. QED
    BY <2>1, <2>2, <2>3, <1>3
<1>10. {w[j] : j \in 1 .. l} = {s[j] : j \in 1 .. Len(s)} \ {s[k]}
  <2>1. ASSUME NEW j \in 1 .. l
        PROVE  w[j] \in {s[h] : h \in 1 .. Len(s)} \ {s[k]}
    <3>1. PICK h \in 1 .. Len(s) : w[j] = s[h] /\ h # k
      BY <1>1, <1>3, <1>5
    <3>. QED
      BY <3>1 DEF Distinct
  <2>2. ASSUME NEW h \in 1 .. Len(s), h # k PROVE \E j \in 1 .. l : w[j] = s[h]
    <3>1. CASE h < k
      <4>1. h \in 1 .. l
        BY <3>1, <1>1, <1>3
      <4>. QED
        BY <3>1, <4>1, <1>5
    <3>2. CASE k < h
      <4>1. h - 1 \in 1 .. l /\ ~(h - 1 < k) /\ h - 1 + 1 = h
        BY <3>2, <1>1, <1>3
      <4>. QED
        BY <4>1, <1>5
    <3>. QED
      BY <3>1, <3>2, <2>2, <1>1
  <2>. QED
    BY <2>1, <2>2
<1>. QED
  BY <1>2, <1>7, <1>8, <1>9, <1>10 DEF Elements

(* A new first element moves all the others by one place.                  *)
LEMMA PrependPlaces ==
  ASSUME NEW s \in Seq(Nodes), NEW e \in Nodes, NEW w, w = Prepend(e, s)
  PROVE  /\ w \in Seq(Nodes) /\ Len(w) = Len(s) + 1 /\ At(w, 1) = e
         /\ \A j \in 1 .. (Len(s) + 1) : At(w, j + 1) = At(s, j)
         /\ Elements(w) = Elements(s) \cup {e}
         /\ Distinct(s) /\ e \notin Elements(s) => Distinct(w)
<1>1. Len(s) \in Nat
  BY Places
<1>2. <<e>> \in Seq(Nodes) /\ Len(<<e>>) = 1 /\ <<e>>[1] = e
  OBVIOUS
<1>3. w \in Seq(Nodes) /\ Len(w) = Len(s) + 1
  <2>1. Len(w) = 1 + Len(s) /\ w \in Seq(Nodes)
    BY <1>2, ConcatProperties DEF Prepend
  <2>. QED
    BY <2>1, <1>1
<1>4. \A i \in 1 .. (1 + Len(s)) : w[i] = IF i <= 1 THEN e ELSE s[i - 1]
  BY <1>1, <1>2, ConcatProperties DEF Prepend
<1>5. 1 \in 1 .. Len(w) /\ w[1] = e
  BY <1>1, <1>3, <1>4
<1>6. \A j \in 1 .. Len(s) : j + 1 \in 1 .. Len(w) /\ w[j + 1] = s[j]
  <2>1. ASSUME NEW j \in 1 .. Len(s) PROVE j + 1 \in 1 .. Len(w) /\ w[j + 1] = s[j]
    <3>1. j + 1 \in 1 .. (1 + Len(s)) /\ ~(j + 1 <= 1) /\ j + 1 - 1 = j
      BY <1>1
    <3>2. j + 1 \in 1 .. Len(w)
      BY <1>1, <1>3
    <3>. QED
      BY <3>1, <3>2, <1>4
  <2>. QED
    BY <2>1
<1>7. \A j \in 1 .. (Len(s) + 1) : At(w, j + 1) = At(s, j)
  <2>1. ASSUME NEW j \in 1 .. (Len(s) + 1) PROVE At(w, j + 1) = At(s, j)
    <3>1. CASE j \in 1 .. Len(s)
      BY <3>1, <1>6 DEF At
    <3>2. CASE j = Len(s) + 1
      <4>1. j \notin 1 .. Len(s) /\ j + 1 \notin 1 .. Len(w)
        BY <3>2, <1>1, <1>3
      <4>. QED
        BY <4>1 DEF At
    <3>. QED
      BY <3>1, <3>2, <1>1
  <2>. QED
    BY <2>1
<1>8. \A i \in 1 .. Len(w) : i = 1 \/ \E j \in 1 .. Len(s) : i = j + 1
  <2>1. ASSUME NEW i \in 1 .. Len(w), i # 1 PROVE \E j \in 1 .. Len(s) : i = j + 1
    <3>1. i - 1 \in 1 .. Len(s) /\ i = i - 1 + 1
      BY <2>1, <1>1, <1>3
    <3>. QED
      BY <3>1
  <2>. QED
    BY <2>1
<1>9. {w[j] : j \in 1 .. Len(w)} = {s[j] : j \in 1 .. Len(s)} \cup {e}
  <2>1. ASSUME NEW i \in 1 .. Len(w) PROVE w[i] \in {s[j] : j \in 1 .. Len(s)} \cup {e}
    <3>1. CASE i = 1
      BY <3>1, <1>5
    <3>2. ASSUME NEW j \in 1 .. Len(s), i = j + 1
          PROVE  w[i] \in {s[h] : h \in 1 .. Len(s)}
      BY <3>2, <1>6
    <3>. QED
      BY <3>1, <3>2, <1>8
  <2>2. \A j \in 1 .. Len(s) : s[j] \in {w[i] : i \in 1 .. Len(w)}
    BY <1>6
  <2>3. e \in {w[i] : i \in 1 .. Len(w)}
    BY <1>5
  <2>. QED
    BY <2>1, <2>2, <2>3
<1>10. ASSUME Distinct(s), e \notin {s[j] : j \in 1 .. Len(s)} PROVE Distinct(w)
  <2>1. ASSUME NEW i \in 1 .. Len(w), NEW j \in 1 .. Len(w), w[i] = w[j] PROVE i = j
    <3>1. CASE i = 1 /\ j = 1
      BY <3>1
    <3>2. ASSUME NEW g \in 1 .. Len(s), i = g + 1, j = 1 PROVE FALSE
      BY <2>1, <3>2, <1>5, <1>6, <1>10
    <3>3. ASSUME NEW g \in 1 .. Len(s), j = g + 1, i = 1 PROVE FALSE
      BY <2>1, <3>3, <1>5, <1>6, <1>10
    <3>4. ASSUME NEW g \in 1 .. Len(s), i = g + 1, NEW h \in 1 .. Len(s), j = h + 1
          PROVE  i = j
      BY <2>1, <3>4, <1>6, <1>10 DEF Distinct
    <3>. QED
      BY <3>1, <3>2, <3>3, <3>4, <1>8
  <2>. QED
    BY <2>1 DEF Distinct
<1>. QED
  BY <1>3, <1>5, <1>7, <1>9, <1>10 DEF At, Elements

(* The list of the properties is the list of the invariant.                *)
LEMMA CyclePlaces ==
  ASSUME list \in Seq(Nodes)
  PROVE  \A k \in 1 .. (Len(list) + 2) : Cycle[k] = At(list, k - 1)
<1>1. Len(list) \in Nat /\ \A e \in Nodes : e \in Links
  BY Places DEF Links
<1>2. <<HEAD>> \in Seq(Links) /\ Len(<<HEAD>>) = 1 /\ <<HEAD>>[1] = HEAD
  BY DEF Links
<1>3. list \in Seq(Links)
  BY DEF Links
<1>4. PICK s : s = <<HEAD>> \o list
  OBVIOUS
<1>5. s \in Seq(Links) /\ Len(s) = 1 + Len(list)
      /\ \A i \in 1 .. (1 + Len(list)) : s[i] = IF i <= 1 THEN HEAD ELSE list[i - 1]
  BY <1>2, <1>3, <1>4, ConcatProperties
<1>6. Cycle = s \o <<HEAD>>
  BY <1>4 DEF Cycle
<1>7. \A i \in 1 .. (Len(list) + 2) :
        Cycle[i] = IF i <= 1 + Len(list) THEN s[i] ELSE HEAD
  <2>1. \A i \in 1 .. (Len(s) + Len(<<HEAD>>)) :
          (s \o <<HEAD>>)[i] = IF i <= Len(s) THEN s[i] ELSE <<HEAD>>[i - Len(s)]
    BY <1>2, <1>5, ConcatProperties
  <2>2. ASSUME NEW i \in 1 .. (Len(list) + 2)
        PROVE  Cycle[i] = IF i <= 1 + Len(list) THEN s[i] ELSE HEAD
    <3>1. i \in 1 .. (Len(s) + Len(<<HEAD>>))
      BY <1>1, <1>2, <1>5
    <3>2. CASE i <= 1 + Len(list)
      BY <2>1, <3>1, <3>2, <1>5, <1>6
    <3>3. CASE i = Len(list) + 2
      <4>1. i - Len(s) = 1 /\ ~(i <= Len(s)) /\ ~(i <= 1 + Len(list))
        BY <3>3, <1>1, <1>5
      <4>. QED
        BY <4>1, <2>1, <3>1, <1>2, <1>6
    <3>. QED
      BY <3>2, <3>3, <1>1
  <2>. QED
    BY <2>2
<1>8. ASSUME NEW k \in 1 .. (Len(list) + 2) PROVE Cycle[k] = At(list, k - 1)
  <2>1. CASE k = 1
    <3>1. k <= 1 + Len(list) /\ k \in 1 .. (1 + Len(list)) /\ k - 1 \notin 1 .. Len(list)
      BY <2>1, <1>1
    <3>. QED
      BY <3>1, <2>1, <1>5, <1>7 DEF At
  <2>2. CASE k \in 2 .. (1 + Len(list))
    <3>1. k <= 1 + Len(list) /\ ~(k <= 1) /\ k \in 1 .. (1 + Len(list))
          /\ k - 1 \in 1 .. Len(list)
      BY <2>2, <1>1
    <3>. QED
      BY <3>1, <1>5, <1>7 DEF At
  <2>3. CASE k = Len(list) + 2
    <3>1. ~(k <= 1 + Len(list)) /\ k - 1 \notin 1 .. Len(list)
      BY <2>3, <1>1
    <3>. QED
      BY <3>1, <1>7 DEF At
  <2>. QED
    BY <2>1, <2>2, <2>3, <1>1
<1>. QED
  BY <1>8

(* A timer that has just been set has its whole period before it.          *)
LEMMA JustSet ==
  ASSUME NEW d \in Counts, NEW p, p = IF d = 0 THEN WORD ELSE d
  PROVE  0 \in 0 .. (p - 1) /\ d = (p - 0) % WORD
<1>1. WORD \in Nat /\ WORD > 0
  BY ModFacts
<1>2. CASE d = 0
  <2>1. 0 \in Counts
    BY <1>1 DEF Counts
  <2>2. (0 + WORD) % WORD = 0
    BY <2>1, ModFacts
  <2>3. 0 + WORD = WORD - 0 /\ 0 \in 0 .. (WORD - 1)
    BY <1>1
  <2>. QED
    BY <2>2, <2>3, <1>2
<1>3. CASE d # 0
  <2>1. p = d /\ d - 0 = d /\ 0 \in 0 .. (d - 1)
    BY <1>1, <1>3 DEF Counts
  <2>2. d % WORD = d
    BY ModFacts
  <2>. QED
    BY <2>1, <2>2
<1>. QED
  BY <1>2, <1>3

(* A period fits into a counter.                                           *)
LEMMA PeriodType ==
  ASSUME NEW e, deadline[e] \in Counts
  PROVE  Period(e) \in 1 .. WORD
BY ModFacts DEF Period, Counts

-----------------------------------------------------------------------------
(* The invariant holds at the start.                                       *)

(* The empty list satisfies the invariant.                                 *)
LEMMA InitIInv ==
  ASSUME Init
  PROVE  IInv
<1>1. list = <<>> /\ Len(list) = 0 /\ Listed = {}
  BY DEF Init, Listed
<1>2. TypeOK
  <2>1. 0 \in Counts /\ HEAD \in Links
    BY ModFacts DEF Counts, Links
  <2>2. IsFiniteSet(allocated)
    BY FS_EmptySet DEF Init
  <2>. QED
    BY <1>1, <2>1, <2>2 DEF Init, TypeOK, Links
<1>3. Registered
  <2>1. At(list, 0) = HEAD /\ At(list, 1) = HEAD
    BY <1>1 DEF At
  <2>2. next[HEAD] = HEAD
    BY DEF Init, Links
  <2>3. Distinct(list) /\ Chained(list)
    BY <1>1, <2>1, <2>2 DEF Distinct, Chained
  <2>. QED
    BY <1>1, <2>3 DEF Init, Registered
<1>4. OneShots
  BY <1>1 DEF Init, OneShots
<1>5. Walk
  BY <1>1 DEF Init, Walk
<1>. QED
  BY <1>2, <1>3, <1>4, <1>5 DEF IInv

-----------------------------------------------------------------------------
(* Registering a timer preserves the invariant.                            *)

(* At most one one-shot timer: there is room for one only if there is none. *)
LEMMA RoomForOneShot ==
  ASSUME MaxOneShot <= 1, IsFiniteSet(allocated), CanRegister(FALSE)
  PROVE  \A e \in allocated : periodic[e] # FALSE
<1>1. Pending(FALSE) \subseteq allocated
  BY DEF Pending
<1>2. IsFiniteSet(Pending(FALSE))
  BY <1>1, FS_Subset
<1>3. Cardinality(Pending(FALSE)) \in Nat /\ Cardinality(Pending(FALSE)) < MaxOneShot
  BY <1>2, FS_CardinalityType DEF CanRegister, Bound
<1>4. Cardinality(Pending(FALSE)) = 0
  <2>1. PICK c : c = Cardinality(Pending(FALSE))
    OBVIOUS
  <2>2. c \in Nat /\ c < MaxOneShot /\ MaxOneShot \in Nat
    BY <1>3, <2>1, TimerAssumption
  <2>3. MaxOneShot <= 1
    OBVIOUS
  <2>4. c = 0
    BY ONLY <2>2, <2>3
  <2>. QED
    BY <2>1, <2>4
<1>5. Pending(FALSE) = {}
  BY <1>2, <1>4, FS_EmptySet
<1>. QED
  BY <1>5 DEF Pending

(* A new node is private: only its own fields change.                      *)
LEMMA RunStep ==
  ASSUME IInv, MaxOneShot <= 1, NEW ticks \in Counts, NEW mode \in BOOLEAN,
         CanRegister(mode), timer_run(ticks, mode)
  PROVE  IInv'
<1>1. PICK t \in Nodes \ allocated :
         /\ allocated' = allocated \cup {t}
         /\ counter' = [counter EXCEPT ![t] = ticks]
         /\ deadline' = [deadline EXCEPT ![t] = ticks]
         /\ periodic' = [periodic EXCEPT ![t] = mode]
         /\ elem' = t
  BY DEF timer_run
<1>2. mpc = "idle" /\ ipc = "none" /\ mpc' = "read"
      /\ UNCHANGED <<prev, next, after, ipc, pos, n, list, age>>
  BY DEF timer_run, isr
<1>3. TypeOK /\ Registered /\ OneShots /\ Walk
  BY DEF IInv
<1>4. Listed' = Listed /\ Listed \subseteq allocated /\ t \notin Listed /\ t # HEAD
  BY <1>1, <1>2, <1>3, ModFacts DEF Listed, Registered
<1>5. TypeOK'
  <2>1. IsFiniteSet(allocated')
    BY <1>1, <1>3, FS_AddElement DEF TypeOK
  <2>. QED
    BY <1>1, <1>2, <1>3, <2>1 DEF TypeOK, Links
<1>6. Registered'
  <2>1. Distinct(list)' /\ Chained(list)'
    BY <1>2, <1>3 DEF Registered, Distinct, Chained, At
  <2>2. (allocated = Listed \cup ({elem} \ {HEAD}))'
    BY <1>1, <1>2, <1>3, <1>4 DEF Registered
  <2>3. counter'[t] = deadline'[t]
    BY <1>1, <1>3 DEF TypeOK
  <2>. QED
    BY <1>1, <1>2, <1>4, <2>1, <2>2, <2>3 DEF Registered
<1>7. OneShots'
  <2>1. ASSUME NEW e \in allocated', NEW f \in allocated', ~periodic'[e], ~periodic'[f]
        PROVE  e = f
    <3>1. CASE mode = TRUE
      BY <1>1, <1>3, <2>1, <3>1 DEF OneShots, TypeOK
    <3>2. CASE mode = FALSE
      <4>1. \A g \in allocated : periodic[g] # FALSE
        BY <1>3, <3>2, RoomForOneShot DEF TypeOK
      <4>2. \A g \in allocated : periodic'[g] = periodic[g] /\ periodic[g] \in BOOLEAN
        BY <1>1, <1>3 DEF TypeOK
      <4>. QED
        BY <1>1, <2>1, <4>1, <4>2
    <3>. QED
      BY <3>1, <3>2
  <2>2. ASSUME NEW k \in 1 .. Len(list), ~periodic'[list[k]]
        PROVE  prev[list[k]] = At(list, k - 1)
    <3>1. list[k] \in Listed
      BY DEF Listed
    <3>2. ~periodic[list[k]]
      BY <1>1, <1>3, <1>4, <2>2, <3>1 DEF TypeOK
    <3>. QED
      BY <1>2, <1>3, <3>2 DEF OneShots
  <2>. QED
    BY <1>2, <2>1, <2>2 DEF OneShots, At
<1>8. Walk'
  <2>1. ASSUME NEW e \in Listed PROVE Counted(e, age[e])'
    <3>1. Counted(e, age[e])
      BY <1>2, <1>3, <2>1 DEF Walk
    <3>2. counter'[e] = counter[e] /\ deadline'[e] = deadline[e] /\ age' = age
      BY <1>1, <1>2, <1>3, <1>4, <2>1 DEF TypeOK
    <3>. QED
      BY <3>1, <3>2 DEF Counted, Period
  <2>. QED
    BY <1>2, <1>3, <1>4, <2>1 DEF Walk
<1>. QED
  BY <1>5, <1>6, <1>7, <1>8 DEF IInv

(* Reading the old first node.                                             *)
LEMMA ReadNextStep ==
  ASSUME IInv, ReadNext
  PROVE  IInv'
<1>1. /\ mpc = "read" /\ ipc = "none" /\ after' = next[HEAD] /\ mpc' = "back"
      /\ UNCHANGED <<prev, next, counter, deadline, periodic, allocated, elem>>
      /\ UNCHANGED <<ipc, pos, n, list, age>>
  BY DEF ReadNext, fields, isr
<1>2. TypeOK /\ Registered /\ OneShots /\ Walk
  BY DEF IInv
<1>3. TypeOK'
  BY <1>1, <1>2 DEF TypeOK, Links
<1>4. Registered'
  BY <1>1, <1>2 DEF Registered, Listed, Distinct, Chained, At
<1>5. OneShots'
  BY <1>1, <1>2 DEF OneShots, At
<1>6. Walk'
  BY <1>1, <1>2 DEF Walk, Listed, Counted, Period
<1>. QED
  BY <1>3, <1>4, <1>5, <1>6 DEF IInv

(* The old first node leads back to the new one.                           *)
LEMMA LinkBackStep ==
  ASSUME IInv, LinkBack
  PROVE  IInv'
<1>1. /\ mpc = "back" /\ ipc = "none" /\ mpc' = "elem"
      /\ prev' = [prev EXCEPT ![after] = elem]
      /\ UNCHANGED <<next, counter, deadline, periodic, allocated, elem, after>>
      /\ UNCHANGED <<ipc, pos, n, list, age>>
  BY DEF LinkBack, fields, isr
<1>2. TypeOK /\ Registered /\ OneShots /\ Walk
  BY DEF IInv
<1>3. TypeOK'
  BY <1>1, <1>2 DEF TypeOK
<1>4. Registered'
  BY <1>1, <1>2 DEF Registered, Listed, Distinct, Chained, At
<1>5. OneShots'
  <2>1. after = At(list, 1) /\ Distinct(list)
    <3>1. Len(list) \in Nat /\ At(list, 0) = HEAD
      BY <1>2, Places DEF TypeOK
    <3>2. 0 \in 0 .. Len(list) /\ 0 + 1 = 1
      BY <3>1
    <3>. QED
      BY <1>1, <1>2, <3>1, <3>2 DEF Registered, Chained
  <2>2. ASSUME NEW k \in 1 .. Len(list), ~periodic[list[k]]
        PROVE  prev'[list[k]] = IF k = 1 THEN elem ELSE At(list, k - 1)
    <3>1. prev[list[k]] = At(list, k - 1) /\ list[k] \in Links
      <4>1. ~(k = 1 /\ mpc \in {"elem", "publish"})
        BY <1>1
      <4>2. list[k] \in Links
        BY <1>2, Places DEF TypeOK, Links
      <4>. QED
        BY <1>2, <2>2, <4>1, <4>2 DEF OneShots
    <3>2. CASE k = 1
      BY <1>1, <1>2, <2>1, <3>1, <3>2 DEF At, TypeOK
    <3>3. CASE k # 1
      <4>1. list[k] # after
        <5>1. CASE 1 \in 1 .. Len(list)
          BY <2>1, <3>3, <5>1 DEF At, Distinct
        <5>2. CASE 1 \notin 1 .. Len(list)
          BY <1>2, <5>2, Places DEF TypeOK
        <5>. QED
          BY <5>1, <5>2
      <4>. QED
        BY <1>1, <1>2, <3>1, <3>3, <4>1 DEF TypeOK
    <3>. QED
      BY <3>2, <3>3
  <2>. QED
    BY <1>1, <1>2, <2>2 DEF OneShots, At
<1>6. Walk'
  BY <1>1, <1>2 DEF Walk, Listed, Counted, Period
<1>. QED
  BY <1>3, <1>4, <1>5, <1>6 DEF IInv

(* The new node leads to both its neighbours.                              *)
LEMMA LinkElemStep ==
  ASSUME IInv, LinkElem
  PROVE  IInv'
<1>1. /\ mpc = "elem" /\ ipc = "none" /\ mpc' = "publish"
      /\ next' = [next EXCEPT ![elem] = after]
      /\ prev' = [prev EXCEPT ![elem] = HEAD]
      /\ UNCHANGED <<counter, deadline, periodic, allocated, elem, after>>
      /\ UNCHANGED <<ipc, pos, n, list, age>>
  BY DEF LinkElem, fields, isr
<1>2. TypeOK /\ Registered /\ OneShots /\ Walk
  BY DEF IInv
<1>3. elem \in Nodes \ Listed /\ elem # HEAD /\ elem \in Links
  BY <1>1, <1>2, ModFacts DEF Registered, TypeOK
<1>4. \A k : At(list, k) # elem /\ At(list, k) \in Links
  BY <1>2, <1>3, Places DEF At, Listed, TypeOK
<1>5. \A k : next'[At(list, k)] = next[At(list, k)] /\ prev'[At(list, k)] = prev[At(list, k)]
  BY <1>1, <1>2, <1>4 DEF TypeOK
<1>6. TypeOK'
  BY <1>1, <1>2 DEF TypeOK, Links
<1>7. Registered'
  <2>1. Distinct(list)' /\ Chained(list)'
    BY <1>1, <1>2, <1>5 DEF Registered, Distinct, Chained, At
  <2>2. next'[elem] = after /\ prev'[elem] = HEAD /\ next'[HEAD] = next[HEAD]
    <3>1. HEAD \in Links
      BY DEF Links
    <3>. QED
      BY <1>1, <1>2, <1>3, <3>1 DEF TypeOK
  <2>. QED
    BY <1>1, <1>2, <2>1, <2>2 DEF Registered, Listed
<1>8. OneShots'
  <2>1. \A k \in 1 .. Len(list) : prev'[list[k]] = prev[list[k]]
    BY <1>5 DEF At
  <2>. QED
    BY <1>1, <1>2, <2>1 DEF OneShots, At
<1>9. Walk'
  BY <1>1, <1>2 DEF Walk, Listed, Counted, Period
<1>. QED
  BY <1>6, <1>7, <1>8, <1>9 DEF IInv

(* The new node becomes the first element, linked on both sides.           *)
LEMMA PublishStep ==
  ASSUME IInv, Publish
  PROVE  IInv'
<1>1. /\ mpc = "publish" /\ ipc = "none" /\ mpc' = "idle" /\ elem' = HEAD /\ after' = HEAD
      /\ next' = [next EXCEPT ![HEAD] = elem]
      /\ age' = [age EXCEPT ![elem] = 0]
      /\ UNCHANGED <<prev, counter, deadline, periodic, allocated, ipc, pos, n>>
  BY DEF Publish, fields, isr
<1>2. TypeOK /\ Registered /\ OneShots /\ Walk
  BY DEF IInv
<1>3. elem \in Nodes \ Listed /\ elem # HEAD /\ elem \in Links /\ HEAD \in Links
      /\ after = next[HEAD] /\ next[elem] = after /\ prev[elem] = HEAD
      /\ counter[elem] = deadline[elem] /\ allocated = Listed \cup {elem}
  BY <1>1, <1>2, ModFacts DEF Registered, TypeOK, Links
<1>4. PICK w : w = list'
  OBVIOUS
<1>5. list \in Seq(Nodes) /\ Distinct(list) /\ w = Prepend(elem, list)
  BY <1>2, <1>4 DEF TypeOK, Registered, Publish, Prepend
<1>6. /\ w \in Seq(Nodes) /\ Len(w) = Len(list) + 1 /\ At(w, 1) = elem
      /\ \A j \in 1 .. (Len(list) + 1) : At(w, j + 1) = At(list, j)
      /\ Elements(w) = Elements(list) \cup {elem}
      /\ Distinct(w)
  <2>1. elem \in Nodes /\ elem \notin Elements(list)
    BY <1>3 DEF Listed, Elements
  <2>2. w \in Seq(Nodes) /\ Len(w) = Len(list) + 1
    BY ONLY <2>1, <1>5, PrependPlaces
  <2>3. At(w, 1) = elem /\ Distinct(w)
    BY ONLY <2>1, <1>5, PrependPlaces
  <2>4. Elements(w) = Elements(list) \cup {elem}
    BY ONLY <2>1, <1>5, PrependPlaces
  <2>5. \A j \in 1 .. (Len(list) + 1) : At(w, j + 1) = At(list, j)
    BY ONLY <2>1, <1>5, PrependPlaces
  <2>. QED
    BY ONLY <2>2, <2>3, <2>4, <2>5
<1>7. /\ Len(list) \in Nat /\ At(w, 0) = HEAD /\ At(list, 0) = HEAD
      /\ \A j \in 1 .. Len(w) : At(w, j) = w[j]
      /\ \A j \in 1 .. Len(list) : At(list, j) = list[j] /\ list[j] # HEAD
  BY <1>5, <1>6, Places
<1>8. Listed' = Listed \cup {elem}
  BY <1>4, <1>6 DEF Listed, Elements
<1>9. TypeOK'
  BY <1>1, <1>2, <1>3, <1>4, <1>6 DEF TypeOK
<1>10. \A j \in 0 .. Len(w) : next'[At(w, j)] = At(w, j + 1)
  <2>1. \A j \in 0 .. Len(list) : next[At(list, j)] = At(list, j + 1)
    BY <1>2 DEF Registered, Chained
  <2>2. next'[HEAD] = elem /\ \A e \in Nodes : next'[e] = next[e]
    BY <1>1, <1>2, <1>3, ModFacts DEF TypeOK, Links
  <2>3. next'[At(w, 0)] = At(w, 0 + 1)
    BY <2>2, <1>6, <1>7
  <2>4. next'[At(w, 1)] = At(w, 1 + 1)
    <3>1. 0 \in 0 .. Len(list) /\ 0 + 1 = 1 /\ 1 \in 1 .. (Len(list) + 1)
      BY <1>7
    <3>2. At(w, 1 + 1) = At(list, 1) /\ next[HEAD] = At(list, 1)
      BY <3>1, <2>1, <1>6, <1>7
    <3>. QED
      BY <3>2, <2>2, <1>3, <1>6
  <2>5. ASSUME NEW j \in 1 .. Len(list) PROVE next'[At(w, j + 1)] = At(w, j + 1 + 1)
    <3>1. j \in 1 .. (Len(list) + 1) /\ j + 1 \in 1 .. (Len(list) + 1) /\ j \in 0 .. Len(list)
      BY <1>7
    <3>2. At(w, j + 1) = list[j] /\ list[j] \in Nodes /\ At(w, j + 1 + 1) = At(list, j + 1)
      BY <3>1, <1>5, <1>6, <1>7, Places
    <3>3. next[list[j]] = At(list, j + 1)
      <4>1. next[At(list, j)] = At(list, j + 1)
        BY <3>1, <2>1
      <4>2. At(list, j) = list[j]
        BY <1>5, Places
      <4>. QED
        BY <4>1, <4>2
    <3>. QED
      BY <3>2, <3>3, <2>2
  <2>6. \A j \in 0 .. Len(w) : j = 0 \/ j = 1 \/ \E h \in 1 .. Len(list) : j = h + 1
    <3>1. ASSUME NEW j \in 0 .. Len(w), j # 0, j # 1
          PROVE  j - 1 \in 1 .. Len(list) /\ j = j - 1 + 1
      BY <3>1, <1>6, <1>7
    <3>. QED
      BY <3>1
  <2>. QED
    BY <2>3, <2>4, <2>5, <2>6
<1>11. Registered'
  <2>1. Distinct(list)' /\ Chained(list)'
    BY <1>4, <1>6, <1>10 DEF Distinct, Chained, At
  <2>. QED
    BY <1>1, <1>3, <1>8, <2>1 DEF Registered
<1>12. OneShots'
  <2>1. ASSUME NEW k \in 1 .. Len(w), ~periodic[w[k]]
        PROVE  prev[w[k]] = At(w, k - 1)
    <3>1. CASE k = 1
      <4>1. w[k] = elem /\ k - 1 = 0
        BY <3>1, <1>6, <1>7
      <4>. QED
        BY <4>1, <1>3, <1>7
    <3>2. CASE k # 1
      <4>1. PICK h : h = k - 1
        OBVIOUS
      <4>2. h \in 1 .. Len(list) /\ k = h + 1 /\ h \in 1 .. (Len(list) + 1)
        BY <3>2, <4>1, <1>6, <1>7
      <4>3. w[k] = list[h]
        BY <4>2, <1>6, <1>7
      <4>4. prev[list[h]] = IF h = 1 THEN elem ELSE At(list, h - 1)
        BY <1>1, <1>2, <2>1, <4>2, <4>3 DEF OneShots
      <4>5. CASE h = 1
        BY <4>1, <4>3, <4>4, <4>5, <1>6
      <4>6. CASE h # 1
        <5>1. h - 1 \in 1 .. (Len(list) + 1) /\ h - 1 + 1 = h
          BY <4>2, <4>6, <1>7
        <5>2. At(w, h) = At(list, h - 1)
          BY <5>1, <1>6
        <5>. QED
          BY <5>2, <4>1, <4>3, <4>4, <4>6
      <4>. QED
        BY <4>5, <4>6
    <3>. QED
      BY <3>1, <3>2
  <2>2. \A e, f \in allocated : ~periodic[e] /\ ~periodic[f] => e = f
    BY <1>2 DEF OneShots
  <2>. QED
    BY <1>1, <1>4, <2>1, <2>2 DEF OneShots, At
<1>13. Walk'
  <2>1. Counted(elem, 0)
    <3>1. deadline[elem] \in Counts
      BY <1>2, <1>3 DEF TypeOK
    <3>. QED
      BY <3>1, <1>3, JustSet DEF Counted, Period
  <2>2. ASSUME NEW e \in Listed' PROVE Counted(e, age[e])'
    <3>1. CASE e = elem
      <4>1. age'[e] = 0
        BY <1>1, <1>2, <1>3, <3>1 DEF TypeOK
      <4>. QED
        BY <1>1, <2>1, <3>1, <4>1 DEF Counted, Period
    <3>2. CASE e # elem
      <4>1. e \in Listed /\ Counted(e, age[e])
        BY <1>1, <1>2, <1>8, <2>2, <3>2 DEF Walk
      <4>2. age'[e] = age[e]
        BY <1>1, <1>2, <3>2, <4>1 DEF TypeOK, Registered
      <4>. QED
        BY <1>1, <4>1, <4>2 DEF Counted, Period
    <3>. QED
      BY <3>1, <3>2
  <2>. QED
    BY <1>1, <1>2, <2>2 DEF Walk
<1>. QED
  BY <1>9, <1>11, <1>12, <1>13 DEF IInv

-----------------------------------------------------------------------------
(* The handler preserves the invariant.                                    *)

(* A tick makes every registered timer a tick older and puts the handler   *)
(* on the first.                                                           *)
LEMMA TickStep ==
  ASSUME IInv, ~OneShotRace, Tick
  PROVE  IInv'
<1>1. /\ ipc = "none" /\ ipc' = "walk"
      /\ mpc = "idle" \/ \A e \in Listed : periodic[e]
      /\ pos' = next[HEAD] /\ n' = next[next[HEAD]]
      /\ age' = [e \in Nodes |-> IF e \in Listed THEN age[e] + 1 ELSE age[e]]
      /\ UNCHANGED <<prev, next, counter, deadline, periodic, allocated, list>>
      /\ UNCHANGED <<mpc, elem, after>>
  BY DEF Tick, fields, main
<1>2. TypeOK /\ Registered /\ OneShots /\ Walk
  BY DEF IInv
<1>3. TypeOK'
  <2>1. age' \in [Nodes -> Nat]
    BY <1>1, <1>2 DEF TypeOK
  <2>2. HEAD \in Links
    BY DEF Links
  <2>. QED
    BY <1>1, <1>2, <2>1, <2>2 DEF TypeOK
<1>4. Registered'
  BY <1>1, <1>2 DEF Registered, Listed, Distinct, Chained, At
<1>5. OneShots'
  BY <1>1, <1>2 DEF OneShots, At
<1>6. Walk'
  <2>1. Len(list) \in Nat /\ next[HEAD] = At(list, 1)
    <3>1. Len(list) \in Nat /\ At(list, 0) = HEAD
      BY <1>2, Places DEF TypeOK
    <3>2. 0 \in 0 .. Len(list) /\ 0 + 1 = 1
      BY <3>1
    <3>. QED
      BY <1>2, <3>1, <3>2 DEF Registered, Chained
  <2>2. ASSUME NEW l \in 1 .. Len(list)
        PROVE  age'[list[l]] > 0 /\ Counted(list[l], age'[list[l]] - 1)
    <3>1. list[l] \in Listed /\ list[l] \in Nodes
      BY <1>2, Places DEF Listed, TypeOK
    <3>2. age[list[l]] \in Nat /\ age'[list[l]] = age[list[l]] + 1
      BY <1>1, <1>2, <3>1 DEF TypeOK
    <3>3. age'[list[l]] - 1 = age[list[l]] /\ age'[list[l]] > 0
      BY <3>2
    <3>. QED
      BY <1>1, <1>2, <3>1, <3>3 DEF Walk
  <2>3. StandsAt(1)'
    <3>1. \A l \in 1 .. Len(list) : ~(l < 1)
      BY <2>1
    <3>. QED
      BY <1>1, <2>1, <2>2, <3>1 DEF StandsAt, Counted, Period, At
  <2>. QED
    BY <1>1, <2>1, <2>3 DEF Walk, Listed
<1>. QED
  BY <1>3, <1>4, <1>5, <1>6 DEF IInv

(* What the handler finds at the timer it stands on.                       *)
LEMMA Standing ==
  ASSUME IInv, ipc = "walk", pos # HEAD
  PROVE  \E k \in 1 .. Len(list) :
           /\ StandsAt(k) /\ pos = list[k] /\ n = At(list, k + 1)
           /\ pos \in Nodes /\ pos \in Listed /\ age[pos] > 0
           /\ Minus1(counter[pos]) \in Counts
           /\ Minus1(counter[pos]) # 0 =>
                /\ age[pos] \in 0 .. (Period(pos) - 1)
                /\ Minus1(counter[pos]) = (Period(pos) - age[pos]) % WORD
<1>1. TypeOK /\ Registered /\ Walk
  BY DEF IInv
<1>2. PICK k \in 1 .. (Len(list) + 1) : StandsAt(k)
  BY <1>1 DEF Walk
<1>3. k \in 1 .. Len(list) /\ pos = list[k]
  BY <1>2 DEF StandsAt, At
<1>4. pos \in Nodes /\ pos \in Listed
  BY <1>1, <1>3, Places DEF Listed, TypeOK
<1>5. n = At(list, k + 1)
  <2>1. k \in 0 .. Len(list)
    BY <1>3
  <2>. QED
    BY <1>1, <1>2, <2>1 DEF StandsAt, Registered, Chained
<1>6. age[pos] > 0 /\ Counted(pos, age[pos] - 1)
  <2>1. ~(k < k)
    BY <1>3
  <2>. QED
    BY <1>2, <1>3, <2>1 DEF StandsAt
<1>7. age[pos] \in Nat /\ Period(pos) \in 1 .. WORD
  BY <1>1, <1>4, PeriodType DEF TypeOK
<1>8. /\ Minus1(counter[pos]) \in Counts
      /\ Minus1(counter[pos]) # 0 =>
           /\ age[pos] \in 0 .. (Period(pos) - 1)
           /\ Minus1(counter[pos]) = (Period(pos) - age[pos]) % WORD
  <2>1. PICK p, t, c : p = Period(pos) /\ t = age[pos] /\ c = counter[pos]
    OBVIOUS
  <2>2. p \in 1 .. WORD /\ t \in Nat /\ t > 0 /\ t - 1 \in 0 .. (p - 1)
        /\ c = (p - (t - 1)) % WORD
    BY <1>6, <1>7, <2>1 DEF Counted
  <2>3. /\ Minus1(c) \in Counts
        /\ Minus1(c) # 0 => t \in 0 .. (p - 1) /\ Minus1(c) = (p - t) % WORD
    BY ONLY <2>2, CountOneTick
  <2>. QED
    BY <2>1, <2>3
<1>. QED
  BY <1>2, <1>3, <1>4, <1>5, <1>6, <1>8

(* A timer that stays in the list has counted the tick; the handler goes   *)
(* on to the next.                                                         *)
LEMMA Advances ==
  ASSUME IInv, ipc = "walk", pos # HEAD, NEW q \in Nodes, q = pos, Advance,
         UNCHANGED <<prev, next, deadline, periodic, allocated, list>>,
         UNCHANGED <<mpc, elem, after, ipc>>,
         counter' \in [Nodes -> Counts], age' \in [Nodes -> Nat],
         \A e \in Nodes : e # q => counter'[e] = counter[e] /\ age'[e] = age[e],
         Counted(q, age[q])'
  PROVE  IInv'
<1>1. TypeOK /\ Registered /\ OneShots /\ Walk
  BY DEF IInv
<1>2. PICK k \in 1 .. Len(list) :
        StandsAt(k) /\ q = list[k] /\ n = At(list, k + 1) /\ q \in Listed
  BY Standing
<1>3. Len(list) \in Nat /\ list \in Seq(Nodes) /\ Distinct(list)
      /\ \A l \in 1 .. Len(list) : list[l] \in Nodes
  BY <1>1, Places DEF TypeOK, Registered
<1>4. TypeOK'
  BY <1>1 DEF TypeOK, Advance
<1>5. Registered'
  <2>1. elem # HEAD => counter'[elem] = deadline'[elem]
    <3>1. ASSUME elem # HEAD PROVE elem \in Nodes /\ elem # q
      BY <3>1, <1>1, <1>2 DEF Registered
    <3>. QED
      BY <3>1, <1>1 DEF Registered
  <2>2. Distinct(list)' /\ Chained(list)'
    BY <1>1 DEF Registered, Distinct, Chained, At
  <2>3. Listed' = Listed
    BY DEF Listed
  <2>. QED
    BY <1>1, <2>1, <2>2, <2>3 DEF Registered
<1>6. OneShots'
  BY <1>1 DEF OneShots, At
<1>7. Walk'
  <2>1. mpc = "idle" \/ \A e \in Listed : periodic[e]
    BY <1>1 DEF Walk
  <2>2. ASSUME NEW l \in 1 .. Len(list)
        PROVE  IF l < k + 1 THEN Counted(list[l], age[list[l]])'
                            ELSE age'[list[l]] > 0 /\ Counted(list[l], age[list[l]] - 1)'
    <3>1. CASE l = k
      <4>1. Counted(list[l], age[list[l]])'
        BY <1>2, <3>1
      <4>2. l < k + 1
        BY <3>1
      <4>. QED
        BY <4>1, <4>2
    <3>2. CASE l # k
      <4>1. list[l] \in Nodes /\ list[l] # q
        BY <1>2, <1>3, <3>2 DEF Distinct
      <4>2. counter'[list[l]] = counter[list[l]] /\ age'[list[l]] = age[list[l]]
            /\ deadline'[list[l]] = deadline[list[l]] /\ list'[l] = list[l]
        BY <4>1
      <4>3. l < k + 1 <=> l < k
        BY <3>2
      <4>4. IF l < k THEN Counted(list[l], age[list[l]])
                     ELSE age[list[l]] > 0 /\ Counted(list[l], age[list[l]] - 1)
        BY <1>2 DEF StandsAt
      <4>. QED
        BY <4>2, <4>3, <4>4 DEF Counted, Period
    <3>. QED
      BY <3>1, <3>2
  <2>3. pos' = At(list, k + 1)' /\ n' = next'[pos']
    BY <1>2 DEF Advance, At
  <2>4. StandsAt(k + 1)'
    BY <2>2, <2>3 DEF StandsAt
  <2>5. k + 1 \in 1 .. (Len(list') + 1)
    BY <1>3
  <2>. QED
    BY <2>1, <2>4, <2>5 DEF Walk, Listed
<1>. QED
  BY <1>4, <1>5, <1>6, <1>7 DEF IInv

(* The counter goes down by one.                                           *)
LEMMA CountDownStep ==
  ASSUME IInv, CountDown
  PROVE  IInv'
<1>1. /\ ipc = "walk" /\ pos # HEAD /\ Minus1(counter[pos]) # 0 /\ Advance
      /\ counter' = [counter EXCEPT ![pos] = Minus1(counter[pos])]
      /\ UNCHANGED <<prev, next, deadline, periodic, allocated, list>>
      /\ UNCHANGED <<mpc, elem, after, ipc>> /\ age' = age
  BY DEF CountDown, main
<1>2. TypeOK
  BY DEF IInv
<1>3. /\ pos \in Nodes /\ Minus1(counter[pos]) \in Counts
      /\ age[pos] \in 0 .. (Period(pos) - 1)
      /\ Minus1(counter[pos]) = (Period(pos) - age[pos]) % WORD
  BY <1>1, Standing
<1>4. PICK q, c : q = pos /\ c = Minus1(counter[pos])
  OBVIOUS
<1>5. counter' = [counter EXCEPT ![q] = c] /\ q \in Nodes /\ c \in Counts
      /\ counter \in [Nodes -> Counts] /\ age \in [Nodes -> Nat]
  BY <1>1, <1>2, <1>3, <1>4 DEF TypeOK
<1>6. counter' \in [Nodes -> Counts] /\ counter'[q] = c
      /\ \A e \in Nodes : e # q => counter'[e] = counter[e]
  BY <1>5
<1>7. Counted(q, age[q])'
  BY <1>1, <1>3, <1>4, <1>6 DEF Counted, Period
<1>8. age' \in [Nodes -> Nat] /\ \A e \in Nodes : age'[e] = age[e]
  BY <1>1, <1>5
<1>. QED
  BY <1>1, <1>4, <1>5, <1>6, <1>7, <1>8, Advances

(* A periodic timer starts again.                                          *)
LEMMA FirePeriodicStep ==
  ASSUME IInv, FirePeriodic
  PROVE  IInv'
<1>1. /\ ipc = "walk" /\ pos # HEAD /\ Advance
      /\ counter' = [counter EXCEPT ![pos] = deadline[pos]]
      /\ age' = [age EXCEPT ![pos] = 0]
      /\ UNCHANGED <<prev, next, deadline, periodic, allocated, list>>
      /\ UNCHANGED <<mpc, elem, after, ipc>>
  BY DEF FirePeriodic, main
<1>2. TypeOK
  BY DEF IInv
<1>3. pos \in Nodes /\ deadline[pos] \in Counts
  BY <1>1, <1>2, Standing DEF TypeOK
<1>4. PICK q : q = pos
  OBVIOUS
<1>5. counter' = [counter EXCEPT ![q] = deadline[q]] /\ age' = [age EXCEPT ![q] = 0]
      /\ q \in Nodes /\ deadline[q] \in Counts
      /\ counter \in [Nodes -> Counts] /\ age \in [Nodes -> Nat]
  BY <1>1, <1>2, <1>3, <1>4 DEF TypeOK
<1>6. /\ counter' \in [Nodes -> Counts] /\ age' \in [Nodes -> Nat]
      /\ counter'[q] = deadline[q] /\ age'[q] = 0
      /\ \A e \in Nodes : e # q => counter'[e] = counter[e] /\ age'[e] = age[e]
  BY <1>5
<1>7. Counted(q, age[q])'
  <2>1. deadline' = deadline
    BY <1>1
  <2>2. counter'[q] = deadline'[q] /\ deadline'[q] \in Counts
    BY <1>5, <1>6, <2>1
  <2>3. Counted(q, 0)'
    BY <2>2, JustSet DEF Counted, Period
  <2>. QED
    BY <2>3, <1>6 DEF Counted
<1>. QED
  BY <1>1, <1>4, <1>5, <1>6, <1>7, Advances

(* The handler leaves the list when it has been all the way round it.      *)
LEMMA EndOfTickStep ==
  ASSUME IInv, EndOfTick
  PROVE  IInv'
<1>1. /\ ipc = "walk" /\ pos = HEAD /\ ipc' = "none" /\ pos' = HEAD /\ n' = HEAD
      /\ UNCHANGED <<prev, next, counter, deadline, periodic, allocated, list>>
      /\ UNCHANGED <<mpc, elem, after, age>>
  BY DEF EndOfTick, fields, main
<1>2. TypeOK /\ Registered /\ OneShots /\ Walk
  BY DEF IInv
<1>3. TypeOK'
  <2>1. HEAD \in Links
    BY DEF Links
  <2>. QED
    BY <1>1, <1>2, <2>1 DEF TypeOK
<1>4. Registered'
  BY <1>1, <1>2 DEF Registered, Listed, Distinct, Chained, At
<1>5. OneShots'
  BY <1>1, <1>2 DEF OneShots, At
<1>6. Walk'
  <2>1. PICK k \in 1 .. (Len(list) + 1) : StandsAt(k)
    BY <1>1, <1>2 DEF Walk
  <2>2. Len(list) \in Nat /\ \A l \in 1 .. Len(list) : At(list, l) # HEAD
    BY <1>2, Places DEF TypeOK
  <2>3. k = Len(list) + 1
    BY <1>1, <2>1, <2>2 DEF StandsAt
  <2>4. ASSUME NEW e \in Listed PROVE Counted(e, age[e])
    <3>1. PICK l \in 1 .. Len(list) : e = list[l]
      BY <2>4 DEF Listed
    <3>2. l < k
      BY <2>2, <2>3
    <3>. QED
      BY <2>1, <3>1, <3>2 DEF StandsAt
  <2>. QED
    BY <1>1, <2>4 DEF Walk, Listed, Counted, Period
<1>. QED
  BY <1>3, <1>4, <1>5, <1>6 DEF IInv

(* A one-shot timer that fires leaves the list: its neighbours are linked, *)
(* and the handler goes on with the one behind it.                         *)
LEMMA FireOneShotStep ==
  ASSUME IInv, FireOneShot
  PROVE  IInv'
<1>1. /\ ipc = "walk" /\ pos # HEAD /\ ~periodic[pos]
      /\ counter' = [counter EXCEPT ![pos] = 0]
      /\ allocated' = allocated \ {pos} /\ list' = Without(list, pos)
      /\ age' = [age EXCEPT ![pos] = 0]
      /\ pos' = n /\ n' = next'[n]
      /\ UNCHANGED <<deadline, periodic, mpc, elem, after, ipc>>
  BY DEF FireOneShot, Advance, main
<1>2. TypeOK /\ Registered /\ OneShots /\ Walk
  BY DEF IInv
<1>3. PICK k \in 1 .. Len(list) :
        StandsAt(k) /\ pos = list[k] /\ n = At(list, k + 1) /\ pos \in Nodes /\ pos \in Listed
  BY <1>1, Standing
<1>4. Len(list) \in Nat /\ k \in Nat /\ list \in Seq(Nodes) /\ Distinct(list)
      /\ (\A l \in 1 .. Len(list) : list[l] \in Nodes /\ At(list, l) = list[l])
      /\ (\A l : At(list, l) \in Links)
      /\ \A g, h \in 0 .. Len(list) : At(list, g) = At(list, h) => g = h
  BY <1>2, Places DEF TypeOK, Registered
<1>5. mpc = "idle" /\ elem = HEAD /\ allocated = Listed
  BY <1>1, <1>2, <1>3 DEF Walk, Registered
<1>6. \A j \in 0 .. Len(list) : next[At(list, j)] = At(list, j + 1)
  BY <1>2 DEF Registered, Chained
<1>7. prev[pos] = At(list, k - 1) /\ next[pos] = At(list, k + 1)
  <2>1. k \in 0 .. Len(list) /\ At(list, k) = pos
    BY <1>3, <1>4
  <2>2. prev[list[k]] = At(list, k - 1)
    BY <1>1, <1>2, <1>3, <1>5 DEF OneShots
  <2>. QED
    BY <2>1, <2>2, <1>3, <1>6
<1>8. next' \in [Links -> Links] /\ prev' \in [Links -> Links]
      /\ \A x \in Links : x # pos =>
           next'[x] = IF x = At(list, k - 1) THEN At(list, k + 1) ELSE next[x]
  <2>1. PICK q, a, b : q = pos /\ a = At(list, k - 1) /\ b = At(list, k + 1)
    OBVIOUS
  <2>2. q \in Links /\ a \in Links /\ b \in Links /\ prev[q] = a /\ next[q] = b
        /\ next \in [Links -> Links] /\ prev \in [Links -> Links]
    BY <1>2, <1>3, <1>4, <1>7, <2>1 DEF TypeOK, Links
  <2>3. PICK u : u = [next EXCEPT ![a] = b]
    OBVIOUS
  <2>4. u \in [Links -> Links] /\ \A x \in Links : u[x] = IF x = a THEN b ELSE next[x]
    BY <2>2, <2>3
  <2>5. llist_delete(q)
    BY <2>1 DEF FireOneShot
  <2>6. next' = [u EXCEPT ![q] = q]
        /\ prev' = [[prev EXCEPT ![u[q]] = u[q]] EXCEPT ![q] = q]
    BY <2>2, <2>3, <2>5 DEF llist_delete
  <2>7. u[q] \in Links
    BY <2>2, <2>4
  <2>8. next' \in [Links -> Links] /\ \A x \in Links : x # q => next'[x] = u[x]
    BY <2>2, <2>4, <2>6
  <2>9. prev' \in [Links -> Links]
    <3>1. PICK v : v = [prev EXCEPT ![u[q]] = u[q]]
      OBVIOUS
    <3>2. v \in [Links -> Links] /\ prev' = [v EXCEPT ![q] = q]
      BY <2>2, <2>6, <2>7, <3>1
    <3>. QED
      BY <2>2, <3>2
  <2>. QED
    BY <2>1, <2>4, <2>8, <2>9
<1>9. PICK w : w = list'
  OBVIOUS
<1>10. w = Without(list, list[k])
  BY <1>1, <1>3, <1>9
<1>11. w \in Seq(Nodes) /\ Len(w) = Len(list) - 1 /\ Distinct(w)
  BY ONLY <1>4, <1>10, WithoutPlaces
<1>12. \A j \in 0 .. Len(list) : At(w, j) = IF j < k THEN At(list, j) ELSE At(list, j + 1)
  BY ONLY <1>4, <1>10, WithoutPlaces
<1>13. Listed' = Listed \ {pos}
  <2>1. Elements(w) = Elements(list) \ {list[k]}
    BY ONLY <1>4, <1>10, WithoutPlaces
  <2>. QED
    BY <2>1, <1>3, <1>9 DEF Elements, Listed
<1>14. TypeOK'
  <2>1. IsFiniteSet(allocated')
    BY <1>1, <1>2, FS_RemoveElement DEF TypeOK
  <2>2. pos' \in Links /\ n' \in Links
    BY <1>1, <1>3, <1>4, <1>8
  <2>3. counter' \in [Nodes -> Counts] /\ age' \in [Nodes -> Nat]
    <3>1. 0 \in Counts
      BY ModFacts DEF Counts
    <3>. QED
      BY <1>1, <1>2, <1>3, <3>1 DEF TypeOK
  <2>4. allocated' \subseteq Nodes /\ list' \in Seq(Nodes)
    BY <1>1, <1>2, <1>9, <1>11 DEF TypeOK
  <2>. QED
    BY <1>1, <1>2, <1>8, <2>1, <2>2, <2>3, <2>4 DEF TypeOK
<1>15. \A j \in 0 .. Len(w) : next'[At(w, j)] = At(w, j + 1)
  <2>1. k - 1 \in 0 .. Len(list) /\ k \in 0 .. Len(list) /\ At(list, k) = pos
    BY <1>3, <1>4
  <2>2. ASSUME NEW i \in 0 .. Len(list), i # k, i # k - 1
        PROVE  next'[At(list, i)] = At(list, i + 1)
    <3>1. At(list, i) # pos /\ At(list, i) # At(list, k - 1) /\ At(list, i) \in Links
      BY <2>1, <2>2, <1>4
    <3>2. next'[At(list, i)] = next[At(list, i)]
      BY <3>1, <1>8
    <3>. QED
      BY <3>2, <1>6
  <2>3. next'[At(list, k - 1)] = At(list, k + 1)
    <3>1. k - 1 # k
      BY <1>4
    <3>2. At(list, k - 1) # pos /\ At(list, k - 1) \in Links
      BY <3>1, <2>1, <1>4
    <3>. QED
      BY <3>2, <1>8
  <2>4. ASSUME NEW j \in 0 .. Len(w) PROVE next'[At(w, j)] = At(w, j + 1)
    <3>1. j \in 0 .. Len(list) /\ j + 1 \in 0 .. Len(list)
      BY <1>4, <1>11
    <3>2. /\ At(w, j) = IF j < k THEN At(list, j) ELSE At(list, j + 1)
          /\ At(w, j + 1) = IF j + 1 < k THEN At(list, j + 1) ELSE At(list, j + 1 + 1)
      BY <3>1, <1>12
    <3>3. CASE j < k - 1
      <4>1. j < k /\ j + 1 < k /\ j # k /\ j # k - 1
        BY <3>3, <1>4
      <4>2. next'[At(list, j)] = At(list, j + 1)
        BY <4>1, <3>1, <2>2
      <4>. QED
        BY <4>1, <4>2, <3>2
    <3>4. CASE j = k - 1
      <4>1. j < k /\ ~(j + 1 < k) /\ j + 1 + 1 = k + 1
        BY <3>4, <1>4
      <4>. QED
        BY <4>1, <3>2, <3>4, <2>3
    <3>5. CASE j >= k
      <4>1. ~(j < k) /\ ~(j + 1 < k) /\ j + 1 # k /\ j + 1 # k - 1
        BY <3>5, <1>4
      <4>2. next'[At(list, j + 1)] = At(list, j + 1 + 1)
        BY <4>1, <3>1, <2>2
      <4>. QED
        BY <4>1, <4>2, <3>2
    <3>. QED
      BY <3>3, <3>4, <3>5, <1>4
  <2>. QED
    BY <2>4
<1>16. Registered'
  <2>1. Distinct(list)' /\ Chained(list)'
    BY <1>9, <1>11, <1>15 DEF Distinct, Chained, At
  <2>2. (allocated = Listed \cup ({elem} \ {HEAD}))'
    BY <1>1, <1>5, <1>13
  <2>. QED
    BY <1>1, <1>5, <2>1, <2>2 DEF Registered
<1>17. \A e \in Listed' : periodic[e]
  <2>1. \A e \in allocated : ~periodic[e] => e = pos
    BY <1>1, <1>2, <1>3, <1>5 DEF OneShots
  <2>. QED
    BY <2>1, <1>5, <1>13
<1>18. OneShots'
  <2>1. \A l \in 1 .. Len(list') : list'[l] \in Listed'
    BY DEF Listed
  <2>. QED
    BY <1>1, <1>5, <1>13, <1>17, <2>1 DEF OneShots
<1>19. Walk'
  <2>1. ASSUME NEW l \in 1 .. Len(w)
        PROVE  IF l < k THEN Counted(w[l], age[w[l]])'
                        ELSE age'[w[l]] > 0 /\ Counted(w[l], age[w[l]] - 1)'
    <3>1. PICK h : h = IF l < k THEN l ELSE l + 1
      OBVIOUS
    <3>2. h \in 1 .. Len(list) /\ h # k /\ l \in 0 .. Len(list) /\ (h < k <=> l < k)
      BY <3>1, <1>4, <1>11
    <3>3. w[l] = list[h]
      <4>1. At(w, l) = w[l]
        BY <1>11, Places
      <4>2. At(w, l) = At(list, h)
        BY <3>1, <3>2, <1>12
      <4>. QED
        BY <4>1, <4>2, <3>2, <1>4
    <3>4. list[h] \in Nodes /\ list[h] # pos
      BY <3>2, <1>3, <1>4 DEF Distinct
    <3>5. PICK e : e = w[l]
      OBVIOUS
    <3>6. e \in Nodes /\ e # pos /\ e = list[h]
      BY <3>3, <3>4, <3>5
    <3>7. counter'[e] = counter[e] /\ age'[e] = age[e] /\ deadline'[e] = deadline[e]
      BY <3>6, <1>1, <1>2 DEF TypeOK
    <3>8. IF h < k THEN Counted(e, age[e])
                   ELSE age[e] > 0 /\ Counted(e, age[e] - 1)
      BY <3>2, <3>6, <1>3 DEF StandsAt
    <3>9. IF l < k THEN Counted(e, age[e])'
                   ELSE age'[e] > 0 /\ Counted(e, age[e] - 1)'
      BY <3>2, <3>7, <3>8 DEF Counted, Period
    <3>. QED
      BY <3>5, <3>9
  <2>2. pos' = At(list, k)'
    <3>1. k \in 0 .. Len(list) /\ ~(k < k)
      BY <1>4
    <3>2. At(w, k) = At(list, k + 1)
      BY <3>1, <1>12
    <3>. QED
      BY <3>2, <1>1, <1>3, <1>9 DEF At
  <2>3. StandsAt(k)'
    BY <2>1, <2>2, <1>1, <1>9 DEF StandsAt
  <2>4. k \in 1 .. (Len(w) + 1)
    BY <1>4, <1>11
  <2>. QED
    BY <2>3, <2>4, <1>1, <1>5, <1>9 DEF Walk
<1>. QED
  BY <1>14, <1>16, <1>18, <1>19 DEF IInv

-----------------------------------------------------------------------------
(* The theorems.                                                           *)

(* A number of ticks is a value of a counter.                              *)
LEMMA TicksType ==
  ASSUME NEW second \in Seconds
  PROVE  TicksOf(second) \in Counts
<1>1. second \in Nat /\ FREQ \in Nat
  BY TimerAssumption
<1>2. second * FREQ \in Nat
  BY <1>1
<1>. QED
  BY <1>2, ModFacts DEF TicksOf

(* Every step preserves the invariant.                                     *)
LEMMA StepIInv ==
  ASSUME MaxOneShot <= 1, ~OneShotRace, IInv, [Next]_vars
  PROVE  IInv'
<1>1. ASSUME NEW second \in Seconds, NEW mode \in BOOLEAN,
             CanRegister(mode), timer_run_second(second, mode)
      PROVE  IInv'
  <2>1. TicksOf(second) \in Counts
    BY TicksType
  <2>. QED
    BY <1>1, <2>1, RunStep DEF timer_run_second
<1>2. CASE ReadNext
  BY <1>2, ReadNextStep
<1>3. CASE LinkBack
  BY <1>3, LinkBackStep
<1>4. CASE LinkElem
  BY <1>4, LinkElemStep
<1>5. CASE Publish
  BY <1>5, PublishStep
<1>6. CASE Tick
  BY <1>6, TickStep
<1>7. CASE CountDown
  BY <1>7, CountDownStep
<1>8. CASE FirePeriodic
  BY <1>8, FirePeriodicStep
<1>9. CASE FireOneShot
  BY <1>9, FireOneShotStep
<1>10. CASE EndOfTick
  BY <1>10, EndOfTickStep
<1>11. CASE UNCHANGED vars
  <2>1. UNCHANGED <<prev, next, counter, deadline, periodic, allocated, list, age>>
        /\ UNCHANGED <<mpc, elem, after, ipc, pos, n>>
    BY <1>11 DEF vars, fields, main, isr
  <2>2. TypeOK'
    BY <2>1 DEF IInv, TypeOK, Links
  <2>3. Registered'
    BY <2>1 DEF IInv, Registered, Listed, Distinct, Chained, At
  <2>4. OneShots'
    BY <2>1 DEF IInv, OneShots, At
  <2>5. Walk'
    BY <2>1 DEF IInv, Walk, StandsAt, Listed, Counted, Period, At
  <2>. QED
    BY <2>2, <2>3, <2>4, <2>5 DEF IInv
<1>. QED
  BY <1>1, <1>2, <1>3, <1>4, <1>5, <1>6, <1>7, <1>8, <1>9, <1>10, <1>11 DEF Next

(* The invariant holds within the two bounds.                              *)
LEMMA Invariance ==
  ASSUME MaxOneShot <= 1, ~OneShotRace
  PROVE  Spec => []IInv
<1>1. Init => IInv
  BY InitIInv
<1>2. IInv /\ [Next]_vars => IInv'
  BY StepIInv
<1>. QED
  BY <1>1, <1>2, PTL DEF Spec

(* The handler can walk the list whenever it starts, also in the middle of *)
(* llist_append (llist.h:25-33): it finds all registered timers, in order, *)
(* and the head again.                                                     *)
THEOREM TheListIsWhole ==
  ASSUME MaxOneShot <= 1, ~OneShotRace
  PROVE  Spec => []ForwardChain
<1>1. IInv => ForwardChain
  <2>1. ASSUME IInv, NEW k \in 1 .. (Len(list) + 1)
        PROVE  next[Cycle[k]] = Cycle[k + 1]
    <3>1. list \in Seq(Nodes) /\ Len(list) \in Nat /\ Chained(list)
      BY <2>1, Places DEF IInv, TypeOK, Registered
    <3>2. k \in 1 .. (Len(list) + 2) /\ k + 1 \in 1 .. (Len(list) + 2)
          /\ k - 1 \in 0 .. Len(list) /\ k - 1 + 1 = k /\ k + 1 - 1 = k
      BY <3>1
    <3>3. Cycle[k] = At(list, k - 1) /\ Cycle[k + 1] = At(list, k)
      BY <3>1, <3>2, CyclePlaces
    <3>4. next[At(list, k - 1)] = At(list, k)
      BY <3>1, <3>2 DEF Chained
    <3>. QED
      BY <3>3, <3>4
  <2>. QED
    BY <2>1 DEF ForwardChain
<1>. QED
  BY <1>1, Invariance, PTL

(* timer_update frees the node it stands on (timer.c:174-175) and goes on  *)
(* with a node that is still allocated; the list holds no freed node.      *)
THEOREM NothingFreedIsUsed ==
  ASSUME MaxOneShot <= 1, ~OneShotRace
  PROVE  Spec => []NoUseAfterFree
<1>1. IInv => NoUseAfterFree
  <2>1. SUFFICES ASSUME IInv PROVE NoUseAfterFree
    OBVIOUS
  <2>2. TypeOK /\ Registered /\ Walk
    BY <2>1 DEF IInv
  <2>3. Listed \subseteq allocated
    BY <2>2 DEF Registered
  <2>4. Len(list) \in Nat /\ At(list, 0) = HEAD
        /\ \A k \in 1 .. Len(list) : At(list, k) = list[k]
    BY <2>2, Places DEF TypeOK
  <2>5. \A k : At(list, k) \in allocated \cup {HEAD}
    BY <2>3 DEF At, Listed
  <2>6. ASSUME NEW e \in Listed \cup {HEAD} PROVE next[e] \in allocated \cup {HEAD}
    <3>1. \E k \in 0 .. Len(list) : e = At(list, k)
      <4>1. CASE e = HEAD
        BY <4>1, <2>4
      <4>2. CASE e \in Listed
        <5>1. PICK k \in 1 .. Len(list) : e = list[k]
          BY <4>2 DEF Listed
        <5>2. k \in 0 .. Len(list) /\ e = At(list, k)
          BY <5>1, <2>4
        <5>. QED
          BY <5>2
      <4>. QED
        BY <4>1, <4>2
    <3>2. PICK k \in 0 .. Len(list) : e = At(list, k)
      BY <3>1
    <3>3. next[e] = At(list, k + 1)
      BY <3>2, <2>2 DEF Registered, Chained
    <3>. QED
      BY <3>3, <2>5
  <2>7. pos \in allocated \cup {HEAD} /\ n \in allocated \cup {HEAD}
    <3>1. CASE ipc = "walk"
      <4>1. PICK k \in 1 .. (Len(list) + 1) : StandsAt(k)
        BY <3>1, <2>2 DEF Walk
      <4>2. pos = At(list, k) /\ n = next[pos]
        BY <4>1 DEF StandsAt
      <4>3. pos \in Listed \cup {HEAD}
        BY <4>2 DEF At, Listed
      <4>. QED
        BY <4>2, <4>3, <2>3, <2>6
    <3>2. CASE ipc # "walk"
      BY <3>2, <2>2 DEF Walk
    <3>. QED
      BY <3>1, <3>2
  <2>. QED
    BY <2>3, <2>6, <2>7 DEF NoUseAfterFree
<1>. QED
  BY <1>1, Invariance, PTL

(* A timer obtained from the heap is in the list, or about to be put into  *)
(* it, until it is freed, whatever timer_run and timer_update interleave.  *)
THEOREM NoTimerIsLost ==
  ASSUME MaxOneShot <= 1, ~OneShotRace
  PROVE  Spec => []NoTimerLost
<1>1. IInv => NoTimerLost
  BY DEF IInv, Registered, NoTimerLost
<1>. QED
  BY <1>1, Invariance, PTL

(* Each tick decrements each registered timer's counter once, and the      *)
(* timer fires exactly when its time is up (timer.c:163-177), for every    *)
(* deadline and every width of the counters.                               *)
THEOREM EveryTickIsCounted ==
  ASSUME MaxOneShot <= 1, ~OneShotRace
  PROVE  Spec => []CountsEveryTick
<1>1. IInv => CountsEveryTick
  <2>1. ASSUME IInv, ipc = "none", NEW e \in Listed
        PROVE  age[e] < Period(e) /\ counter[e] = (Period(e) - age[e]) % WORD
    <3>1. Counted(e, age[e]) /\ e \in Nodes
      <4>1. TypeOK /\ Walk
        BY <2>1 DEF IInv
      <4>. QED
        BY <2>1, <4>1, Places DEF Walk, Listed, TypeOK
    <3>2. PICK p, t : p = Period(e) /\ t = age[e]
      OBVIOUS
    <3>3. t \in 0 .. (p - 1) /\ p \in 1 .. WORD /\ counter[e] = (p - t) % WORD
      BY <2>1, <3>1, <3>2, PeriodType DEF Counted, IInv, TypeOK
    <3>4. t < p
      BY <3>3, ModFacts
    <3>. QED
      BY <3>2, <3>3, <3>4
  <2>. QED
    BY <2>1 DEF CountsEveryTick
<1>. QED
  BY <1>1, Invariance, PTL
=============================================================================
