---------------------------- MODULE ClockProofs ----------------------------
(***************************************************************************)
(* Theorems about Clock, for every set of starting times, every pace and   *)
(* every number of updates below a minute's.                               *)
(***************************************************************************)
EXTENDS Clock, TLAPS

FieldNames == {"year", "month", "day", "weekday", "hour", "minute", "second"}

(* What is needed of the time: seconds run from 0 to 59, a weekday is one  *)
(* digit, there is no month 0, a year is one of the century.               *)
Times == [year : 0 .. 99, month : Nat \ {0}, day : Nat, weekday : 1 .. 7,
          hour : Nat, minute : Nat, second : 0 .. 59]

(* The second shown when tick updates had been made.                       *)
Sec(tick) == (now.second + 60 - (ticks - tick)) % 60

(* A reading, and a date made before this call: converted, or never read.  *)
Fresh(d) == d["month"] # 0 /\ d["year"] \in 0 .. 1999
Stale(d) == ~Fresh(d)

(* The reading d shows the time t; its second is that after tick updates.  *)
Shows(d, t) == \A f \in FieldNames : d[f] = Register(f, t[f])
SecondAt(d, tick) == d["second"] = Register("second", Sec(tick))

ClockRuns ==
  /\ now \in Times /\ ticks \in 0 .. MaxTicks /\ (update => ticks < MaxTicks)
  /\ update \in BOOLEAN
  /\ binary \in BOOLEAN /\ h24 \in BOOLEAN
  /\ DOMAIN datetime = FieldNames
  /\ shown \subseteq Times
  /\ pc # "idle" => now \in shown
  /\ pc \in {"idle", "wait", "read", "compare", "convert", "done"}

(* While a reading is made: if no update came since the second of the      *)
(* reading before was read, all that is read so far shows the time of now. *)
WhileReading ==
  /\ next \in 1 .. 7
  /\ next > 1 => datetime["year"] \in 0 .. 1999
  /\ next > 2 => datetime["month"] # 0
  /\ \/ Stale(current)
     \/ \E tick \in 0 .. ticks :
          /\ SecondAt(current, tick)
          /\ tick = ticks =>
               \A i \in 1 .. next - 1 :
                 datetime[Fields[i]] = Register(Fields[i], now[Fields[i]])

(* When two readings are compared: if no update came between their         *)
(* seconds, the later one shows one time.                                  *)
WhenComparing ==
  /\ Fresh(datetime)
  /\ \E tick \in 0 .. ticks : SecondAt(datetime, tick)
  /\ \/ Stale(current)
     \/ \E first, last \in 0 .. ticks :
          /\ first <= last
          /\ SecondAt(current, first) /\ SecondAt(datetime, last)
          /\ first = last => \E t \in shown : Shows(datetime, t)

Readings ==
  /\ pc = "idle" => Stale(datetime)
  /\ pc = "wait" => Stale(datetime) \/ \E tick \in 0 .. ticks : SecondAt(datetime, tick)
  /\ pc = "read" => WhileReading
  /\ pc = "compare" => WhenComparing
  /\ pc = "convert" => \E t \in shown : Shows(datetime, t)
  /\ pc = "done" => Stale(datetime) /\ ReadingIsExact

Inv == ClockRuns /\ Readings

-----------------------------------------------------------------------------
(* The clock.                                                              *)

(* The fields by number.                                                   *)
LEMMA FieldList ==
  /\ Len(Fields) = 7
  /\ Fields[1] = "year" /\ Fields[2] = "month" /\ Fields[3] = "day"
  /\ Fields[4] = "weekday" /\ Fields[5] = "hour" /\ Fields[6] = "minute"
  /\ Fields[7] = "second"
  /\ {Fields[i] : i \in 1 .. Len(Fields)} = FieldNames
<1>1. /\ Len(Fields) = 7
      /\ Fields[1] = "year" /\ Fields[2] = "month" /\ Fields[3] = "day"
      /\ Fields[4] = "weekday" /\ Fields[5] = "hour" /\ Fields[6] = "minute"
      /\ Fields[7] = "second"
  BY DEF Fields
<1>2. 1 .. 7 = {1, 2, 3, 4, 5, 6, 7}
  OBVIOUS
<1>. QED
  BY <1>1, <1>2 DEF FieldNames

(* A second later it is still a time, one second further.                  *)
LEMMA LaterTime ==
  ASSUME NEW t \in Times
  PROVE  Later(t) \in Times /\ Later(t).second = (t.second + 1) % 60
<1>1. (t.weekday % 7) + 1 \in 1 .. 7
  BY DEF Times
<1>2. (t.year + 1) % 100 \in 0 .. 99
  BY DEF Times
<1>3. Later(t).second = (t.second + 1) % 60 /\ Later(t).second \in 0 .. 59
  BY DEF Times, Later
<1>. QED
  BY <1>1, <1>2, <1>3 DEF Times, Later

(* Seconds less than a minute apart differ.                                *)
LEMMA Apart ==
  ASSUME NEW x \in Int, NEW y \in Int, x - y \in -59 .. 59, x % 60 = y % 60
  PROVE  x = y
<1>1. PICK q \in Int, p \in Int : x = 60 * q + (x % 60) /\ y = 60 * p + (y % 60)
  OBVIOUS
<1>2. q - p \in Int /\ x - y = 60 * (q - p)
  BY <1>1
<1>3. q - p = 0
  BY <1>2
<1>. QED
  BY <1>2, <1>3

(* An earlier update and a later one of a call left different seconds.    *)
LEMMA SecondsDiffer ==
  ASSUME now \in Times, ticks \in 0 .. 59, NEW a \in 0 .. ticks, NEW b \in 0 .. ticks,
         Sec(a) = Sec(b)
  PROVE  a = b
<1>1. now.second \in 0 .. 59
  BY DEF Times
<1>. DEFINE x == now.second + 60 - (ticks - a)
            y == now.second + 60 - (ticks - b)
<1>2. x \in Int /\ y \in Int /\ x - y = a - b /\ x - y \in -59 .. 59
  BY <1>1
<1>3. x % 60 = y % 60
  BY DEF Sec
<1>4. x = y
  BY <1>2, <1>3, Apart
<1>5. a \in Int /\ b \in Int
  OBVIOUS
<1>. HIDE DEF x, y
<1>. QED
  BY <1>2, <1>4, <1>5

(* A register of two BCD digits is converted back to its value.            *)
LEMMA Bcd ==
  ASSUME NEW v \in Nat
  PROVE  LET r == (v \div 10) * 16 + (v % 10)
         IN  r \in Nat /\ bcd2dec(r) = v /\ (v < 10 => r = v) /\ (v # 0 => r # 0)
                /\ (v < 100 => r < 160)
<1>1. PICK q \in Nat, r \in 0 .. 9 : v \div 10 = q /\ v % 10 = r /\ v = 10 * q + r
  OBVIOUS
<1>2. (q * 16 + r) \div 16 = q /\ (q * 16 + r) % 16 = r
  BY <1>1
<1>. QED
  BY <1>1, <1>2 DEF bcd2dec

(* Two registers that show the same second show the same number.           *)
LEMMA SecondRegister ==
  ASSUME NEW v \in 0 .. 59, NEW w \in 0 .. 59,
         Register("second", v) = Register("second", w)
  PROVE  v = w
<1>. DEFINE Digits(u) == (u \div 10) * 16 + (u % 10)
<1>1. ASSUME NEW u \in 0 .. 59
      PROVE  Register("second", u) = IF binary THEN u ELSE Digits(u)
  BY <1>1 DEF Register
<1>2. CASE binary
  BY <1>1, <1>2
<1>3. CASE ~binary
  <2>1. Digits(v) = Digits(w)
    BY <1>1, <1>3
  <2>2. bcd2dec(Digits(v)) = v /\ bcd2dec(Digits(w)) = w
    BY Bcd
  <2>. QED
    BY <2>1, <2>2
<1>. QED
  BY <1>2, <1>3

(* No register shows month 0 or a year of four digits.                     *)
LEMMA FreshRegister ==
  ASSUME NEW t \in Times
  PROVE  Register("month", t["month"]) # 0 /\ Register("year", t["year"]) \in 0 .. 1999
<1>1. t["month"] \in Nat \ {0} /\ t["year"] \in 0 .. 99
  BY DEF Times
<1>2. Register("month", t["month"]) =
        IF binary THEN t["month"] ELSE (t["month"] \div 10) * 16 + (t["month"] % 10)
  BY <1>1 DEF Register
<1>3. Register("year", t["year"]) =
        IF binary THEN t["year"] ELSE (t["year"] \div 10) * 16 + (t["year"] % 10)
  BY <1>1 DEF Register
<1>4. Register("month", t["month"]) # 0
  BY <1>1, <1>2, Bcd
<1>5. Register("year", t["year"]) \in 0 .. 1999
  <2>1. CASE binary
    BY <2>1, <1>1, <1>3
  <2>2. CASE ~binary
    <3>. DEFINE r == (t["year"] \div 10) * 16 + (t["year"] % 10)
    <3>1. r \in Nat /\ r < 160
      BY <1>1, Bcd
    <3>2. Register("year", t["year"]) = r
      BY <2>2, <1>3
    <3>. HIDE DEF r
    <3>. QED
      BY <3>1, <3>2
  <2>. QED
    BY <2>1, <2>2
<1>. QED
  BY <1>4, <1>5

(* An update moves the clock on and leaves the seconds of earlier ticks.   *)
LEMMA SecKept ==
  ASSUME ClockRuns, EndUpdate
  PROVE  /\ ClockRuns'
         /\ ticks' = ticks + 1
         /\ \A tick \in 0 .. ticks : Sec(tick)' = Sec(tick)
<1>1. now \in Times /\ now' = Later(now) /\ ticks' = ticks + 1
  BY DEF ClockRuns, EndUpdate, UpdateEnds
<1>2. now' \in Times /\ now'.second = (now.second + 1) % 60
  BY <1>1, LaterTime
<1>3. ClockRuns'
  <2>1. ticks' \in 0 .. MaxTicks /\ update' = FALSE
    BY <1>1, ClockAssumption DEF ClockRuns, EndUpdate, UpdateEnds
  <2>2. shown' \subseteq Times /\ (pc' # "idle" => now' \in shown')
    BY <1>2 DEF ClockRuns, EndUpdate, UpdateEnds
  <2>3. /\ binary' \in BOOLEAN /\ h24' \in BOOLEAN
        /\ DOMAIN datetime' = FieldNames
        /\ pc' \in {"idle", "wait", "read", "compare", "convert", "done"}
    BY DEF ClockRuns, EndUpdate, UpdateEnds
  <2>. QED
    BY <1>2, <2>1, <2>2, <2>3 DEF ClockRuns
<1>4. ASSUME NEW tick \in 0 .. ticks
      PROVE  Sec(tick)' = Sec(tick)
  <2>1. PICK s \in 0 .. 59 : now.second = s /\ now'.second = (s + 1) % 60
    BY <1>1, <1>2 DEF Times
  <2>2. ticks \in 0 .. 59 /\ ticks' = ticks + 1
    BY <1>1, ClockAssumption DEF ClockRuns
  <2>3. (((s + 1) % 60) + 60 - (ticks + 1 - tick)) % 60 = (s + 60 - (ticks - tick)) % 60
    BY <2>2
  <2>. QED
    BY <2>1, <2>2, <2>3 DEF Sec
<1>. QED
  BY <1>1, <1>3, <1>4

-----------------------------------------------------------------------------
(* The invariant.                                                          *)

(* Before the first call datetime is all zero (k_main.c), so stale.        *)
LEMMA InitInv == Init => Inv
<1>. SUFFICES ASSUME Init PROVE Inv
  OBVIOUS
<1>1. now \in Times
  <2>1. now \in [year : 0 .. 99, month : 1 .. 12, day : 1 .. 31, weekday : 1 .. 7,
                hour : 0 .. 23, minute : 0 .. 59, second : 0 .. 59]
    BY ClockAssumption DEF Init
  <2>. QED
    BY <2>1 DEF Times
<1>2. datetime = [f \in FieldNames |-> 0]
  BY FieldList DEF Init
<1>3. Stale(datetime)
  BY <1>2 DEF Stale, Fresh, FieldNames
<1>4. ClockRuns
  <2>1. ticks \in 0 .. MaxTicks
    BY ClockAssumption DEF Init
  <2>2. update \in BOOLEAN /\ ~update
    BY DEF Init
  <2>3. DOMAIN datetime = FieldNames
    BY <1>2
  <2>. QED
    BY <1>1, <2>1, <2>2, <2>3 DEF Init, ClockRuns
<1>. QED
  BY <1>3, <1>4 DEF Init, Inv, Readings

(* The parts of the invariant depend on no more than these variables.      *)
LEMMA ReadingsKept ==
  ASSUME Readings,
         UNCHANGED <<now, binary, h24, ticks, pc, next, datetime, current, shown>>
  PROVE  Readings'
<1>1. \A f, v : Register(f, v)' = Register(f, v)
  BY DEF Register
<1>2. \A tick : Sec(tick)' = Sec(tick)
  BY DEF Sec
<1>3. /\ \A tick : SecondAt(current, tick)' <=> SecondAt(current, tick)
      /\ \A tick : SecondAt(datetime, tick)' <=> SecondAt(datetime, tick)
  BY <1>1, <1>2 DEF SecondAt
<1>4. \A t : Shows(datetime, t)' <=> Shows(datetime, t)
  BY <1>1 DEF Shows
<1>5. /\ Stale(datetime)' <=> Stale(datetime)
      /\ Stale(current)' <=> Stale(current)
      /\ Fresh(datetime)' <=> Fresh(datetime)
  BY DEF Stale, Fresh
<1>6. WhileReading' <=> WhileReading
  BY <1>1, <1>3, <1>5 DEF WhileReading
<1>7. WhenComparing' <=> WhenComparing
  BY <1>3, <1>4, <1>5 DEF WhenComparing
<1>8. ReadingIsExact' <=> ReadingIsExact
  BY DEF ReadingIsExact
<1>. QED
  BY <1>3, <1>4, <1>5, <1>6, <1>7, <1>8 DEF Readings

(* A register read before an update keeps its number.                      *)
LEMMA EndUpdateInv == Inv /\ EndUpdate => Inv'
<1>. SUFFICES ASSUME Inv, EndUpdate PROVE Inv'
  OBVIOUS
<1>1. /\ ClockRuns'
      /\ ticks' = ticks + 1 /\ ticks \in Nat
      /\ \A tick \in 0 .. ticks : Sec(tick)' = Sec(tick)
  BY SecKept, ClockAssumption DEF Inv, ClockRuns
<1>2. /\ UNCHANGED <<binary, h24, pc, next, datetime, current>>
      /\ shown \subseteq shown'
  BY DEF EndUpdate, UpdateEnds
<1>3. /\ \A tick \in 0 .. ticks : tick \in 0 .. ticks' /\ tick # ticks'
      /\ \A tick \in 0 .. ticks : SecondAt(current, tick)' <=> SecondAt(current, tick)
      /\ \A tick \in 0 .. ticks : SecondAt(datetime, tick)' <=> SecondAt(datetime, tick)
  BY <1>1, <1>2 DEF SecondAt, Register
<1>4. /\ Stale(datetime)' <=> Stale(datetime)
      /\ Stale(current)' <=> Stale(current)
      /\ Fresh(datetime)' <=> Fresh(datetime)
  BY <1>2 DEF Stale, Fresh
<1>5. \A t : Shows(datetime, t)' <=> Shows(datetime, t)
  BY <1>2 DEF Shows, Register
<1>6. WhileReading => WhileReading'
  BY <1>2, <1>3, <1>4 DEF WhileReading
<1>7. WhenComparing => WhenComparing'
  <2>1. ASSUME NEW first \in 0 .. ticks, NEW last \in 0 .. ticks, first <= last,
               SecondAt(current, first), SecondAt(datetime, last),
               first = last => \E t \in shown : Shows(datetime, t)
        PROVE  \E i, j \in 0 .. ticks' :
                 /\ i <= j
                 /\ SecondAt(current, i)' /\ SecondAt(datetime, j)'
                 /\ i = j => \E t \in shown' : Shows(datetime, t)'
    BY <1>2, <1>3, <1>5, <2>1
  <2>. QED
    BY <1>3, <1>4, <2>1 DEF WhenComparing
<1>8. ReadingIsExact => ReadingIsExact'
  BY <1>2 DEF ReadingIsExact
<1>9. Readings'
  BY <1>2, <1>3, <1>4, <1>5, <1>6, <1>7, <1>8 DEF Inv, Readings
<1>. QED
  BY <1>1, <1>9 DEF Inv

(* The date of the call before is stale when the next call begins.         *)
LEMMA test_timerInv == Inv /\ test_timer => Inv'
<1>. SUFFICES ASSUME Inv, test_timer PROVE Inv'
  OBVIOUS
<1>1. ClockRuns'
  BY DEF Inv, ClockRuns, test_timer, device
<1>2. Stale(datetime)'
  BY DEF Inv, Readings, test_timer, Stale, Fresh
<1>. QED
  BY <1>1, <1>2 DEF Inv, Readings, test_timer

(* The reading before is kept, and the next one starts with no register.  *)
LEMMA WaitForUpdateInv == Inv /\ WaitForUpdate => Inv'
<1>. SUFFICES ASSUME Inv, WaitForUpdate PROVE Inv'
  OBVIOUS
<1>1. ClockRuns'
  BY DEF Inv, ClockRuns, WaitForUpdate, device
<1>2. /\ Stale(datetime) \/ \E tick \in 0 .. ticks : SecondAt(datetime, tick)
      /\ next' = 1 /\ current' = datetime /\ UNCHANGED <<now, binary, ticks>>
  BY DEF Inv, Readings, WaitForUpdate, device
<1>3. \A tick : SecondAt(current, tick)' <=> SecondAt(datetime, tick)
  <2>1. \A v : Register("second", v)' = Register("second", v)
    BY <1>2 DEF Register
  <2>2. \A tick : Sec(tick)' = Sec(tick)
    BY <1>2 DEF Sec
  <2>. QED
    BY <1>2, <2>1, <2>2 DEF SecondAt
<1>4. Stale(current)' <=> Stale(datetime)
  BY <1>2 DEF Stale, Fresh
<1>5. WhileReading'
  <2>1. next' \in 1 .. 7 /\ ~(next' > 1) /\ ~(next' > 2)
    BY <1>2
  <2>2. \A i \in 1 .. next' - 1 : FALSE
    BY <1>2
  <2>. QED
    BY <1>2, <1>3, <1>4, <2>1, <2>2 DEF WhileReading
<1>. QED
  BY <1>1, <1>5 DEF Inv, Readings, WaitForUpdate

(* The register just read shows the time of now.                           *)
LEMMA rtc_read_regInv == Inv /\ rtc_read_reg => Inv'
<1>. SUFFICES ASSUME Inv, rtc_read_reg PROVE Inv'
  OBVIOUS
<1>. DEFINE f == Fields[next]
<1>1. /\ pc = "read" /\ WhileReading /\ ClockRuns
      /\ next \in 1 .. 7 /\ f \in FieldNames
      /\ datetime' = [datetime EXCEPT ![f] = Register(f, now[f])]
  <2>1. pc = "read" /\ WhileReading /\ ClockRuns
    BY DEF Inv, Readings, rtc_read_reg
  <2>2. next \in 1 .. 7
    BY <2>1 DEF WhileReading
  <2>3. f \in FieldNames
    BY <2>2, FieldList DEF FieldNames
  <2>. QED
    BY <2>1, <2>2, <2>3 DEF rtc_read_reg
<1>2. /\ UNCHANGED <<now, binary, h24, update, ticks, current, shown>>
      /\ now \in Times /\ now \in shown /\ ticks \in Nat
  BY <1>1, ClockAssumption DEF ClockRuns, rtc_read_reg, device
<1>3. /\ datetime'[f] = Register(f, now[f])
      /\ \A g \in FieldNames \ {f} : datetime'[g] = datetime[g]
      /\ DOMAIN datetime' = FieldNames
  <2>1. DOMAIN datetime = FieldNames
    BY <1>1 DEF ClockRuns
  <2>. HIDE DEF f
  <2>. QED
    BY <2>1, <1>1
<1>4. ClockRuns'
  <2>1. pc' \in {"read", "compare"}
    BY <1>1 DEF rtc_read_reg
  <2>. QED
    BY <1>1, <1>2, <1>3, <2>1 DEF ClockRuns
<1>5. Register("month", now["month"]) # 0 /\ Register("year", now["year"]) \in 0 .. 1999
  <2>1. now \in Times
    BY <1>2
  <2>. QED
    BY <2>1, FreshRegister
<1>6. /\ datetime'["year"] \in 0 .. 1999
      /\ next > 1 => datetime'["month"] # 0
  <2>1. CASE next = 1
    <3>1. f = "year"
      BY <2>1, FieldList
    <3>2. datetime'["year"] = Register("year", now["year"])
      BY <3>1, <1>3
    <3>. QED
      BY <2>1, <3>2, <1>5
  <2>2. CASE next = 2
    <3>1. f = "month" /\ "year" \in FieldNames \ {f}
      BY <2>2, FieldList DEF FieldNames
    <3>2. datetime["year"] \in 0 .. 1999
      BY <2>2, <1>1 DEF WhileReading
    <3>3. datetime'["month"] = Register("month", now["month"])
      BY <3>1, <1>3
    <3>4. datetime'["year"] = datetime["year"]
      BY <3>1, <1>3
    <3>. QED
      BY <3>2, <3>3, <3>4, <1>5
  <2>3. CASE next > 2
    <3>1. next = 3 \/ next = 4 \/ next = 5 \/ next = 6 \/ next = 7
      BY <2>3, <1>1
    <3>2. "year" \in FieldNames \ {f} /\ "month" \in FieldNames \ {f}
      BY <3>1, FieldList DEF FieldNames
    <3>3. datetime["year"] \in 0 .. 1999 /\ datetime["month"] # 0
      BY <2>3, <1>1 DEF WhileReading
    <3>. HIDE DEF f
    <3>. QED
      BY <3>2, <3>3, <1>3
  <2>4. next = 1 \/ next = 2 \/ next > 2
    BY <1>1
  <2>. QED
    BY <2>1, <2>2, <2>3, <2>4
<1>7. \A i \in 1 .. next - 1 : Fields[i] \in FieldNames \ {f}
  <2>1. next \in 1 .. 7
    BY <1>1
  <2>2. \A i, k \in 1 .. 7 : Fields[i] \in FieldNames /\ (Fields[i] = Fields[k] => i = k)
    BY FieldList DEF FieldNames
  <2>. QED
    BY <2>1, <2>2
<1>8. \/ Stale(current)'
      \/ \E tick \in 0 .. ticks :
           /\ SecondAt(current, tick)'
           /\ tick = ticks =>
                \A i \in 1 .. next :
                  datetime'[Fields[i]] = Register(Fields[i], now[Fields[i]])
  <2>1. CASE Stale(current)
    BY <2>1, <1>2 DEF Stale, Fresh
  <2>2. ASSUME NEW tick \in 0 .. ticks, SecondAt(current, tick),
               tick = ticks => \A i \in 1 .. next - 1 :
                 datetime[Fields[i]] = Register(Fields[i], now[Fields[i]])
        PROVE  /\ SecondAt(current, tick)'
               /\ tick = ticks => \A i \in 1 .. next :
                    datetime'[Fields[i]] = Register(Fields[i], now[Fields[i]])
    <3>1. SecondAt(current, tick)'
      BY <1>2, <2>2 DEF SecondAt, Sec, Register
    <3>2. ASSUME tick = ticks, NEW i \in 1 .. next
          PROVE  datetime'[Fields[i]] = Register(Fields[i], now[Fields[i]])
      <4>1. CASE i = next
        BY <4>1, <1>3
      <4>2. CASE i \in 1 .. next - 1
        BY <4>2, <3>2, <2>2, <1>3, <1>7
      <4>. QED
        BY <4>1, <4>2, <1>1
    <3>. QED
      BY <3>1, <3>2
  <2>. QED
    BY <1>1, <2>1, <2>2 DEF WhileReading
<1>9. CASE next < 7
  <2>1. pc' = "read" /\ next' = next + 1
    BY <1>9, FieldList DEF rtc_read_reg
  <2>2. next' \in 1 .. 7 /\ next' - 1 = next
    BY <1>1, <1>9, <2>1
  <2>3. \A g, v : Register(g, v)' = Register(g, v)
    BY <1>2 DEF Register
  <2>4. WhileReading'
    BY <1>2, <1>6, <1>8, <2>1, <2>2, <2>3 DEF WhileReading
  <2>. QED
    BY <1>4, <2>1, <2>4 DEF Inv, Readings
<1>10. CASE next = 7
  <2>1. pc' = "compare"
    BY <1>10, FieldList DEF rtc_read_reg
  <2>2. Fresh(datetime)'
    BY <1>6, <1>10 DEF Fresh
  <2>3. SecondAt(datetime, ticks)'
    <3>1. now["second"] = now.second /\ now.second \in 0 .. 59
      BY <1>2 DEF Times
    <3>2. Sec(ticks) = now["second"]
      BY <1>2, <3>1 DEF Sec
    <3>3. datetime'["second"] = Register("second", Sec(ticks))
      BY <1>3, <1>10, <3>2, FieldList
    <3>. QED
      BY <1>2, <3>3 DEF SecondAt, Sec, Register
  <2>4. ASSUME \A i \in 1 .. 7 : datetime'[Fields[i]] = Register(Fields[i], now[Fields[i]])
        PROVE  \E t \in shown' : Shows(datetime, t)'
    <3>1. Shows(datetime', now)
      BY <2>4, FieldList DEF Shows, FieldNames
    <3>. QED
      BY <1>2, <3>1 DEF Shows, Register
  <2>5. WhenComparing'
    <3>1. ticks \in 0 .. ticks' /\ ticks' = ticks
      BY <1>2
    <3>2. ASSUME NEW tick \in 0 .. ticks, SecondAt(current, tick)',
                 tick = ticks => \A i \in 1 .. next :
                   datetime'[Fields[i]] = Register(Fields[i], now[Fields[i]])
          PROVE  /\ tick <= ticks
                 /\ tick = ticks => \E t \in shown' : Shows(datetime, t)'
      BY <1>2, <1>10, <2>4, <3>2
    <3>. QED
      BY <1>8, <2>2, <2>3, <3>1, <3>2 DEF WhenComparing
  <2>. QED
    BY <1>4, <2>1, <2>5 DEF Inv, Readings
<1>. QED
  BY <1>1, <1>9, <1>10

(* Two readings that agree in their seconds enclose no update.             *)
LEMMA CompareInv == Inv /\ Compare => Inv'
<1>. SUFFICES ASSUME Inv, Compare PROVE Inv'
  OBVIOUS
<1>1. /\ ClockRuns /\ WhenComparing
      /\ UNCHANGED <<now, binary, h24, ticks, datetime, current, shown>>
      /\ pc' = IF rtc_date_same(datetime, current) THEN "convert" ELSE "wait"
  BY DEF Inv, Readings, Compare, device
<1>2. ClockRuns'
  BY <1>1 DEF ClockRuns, Compare, device
<1>3. CASE rtc_date_same(datetime, current)
  <2>1. /\ ~Stale(current)
        /\ datetime["second"] = current["second"]
    <3>1. Fresh(datetime)
      BY <1>1 DEF WhenComparing
    <3>2. /\ datetime["year"] = current["year"] /\ datetime["month"] = current["month"]
          /\ datetime["second"] = current["second"]
      BY <1>3 DEF rtc_date_same
    <3>. QED
      BY <3>1, <3>2 DEF Fresh, Stale
  <2>2. PICK first, last \in 0 .. ticks :
          /\ SecondAt(current, first) /\ SecondAt(datetime, last)
          /\ first = last => \E t \in shown : Shows(datetime, t)
    BY <1>1, <2>1 DEF WhenComparing
  <2>3. now \in Times /\ ticks \in 0 .. 59
    BY <1>1, ClockAssumption DEF ClockRuns
  <2>4. Sec(first) \in 0 .. 59 /\ Sec(last) \in 0 .. 59
    <3>1. now.second \in Int
      BY <2>3 DEF Times
    <3>2. \A x \in Int : x % 60 \in 0 .. 59
      OBVIOUS
    <3>3. /\ now.second + 60 - (ticks - first) \in Int
          /\ now.second + 60 - (ticks - last) \in Int
      BY <2>3, <3>1
    <3>. QED
      BY <3>2, <3>3 DEF Sec
  <2>5. Sec(first) = Sec(last)
    BY <2>1, <2>2, <2>4, SecondRegister DEF SecondAt
  <2>6. first = last
    BY <2>3, <2>5, SecondsDiffer
  <2>7. \E t \in shown : Shows(datetime, t)
    BY <2>2, <2>6
  <2>8. \E t \in shown' : Shows(datetime, t)'
    BY <1>1, <2>7 DEF Shows, Register
  <2>. QED
    BY <1>1, <1>2, <1>3, <2>8 DEF Inv, Readings
<1>4. CASE ~rtc_date_same(datetime, current)
  <2>1. \E tick \in 0 .. ticks' : SecondAt(datetime, tick)'
    BY <1>1 DEF WhenComparing, SecondAt, Sec, Register
  <2>. QED
    BY <1>1, <1>2, <1>4, <2>1 DEF Inv, Readings
<1>. QED
  BY <1>3, <1>4

(* Every register is converted to the field of the time that it shows.     *)
LEMMA ConvertInv == Inv /\ Convert => Inv'
<1>. SUFFICES ASSUME Inv, Convert PROVE Inv'
  OBVIOUS
<1>. DEFINE Decoded(f) == IF binary \/ f = "weekday" THEN datetime[f] ELSE bcd2dec(datetime[f])
<1>1. /\ ClockRuns /\ pc = "convert" /\ pc' = "done"
      /\ UNCHANGED <<now, binary, h24, update, ticks, current, shown>>
  BY DEF Inv, Convert, device
<1>2. PICK t \in shown : t \in Times /\ Shows(datetime, t)
  BY DEF Inv, ClockRuns, Readings, Convert
<1>3. /\ datetime' = [f \in FieldNames |-> datetime'[f]]
      /\ \A f \in FieldNames \ {"year", "hour"} : datetime'[f] = Decoded(f)
      /\ datetime'["year"] = Decoded("year") + 2000
      /\ datetime'["hour"] = IF ~h24 /\ Decoded("hour") >= 128
                             THEN (((12 + Decoded("hour")) \div 128) % 2) * 128
                             ELSE Decoded("hour")
  <2>1. DOMAIN datetime = FieldNames
    BY <1>1 DEF ClockRuns
  <2>2. datetime' = [f \in FieldNames |->
                       IF f = "year" THEN Decoded(f) + 2000
                       ELSE IF f = "hour" /\ ~h24 /\ Decoded(f) >= 128
                       THEN (((12 + Decoded(f)) \div 128) % 2) * 128
                       ELSE Decoded(f)]
    BY <2>1 DEF Convert
  <2>. HIDE DEF Decoded
  <2>. QED
    BY <2>2 DEF FieldNames
<1>4. /\ t = [f \in FieldNames |-> t[f]]
      /\ t["weekday"] \in 1 .. 7 /\ t["hour"] = t.hour
      /\ \A f \in FieldNames : t[f] \in Nat
  BY <1>2 DEF Times, FieldNames
<1>5. ASSUME NEW f \in FieldNames \ {"hour"}
      PROVE  Decoded(f) = t[f]
  <2>1. datetime[f] = IF binary THEN t[f] ELSE (t[f] \div 10) * 16 + (t[f] % 10)
    BY <1>2, <1>4 DEF Shows, Register
  <2>. QED
    BY <2>1, <1>4, <1>5, Bcd
<1>6. ASSUME h24 \/ t.hour \in 1 .. 11
      PROVE  datetime'["hour"] = t["hour"]
  <2>1. datetime["hour"] = IF binary THEN t["hour"]
                                     ELSE (t["hour"] \div 10) * 16 + (t["hour"] % 10)
    <3>. DEFINE v == t["hour"]
    <3>1. datetime["hour"] = Register("hour", v) /\ v \in Nat
      BY <1>2, <1>4 DEF Shows, FieldNames
    <3>2. CASE h24
      BY <3>1, <3>2 DEF Register
    <3>3. CASE ~h24 /\ v \in 1 .. 11
      <4>1. ((v + 11) % 12) + 1 = v /\ ~(v >= 12)
        BY <3>3
      <4>. HIDE DEF v
      <4>2. datetime["hour"] = IF binary THEN v ELSE (v \div 10) * 16 + (v % 10)
        BY <3>1, <3>3, <4>1 DEF Register
      <4>. QED
        BY <4>2 DEF v
    <3>. QED
      BY <1>4, <1>6, <3>2, <3>3
  <2>2. Decoded("hour") = t["hour"]
    BY <2>1, <1>4, Bcd DEF FieldNames
  <2>. QED
    BY <1>3, <1>4, <1>6, <2>2
<1>7. datetime'["year"] = t["year"] + 2000
  BY <1>3, <1>4, <1>5 DEF FieldNames
<1>8. ReadingIsExact'
  <2>1. SUFFICES ASSUME h24 \/ \A u \in shown : u.hour \in 1 .. 11
                 PROVE  datetime' = [t EXCEPT !.year = @ + 2000]
    BY <1>1, <1>2 DEF ReadingIsExact
  <2>2. datetime'["hour"] = t["hour"]
    BY <2>1, <1>2, <1>6
  <2>3. \A f \in FieldNames : datetime'[f] = [t EXCEPT !.year = @ + 2000][f]
    BY <1>3, <1>4, <1>5, <1>7, <2>2 DEF FieldNames
  <2>4. [t EXCEPT !.year = @ + 2000] =
          [f \in FieldNames |-> [t EXCEPT !.year = @ + 2000][f]]
    BY <1>4
  <2>. QED
    BY <1>3, <2>3, <2>4
<1>9. DOMAIN datetime' = FieldNames
  BY <1>3
<1>10. Stale(datetime)'
  <2>1. PICK y \in Nat : y = t["year"]
    BY <1>4 DEF FieldNames
  <2>2. y + 2000 \notin 0 .. 1999
    OBVIOUS
  <2>3. datetime'["year"] \notin 0 .. 1999
    BY <1>7, <2>1, <2>2
  <2>. QED
    BY <2>3 DEF Stale, Fresh
<1>11. ClockRuns'
  BY <1>1, <1>9 DEF ClockRuns
<1>. QED
  BY <1>1, <1>8, <1>10, <1>11 DEF Inv, Readings

(* What is returned has a year of four digits: no register shows one.      *)
LEMMA ReturnInv == Inv /\ Return => Inv'
<1>. SUFFICES ASSUME Inv, Return PROVE Inv'
  OBVIOUS
<1>1. ClockRuns'
  BY DEF Inv, ClockRuns, Return, device
<1>2. Stale(datetime) /\ datetime' = datetime
  BY DEF Inv, Readings, Return
<1>3. Stale(datetime)'
  BY <1>2 DEF Stale, Fresh
<1>. QED
  BY <1>1, <1>3 DEF Inv, Readings, Return

(* Every step of the clock and of the reader keeps the invariant.          *)
LEMMA NextInv == Inv /\ [Next]_vars => Inv'
<1>. SUFFICES ASSUME Inv, [Next]_vars PROVE Inv'
  OBVIOUS
<1>1. CASE BeginUpdate
  <2>1. ClockRuns'
    BY <1>1 DEF Inv, ClockRuns, BeginUpdate, UpdateStarts
  <2>2. UNCHANGED <<now, binary, h24, ticks, pc, next, datetime, current, shown>>
    BY <1>1 DEF BeginUpdate, UpdateStarts
  <2>3. Readings'
    BY <2>2, ReadingsKept DEF Inv
  <2>. QED
    BY <2>1, <2>3 DEF Inv
<1>2. CASE EndUpdate
  BY <1>2, EndUpdateInv
<1>3. CASE test_timer
  BY <1>3, test_timerInv
<1>4. CASE time_getdatetime
  BY <1>4, WaitForUpdateInv, rtc_read_regInv, CompareInv, ConvertInv, ReturnInv
     DEF time_getdatetime
<1>5. CASE UNCHANGED vars
  <2>1. ClockRuns'
    BY <1>5 DEF Inv, ClockRuns, vars, device
  <2>2. UNCHANGED <<now, binary, h24, ticks, pc, next, datetime, current, shown>>
    BY <1>5 DEF vars, device
  <2>3. Readings'
    BY <2>2, ReadingsKept DEF Inv
  <2>. QED
    BY <2>1, <2>3 DEF Inv
<1>. QED
  BY <1>1, <1>2, <1>3, <1>4, <1>5 DEF Next

(* What time_getdatetime returns (rtc.c:56) is one moment of the call, for *)
(* every start, every delay of the reader and every update within it.      *)
THEOREM ReadingIsAMoment == Spec => []ReadingIsExact
<1>1. Inv => ReadingIsExact
  BY DEF Inv, Readings, ReadingIsExact
<1>. QED
  BY <1>1, InitInv, NextInv, PTL DEF Spec
=============================================================================
