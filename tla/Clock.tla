------------------------------- MODULE Clock -------------------------------
(***************************************************************************)
(* Reading the date: time_getdatetime (hal/rtc.c) against a clock that     *)
(* goes on while its registers are read one by one, as the timer callback  *)
(* of kernel/k_main.c does, again and again, into one static datetime.     *)
(*                                                                         *)
(* The registers are read between updates, but the reader may be held up,  *)
(* so an update can fall between any two reads: the code reads until two   *)
(* readings agree.  It compares all fields but the hour.                   *)
(***************************************************************************)
EXTENDS Integers, Sequences

CONSTANTS
  Starts,        \* times at which the clock may start
  Paces,         \* how many reads there are between two updates, at least
  MaxTicks       \* updates (bound)

Fields == <<"year", "month", "day", "weekday", "hour", "minute", "second">>

(* A call takes less than a minute, whatever interrupts it.                *)
ASSUME ClockAssumption ==
  /\ Paces \subseteq Nat /\ MaxTicks \in 0 .. 59
  /\ Starts \subseteq [year : 0 .. 99, month : 1 .. 12, day : 1 .. 31, weekday : 1 .. 7,
                       hour : 0 .. 23, minute : 0 .. 59, second : 0 .. 59]

VARIABLES
  now,           \* the time the clock keeps: year of the century to second
  binary, h24,   \* encoding of the registers: RTC_BIN_ENCODED, RTC_24HRS_ENCODED
  pace,          \* member of Paces: how much holds the reader up
  update,        \* update in progress: bit 7 of register A
  quiet,         \* reads since the last update, up to pace
  ticks,
  pc,            \* "idle", "wait", "read", "compare", "convert" or "done"
  next,          \* index of the register to read
  datetime,      \* the result, static in k_main.c
  current,       \* the reading before
  shown          \* history: what the clock showed during the call

device == <<now, binary, h24, pace, update, ticks>>
vars == <<device, quiet, pc, next, datetime, current, shown>>

-----------------------------------------------------------------------------
(* The clock.                                                              *)

DaysOf(month, year) ==
  CASE month = 2 -> IF year % 4 = 0 THEN 29 ELSE 28
    [] month \in {4, 6, 9, 11} -> 30
    [] OTHER -> 31

(* One second later.                                                       *)
Later(t) ==
  LET minute == t.second = 59
      hour == minute /\ t.minute = 59
      day == hour /\ t.hour = 23
      month == day /\ t.day = DaysOf(t.month, t.year)
      year == month /\ t.month = 12
  IN  [second |-> IF minute THEN 0 ELSE t.second + 1,
       minute |-> IF hour THEN 0 ELSE IF minute THEN t.minute + 1 ELSE t.minute,
       hour |-> IF day THEN 0 ELSE IF hour THEN t.hour + 1 ELSE t.hour,
       weekday |-> IF day THEN (t.weekday % 7) + 1 ELSE t.weekday,
       day |-> IF month THEN 1 ELSE IF day THEN t.day + 1 ELSE t.day,
       month |-> IF year THEN 1 ELSE IF month THEN t.month + 1 ELSE t.month,
       year |-> IF year THEN (t.year + 1) % 100 ELSE t.year]

UpdateStarts ==
  /\ ~update
  /\ quiet = pace \/ pc = "idle"
  /\ update' = TRUE
  /\ UNCHANGED <<now, binary, h24, pace, ticks, quiet, pc, next, datetime, current, shown>>

UpdateEnds(time) ==
  /\ update
  /\ update' = FALSE /\ now' = time /\ quiet' = 0
  /\ UNCHANGED <<binary, h24, pace, pc, next, datetime, current>>

BeginUpdate == ticks < MaxTicks /\ UpdateStarts

EndUpdate ==
  /\ UpdateEnds(Later(now))
  /\ ticks' = ticks + 1
  /\ shown' = IF pc = "idle" THEN shown ELSE shown \cup {now'}

(* How the clock encodes the value v of a field in its register.           *)
Register(f, v) ==
  LET half == f = "hour" /\ ~h24
      shownHour == IF half THEN ((v + 11) % 12) + 1 ELSE v
      digits == IF binary THEN shownHour
                          ELSE (shownHour \div 10) * 16 + (shownHour % 10)
  IN  digits + (IF half /\ v >= 12 THEN 128 ELSE 0)

-----------------------------------------------------------------------------
(* time_getdatetime.                                                       *)

Init ==
  /\ now \in Starts /\ binary \in BOOLEAN /\ h24 \in BOOLEAN /\ pace \in Paces
  /\ update = FALSE /\ quiet = 0 /\ ticks = 0
  /\ pc = "idle" /\ next = 1
  /\ datetime = [f \in {Fields[i] : i \in 1 .. Len(Fields)} |-> 0]
  /\ current = datetime
  /\ shown = {}

test_timer ==
  /\ pc = "idle"
  /\ pc' = "wait" /\ shown' = {now}
  /\ UNCHANGED <<device, quiet, next, datetime, current>>

(* Seeded fault: the previous reading is not kept.                         *)
WaitForUpdate_NotKept ==
  /\ pc = "wait" /\ ~update
  /\ pc' = "read" /\ next' = 1
  /\ UNCHANGED <<device, quiet, datetime, current, shown>>

WaitForUpdate ==
  /\ pc = "wait" /\ ~update
  /\ pc' = "read" /\ next' = 1
  /\ current' = datetime
  /\ UNCHANGED <<device, quiet, datetime, shown>>

rtc_read_reg ==
  /\ pc = "read"
  /\ LET f == Fields[next]
     IN  datetime' = [datetime EXCEPT ![f] = Register(f, now[f])]
  /\ IF next = Len(Fields)
     THEN pc' = "compare" /\ UNCHANGED next
     ELSE next' = next + 1 /\ UNCHANGED pc
  /\ quiet' = IF quiet = pace THEN pace ELSE quiet + 1
  /\ UNCHANGED <<device, current, shown>>

(* Seeded fault: the seconds are not compared either.                      *)
rtc_date_same_NoSecond(a, b) ==
  \A f \in {"year", "month", "day", "weekday", "minute"} : a[f] = b[f]

rtc_date_same(a, b) ==
  \A f \in {"year", "month", "day", "weekday", "minute", "second"} : a[f] = b[f]

Compare ==
  /\ pc = "compare"
  /\ pc' = IF rtc_date_same(datetime, current) THEN "convert" ELSE "wait"
  /\ UNCHANGED <<device, quiet, next, datetime, current, shown>>

bcd2dec(bcd) == (bcd \div 16) * 10 + (bcd % 16)

(* The weekday has one digit; C reads the hour as (12 + hour) & 0x80.      *)
Convert ==
  /\ pc = "convert"
  /\ pc' = "done"
  /\ datetime' =
       LET decoded(f) == IF binary \/ f = "weekday" THEN datetime[f]
                                                    ELSE bcd2dec(datetime[f])
       IN  [f \in DOMAIN datetime |->
              IF f = "year" THEN decoded(f) + 2000
              ELSE IF f = "hour" /\ ~h24 /\ decoded(f) >= 128
              THEN (((12 + decoded(f)) \div 128) % 2) * 128
              ELSE decoded(f)]
  /\ UNCHANGED <<device, quiet, next, current, shown>>

Return ==
  /\ pc = "done"
  /\ pc' = "idle" /\ shown' = {}
  /\ UNCHANGED <<device, quiet, next, datetime, current>>

time_getdatetime == WaitForUpdate \/ rtc_read_reg \/ Compare \/ Convert \/ Return

Next == BeginUpdate \/ EndUpdate \/ test_timer \/ time_getdatetime

Spec == Init /\ [][Next]_vars

-----------------------------------------------------------------------------
(* What rtc.c:56 returns is a time that the clock showed during the call,  *)
(* as a whole, also when it moved on in the middle of a reading.  Only     *)
(* where the hour is not converted: the conversion to 24 hours (rtc.c:88)  *)
(* is wrong for 12 a.m. and for every hour after noon.                     *)
ReadingIsExact ==
  pc = "done" /\ (h24 \/ \A t \in shown : t.hour \in 1 .. 11) =>
    \E t \in shown : datetime = [t EXCEPT !.year = @ + 2000]
=============================================================================
