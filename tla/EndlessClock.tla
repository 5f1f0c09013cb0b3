---------------------------- MODULE EndlessClock ----------------------------
(***************************************************************************)
(* The reader of Clock, and a clock that goes on for ever: does the loop   *)
(* end while updates keep coming?                                          *)
(*                                                                         *)
(* The loop only compares one reading with the next, so what counts is     *)
(* which fields an update changes.  To stay finite the clock is set back   *)
(* to a start after MaxTicks + 1 updates, which changes any of them.  For  *)
(* a reader who is held up more than the property admits it stops instead, *)
(* as in Clock: he might read a mixture of a moment and its return.        *)
(***************************************************************************)
EXTENDS Clock

TwoReadings == pace >= 2 * Len(Fields)

SetBack ==
  /\ ticks = MaxTicks
  /\ \E start \in Starts : UpdateEnds(start)
  /\ ticks' = 0
  /\ shown' = IF pc = "idle" THEN shown ELSE shown \cup {now'}

BeginSetBack == ticks = MaxTicks /\ TwoReadings /\ UpdateStarts

UpdateDone == (ticks < MaxTicks /\ EndUpdate) \/ SetBack

EndlessNext ==
  BeginUpdate \/ BeginSetBack \/ UpdateDone \/ test_timer \/ time_getdatetime

(* The code runs on, and an update that has begun ends.  That another one  *)
(* begins, or that a call is made, is not assumed.                         *)
EndlessSpec ==
  Init /\ [][EndlessNext]_vars /\ WF_vars(time_getdatetime) /\ WF_vars(UpdateDone)

-----------------------------------------------------------------------------
(* The loop of rtc.c:60-72 ends, however long updates keep coming, if two  *)
(* readings fit between them: an update breaks two comparisons at most,    *)
(* and two only if it changes more than the second.                        *)
ReadingEnds == pc = "wait" /\ TwoReadings ~> pc = "done"
=============================================================================
