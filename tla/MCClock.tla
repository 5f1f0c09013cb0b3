------------------------------ MODULE MCClock ------------------------------
EXTENDS EndlessClock

(* Seconds before a new minute, hour, day, month, year and century.        *)
T(y, mo, d, wd, h, mi, s) ==
  [year |-> y, month |-> mo, day |-> d, weekday |-> wd, hour |-> h,
   minute |-> mi, second |-> s]

MCStarts == {T(24, 2, 28, 4, 9, 59, 58), T(24, 12, 31, 3, 23, 59, 58),
             T(99, 12, 31, 5, 23, 59, 59), T(25, 6, 30, 2, 11, 59, 59)}
=============================================================================
