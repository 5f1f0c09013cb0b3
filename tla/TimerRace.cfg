SPECIFICATION Spec
CONSTANTS
  Nodes = {t1, t2, t3}
  HEAD = HEAD
  Seconds = {0, 1, 3}
  FREQ = 3
  WORD = 4
  MaxOneShot = 1
  MaxPeriodic = 2
  OneShotRace = TRUE
INVARIANT DeletedIsOrphan
