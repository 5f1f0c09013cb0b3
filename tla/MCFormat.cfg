SPECIFICATION FormatSpec
CONSTANTS
  WORD = 64
  Formats <- MCFormats
  Limits = {0, 1, 2, 4}
INVARIANTS
  FormatsLikeC
  LimitHolds
CHECK_DEADLOCK FALSE
