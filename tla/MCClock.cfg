SPECIFICATION EndlessSpec
CONSTANTS
  Starts <- MCStarts
  Paces = {3, 14}
  MaxTicks = 4
INVARIANT ReadingIsExact
PROPERTY ReadingEnds
