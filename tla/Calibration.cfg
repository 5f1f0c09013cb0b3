SPECIFICATION Spec
CONSTANTS
  NULL = NULL
  CALIBRATION_CONST = 12
  RTC_FREQUENCY = 2
  FREQUENCY = 3
  MinPeriods = 1
  MaxPeriods = 3
  MaxStray = 1
INVARIANTS NoUnknownInterrupt AcknowledgedOnce FrequencyIsMeasured
PROPERTIES TicksKeepComing
CHECK_DEADLOCK TRUE
