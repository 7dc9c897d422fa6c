SPECIFICATION ReadingSpec
CONSTANTS
  Cap = 1
  MaxSent = 2
PROPERTIES
  TimesOut
CHECK_DEADLOCK FALSE
