SPECIFICATION Spec
CONSTANTS
  HALF = 64
  HIGH = 2
  SECOND = 4
  CAP = 15
  TICKS_PER_MS = 3
  TICK_INTERVAL_MS = 2
  LATE = 2
  Times = {0, 1}
INVARIANTS
  TypeOK
  SleepsAsLongAsAsked
CHECK_DEADLOCK FALSE
