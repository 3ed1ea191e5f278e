SPECIFICATION Spec
CONSTANTS
  HALF = 2048
  DIGITS = 3
  Weight <- MCWeight
INVARIANTS
  TypeOK
  ReadsBack
  Canonical
PROPERTIES
  Terminates
CHECK_DEADLOCK FALSE
