SPECIFICATION Spec
CONSTANTS
  SIZE = 5
  Bytes = {0, 1, 200}
  WORD = 8
INVARIANTS
  TypeOK
  LeavesMemoryRight
  ComparesStrings
PROPERTIES
  Returns
CHECK_DEADLOCK FALSE
