SPECIFICATION TimedSpec
CONSTANTS
  PROCS_MAX = 4
  BootArgs <- MCThreeArgs
  TICK = 2
  WORD = 4
  SleepArgs = {1}
  Chars = {}
  LAST_PC = 1
  SbiMayFail = FALSE
INVARIANTS
  CpuWithinOneRound
