SPECIFICATION TimedSpec
CONSTANTS
  PROCS_MAX = 3
  BootArgs <- MCBootArgs
  TICK = 3
  WORD = 10
  SleepArgs = {1, 4}
  Chars = {5}
  LAST_PC = 1
  SbiMayFail = FALSE
INVARIANTS
  SleepRoundedToTick
  OffWithinOneTick
  InputDelayBelowTwoTicks
