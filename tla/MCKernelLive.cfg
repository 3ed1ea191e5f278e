SPECIFICATION FairSpec
CONSTANTS
  PROCS_MAX = 3
  BootArgs <- MCBootArgs
  TICK = 1
  WORD = 6
  SleepArgs = {2}
  Chars = {5}
  LAST_PC = 1
  SbiMayFail = TRUE
PROPERTIES
  SleepersWake
  RunnableGetsCpu
  AllExitedLeadsToOff
  InputReachesReader
