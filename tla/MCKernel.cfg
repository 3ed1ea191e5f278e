SPECIFICATION Spec
CONSTANTS
  PROCS_MAX = 4
  BootArgs <- MCBootArgs
  TICK = 2
  WORD = 8
  SleepArgs = {0, 7, 11}
  Chars = {5}
  LAST_PC = 1
  SbiMayFail = TRUE
INVARIANTS
  TypeOK
  HartBelongsToCurrent
  SavedContextsIntact
  KernelNotInterrupted
  OnlyTheRunnableRun
  IdleOnlyWhenNothingIsReady
  OffOnlyWhenAllExited
PROPERTIES
  ImplementsVirtualCpus
