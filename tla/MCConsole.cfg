SPECIFICATION Spec
CONSTANTS
  Procs = {1, 2}
  Arg <- MCArg
  SIZE = 4
  HELP <- MCHelp
  HELLO <- MCHello
  PID <- MCPid
  EXIT <- MCExit
  Keys = {8, 10, 13, 31, 32, 97, 126, 127, 128}
  Garbage = {0, 97}
INVARIANTS
  TypeOK
  RowShowsLine
PROPERTIES
  ImplementsTerminal
  ConsoleResponds
  PrinterGoesOn
