SPECIFICATION Spec
CONSTANTS
  Letters <- MCLetters
  Directives <- MCDirectives
  Endings <- MCEndings
  MaxLen = 2
  Strings <- MCStrings
INVARIANTS
  TypeOK
  DecodesTheFormat
CHECK_DEADLOCK FALSE
