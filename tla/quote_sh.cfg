SPECIFICATION Spec
CONSTANTS
  QBUFSIZ = 12
  OtherChars <- MCOther
  MaxLen = 7
INVARIANTS
  StaysInArray
  ReadsBack
  CutReadsAsPrefix
