SPECIFICATION FairSpec
CONSTANTS
  Byte <- MCByte
  Uninit = Uninit
  None = None
  BufferSize = 2
  EintrCloses = {FALSE, TRUE}
  MaxInput = 4
  MaxFailures = 2
  MaxTestcases = 2
  CopiedMessages <- MCCopied
INVARIANTS
  TypeOK
  LinecountIsOfWholeInput
  FailureIsAtFirstFault
  ExitCodeTellsFailure
  ExitIsClean
PROPERTIES
  Terminates
