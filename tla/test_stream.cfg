SPECIFICATION FairSpec
CONSTANTS
  Byte <- MCByte
  Uninit = Uninit
  None = None
  BufferSize = 3
  EintrCloses = {FALSE, TRUE}
  MaxFailures = 3
  buf <- MCbuf
INVARIANTS
  PassesIffReadBack
  ExitIsClean
  AbortsForAReason
PROPERTIES
  Ends
