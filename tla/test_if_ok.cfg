SPECIFICATION Spec
CONSTANTS
  Byte <- MCByte
  Uninit = Uninit
  None = None
  BufferSize = 3
  EintrCloses = {FALSE}
  MaxFailures = 1
  buf <- MCbuf
INVARIANTS
  FreesAreMatched
