SPECIFICATION Spec
CONSTANTS
  Byte <- MCByte
  Uninit = Uninit
  None = None
  BufferSize = 2
  Directions <- MCOutOnly
  StreamTypes <- MCFileOnly
  NameOwned = {FALSE}
  MaxInput <- MCNoInput
  MaxPut <- MCPuts
  MaxFailures = 2
  EintrCloses = {FALSE}
INVARIANTS
  CloseReallyCloses
