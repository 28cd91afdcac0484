SPECIFICATION Spec
CONSTANTS
  Byte <- MCByte
  Uninit = Uninit
  None = None
  BufferSize = 2
  Directions <- MCOutOnly
  StreamTypes <- MCFileOnly
  NameOwned = {TRUE}
  MaxInput <- MCNoInput
  MaxPut <- MCPuts
  MaxFailures = 0
  EintrCloses = {FALSE}
INVARIANTS
  OwnedIsReleased
