SPECIFICATION FairSpec
CONSTANTS
  Byte <- MCByte
  Uninit = Uninit
  None = None
  BufferSize = 2
  Directions <- MCAllDirections
  StreamTypes <- MCAllTypes
  NameOwned = {FALSE, TRUE}
  MaxInput <- MCMaxInput
  MaxPut <- MCMaxPut
  MaxFailures = 2
  EintrCloses = {FALSE, TRUE}
INVARIANTS
  TypeOK
  BufferSound
  AssertsHold
  ReadInOrder
  WriteInOrder
  OkMeansWritten
  BalancedAllocs
  ReleaseIsClean
  FdIsNotStale
PROPERTIES
  ImplementsByteSource
  CallsReturn
