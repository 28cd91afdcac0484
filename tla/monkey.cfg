SPECIFICATION Spec
CONSTANTS
  open = open
  read = read
  write = write
  close = close
  lseek = lseek
  Wrappers <- MCWrappers
  MONKEY_MAX_MONKEYWRAPPERSTATE_INSTANCES = 4
  MONKEY_INIT_LEN = 6
  U8_MAX = 2
  MaxEvents = 7
SYMMETRY MCSymmetry
INVARIANTS
  TypeOK
  CountdownExact
  EachByteOnce
