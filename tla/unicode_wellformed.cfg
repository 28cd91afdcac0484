SPECIFICATION Spec
CONSTANTS
  Byte <- MCByte
INVARIANTS
  OnlyWellFormedAccepted
