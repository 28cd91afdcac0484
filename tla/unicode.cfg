SPECIFICATION Spec
CONSTANTS
  Byte <- MCByte
INVARIANTS
  DecodedIsRead
  WellFormedAccepted
  AcceptedForms
