SPECIFICATION Spec
CONSTANTS
  Char <- MCChar
  CR = "CR"
  LF = "LF"
  MaxText = 8
INVARIANTS
  TypeOK
  EachCountedOnce
  LinecountCorrect
  FailurePositionCorrect
  QuestionableCorrect
