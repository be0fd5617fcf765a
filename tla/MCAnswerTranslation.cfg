SPECIFICATION AnswerSpec
CONSTANTS
  MaxItems = 3
  MaxPieces = 4
  Complete = {2, 4}
CHECK_DEADLOCK FALSE
INVARIANTS AnswerTypeOK AnswerToldWhole EndingTold
