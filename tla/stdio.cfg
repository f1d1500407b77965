SPECIFICATION Spec
CONSTANTS
  a = a
  b = b
  Ids <- TwoIds
  MaxLines = 4
INVARIANTS TypeOK CancelExact
PROPERTIES NoWriteAfterCancel EveryAnswered
CHECK_DEADLOCK FALSE
