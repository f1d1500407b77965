SPECIFICATION Spec
CONSTANTS
  c1 = c1
  c2 = c2
  Calls <- TwoCalls
  NLines = 3
  Windows <- TailWindow
  Budgets = {1, 2}
  Forces = {FALSE, TRUE}
  Eras = {FALSE, TRUE}
  LowValue = TRUE
  MayThrow = TRUE
  MaxEvents = 2
INVARIANTS TypeOK ReceiptTrue ChainComplete PagesAgree
PROPERTIES PagesStay ComesToAnEnd
CHECK_DEADLOCK FALSE
