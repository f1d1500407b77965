SPECIFICATION Spec
CONSTANTS
  c1 = c1
  c2 = c2
  Calls <- TwoCalls
  NLines = 3
  Windows <- TailWindow
  Budgets = {1, 2}
  Forces = {FALSE}
  Eras = {FALSE}
  LowValue = FALSE
  MayThrow = FALSE
  MaxEvents = 1
INVARIANT ReceiptOnWire
CHECK_DEADLOCK FALSE
