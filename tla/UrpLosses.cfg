SPECIFICATION Spec
CONSTANTS
  Firsts = {7}
  Total <- Totals
  Size <- Equal
  XW = 3
  Highest = 9
  MaxWaiting = 1
  LineLimit = 1
  ReadLimit = 1
  MaxBack = 2
  MaxLoss = 2
INVARIANT EchoesTrue
CHECK_DEADLOCK FALSE
