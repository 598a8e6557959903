SPECIFICATION FairSpec
CONSTANTS
  Firsts = {1, 3, 7}
  Total <- Totals
  Size <- Lengths
  XW = 3
  Highest = 9
  MaxWaiting = 1
  LineLimit = 1
  ReadLimit = 1
  MaxBack = 2
  MaxLoss = 1
INVARIANTS WindowOK NumbersAccepted
PROPERTY ImplementsCircuit
CHECK_DEADLOCK FALSE
