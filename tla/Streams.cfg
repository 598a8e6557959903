SPECIFICATION Spec
CONSTANTS
  p1 = p1
  p2 = p2
  Proc = {p1, p2}
  NoProc = NoProc
  Mixes <- Couples
  Limit <- High
  Low <- Lower
  MaxWrites = 2
  MaxTimers = 1
  MaxControls = 1
INVARIANTS StreamKept OneIoctl SleeperHeard NotStranded OutputKept
