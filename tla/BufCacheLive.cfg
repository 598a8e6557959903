SPECIFICATION FairSpec
CONSTANTS
  p1 = p1
  p2 = p2
  p3 = p3
  b1 = b1
  b2 = b2
  b3 = b3
  x1 = x1
  x2 = x2
  x3 = x3
  d1 = d1
  Procs = {p1, p2}
  Bufs = {b1, b2}
  Blks = {x1, x2}
  Devs = {d1}
  DevOf <- OneDev
  Super = {x1}
  Vals = {0}
  InitVal = 0
  InitOrder <- Order2
  Faulty = {"sync"}
  Calls = {"bread", "getblk", "geteblk", "sync"}
  NoProc = NoProc
  NoBuf = NoBuf
  NoBlk = NoBlk
  NoDev = NoDev
  FreeList = FreeList
INVARIANTS RightBlock
PROPERTIES SleeperWakes
