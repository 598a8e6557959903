SPECIFICATION FairSpec
CONSTANTS
  p1 = p1
  p2 = p2
  na = na
  nb = nb
  Procs = {p1, p2}
  NSlots = 3
  MaxIno = 6
  INOPB = 2
  NICINOD = 2
  Names = {na, nb}
  MaxPath = 1
  Mode0 <- BothMode
  Dir0 <- BothDir
  Faulty = {}
  Calls = {"open", "creat", "unlink", "link", "pipe", "rmdir", "sync", "close"}
  Budget = 3
  NoProc = NoProc
INVARIANT CountsReferences
PROPERTY CallsReturn
