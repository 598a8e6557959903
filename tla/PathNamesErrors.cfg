SPECIFICATION Spec
CONSTANTS
  p1 = p1
  p2 = p2
  na = na
  nb = nb
  Procs = {p1, p2}
  NSlots = 4
  MaxIno = 5
  INOPB = 2
  NICINOD = 2
  Names = {na}
  MaxPath = 1
  Mode0 <- EmptyMode
  Dir0 <- EmptyDir
  Faulty = {"iget", "iupdat", "search", "dsearch", "writei", "falloc"}
  Calls = {"open", "close", "creat", "unlink"}
  Budget = 4
  NoProc = NoProc
INVARIANTS LocksOK CountsReferences
