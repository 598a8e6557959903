SPECIFICATION Spec
CONSTANTS
  p1 = p1
  p2 = p2
  na = na
  nb = nb
  Procs = {p1, p2}
  NSlots = 4
  MaxIno = 5
  INOPB = 2
  NICINOD = 2
  Names = {na}
  MaxPath = 2
  Mode0 <- SubMode
  Dir0 <- FileDir
  Faulty = {}
  Calls = {"open", "creat", "mknod", "unlink", "close", "mkdir", "sync"}
  Budget = 4
  NoProc = NoProc
INVARIANTS UniqueInode NamedInodeLive LinksCovered QuietCounts
PROPERTIES OpenFileKept
