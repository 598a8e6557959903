SPECIFICATION FairSpec
CONSTANTS
  init1 = init1
  sh = sh
  job = job
  dev = dev
  tty = tty
  Proc = {init1, sh, job}
  InitProc = init1
  NoProc = NoProc
  NoChan = NoChan
  Devices = {dev}
  Terminals = {tty}
  Signals = {1,9,17,19,20}
  Sent = {9,17,19}
  TtySignals = {}
  Targets = {job}
  Resets = {}
  Parent0 <- Family
  Act0 <- LiveAct
  Calls <- JobCalls
  MaxSecs = 1
  MaxPosts = 3
  MaxForks = 0
CHECK_DEADLOCK FALSE
PROPERTIES KillKills TimeoutReturns
