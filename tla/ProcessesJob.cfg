SPECIFICATION Spec
CONSTANTS
  init1 = init1
  sh = sh
  job = job
  dev = dev
  tty = tty
  Proc = {init1, sh, job}
  InitProc = init1
  NoProc = NoProc
  NoChan = NoChan
  Devices = {dev}
  Terminals = {tty}
  Signals = {1, 2, 9, 17, 19, 20}
  Sent = {2, 9, 17, 19}
  TtySignals = {2}
  Targets = {job}
  Resets <- JobResets
  Parent0 <- Family
  Act0 <- JobAct
  Calls <- JobCalls
  MaxSecs = 1
  MaxPosts = 3
  MaxForks = 1
CHECK_DEADLOCK FALSE
INVARIANTS QueueOK SignalsWake WaitNotices
PROPERTIES ResultTrue KilledByFatal
