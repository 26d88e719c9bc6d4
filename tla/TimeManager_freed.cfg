SPECIFICATION Spec
CONSTANTS
  Task = {t1, t2}
  NULL = NULL
  Uninit = Uninit
  InsKinds = {FALSE}
  Delay = {0, 1}
  Garbage = {0, 2}
  HighHalfDelay = 3
  wakeup_time_max = 9
  MaxTime = 1
  MaxWakeup = 1
  MaxNested = 0
  RemovesNext = TRUE
INVARIANTS ScanSeesInstalled
