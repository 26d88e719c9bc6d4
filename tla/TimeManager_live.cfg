SPECIFICATION FairSpec
CONSTANTS
  Task = {t1}
  NULL = NULL
  Uninit = Uninit
  InsKinds = {FALSE, TRUE}
  Delay = {0, 1}
  Garbage = {0, 1}
  HighHalfDelay = 1
  wakeup_time_max = 9
  MaxTime = 1
  MaxWakeup = 2
  MaxNested = 1
  RemovesNext = FALSE
INVARIANTS ActiveIsScheduled
PROPERTIES DueTaskRuns ExitReturns
