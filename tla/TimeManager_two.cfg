SPECIFICATION Spec
CONSTANTS
  Task = {t1, t2}
  NULL = NULL
  Uninit = Uninit
  InsKinds = {FALSE}
  Delay = {1}
  Garbage = {0, 2}
  HighHalfDelay = 3
  wakeup_time_max = 9
  MaxTime = 2
  MaxWakeup = 3
  MaxNested = 1
  RemovesNext = TRUE
SYMMETRY Symmetry
INVARIANTS TypeOK NoLostWakeup NoSuspendedOwner
PROPERTIES ServiceSpec StoppableSpec
