\* The timer thread's steps are bounded, and the emulator thread need not stop
\* it again.  SuspendReturns and ResumeWorks say that neither waits for the
\* other for ever.
CONSTANT MaxSteps = 6
SPECIFICATION FairSpec
INVARIANTS StoppedInHandler ResumeMatches
PROPERTIES StoppableSpec SuspendReturns ResumeWorks
CHECK_DEADLOCK FALSE
