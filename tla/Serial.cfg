CONSTANTS
  Port = {p1}
  NONE = NONE
SPECIFICATION FairSpec
INVARIANTS RequestsMatch QueuedIsValid DoneIsFlagged
PROPERTIES ServiceSpec RequestCompletes KillAborts
