CONSTANTS
  N = 2
  Exclusive = {FALSE, TRUE}
  MaxDepth = 2
SPECIFICATION FairSpec
INVARIANTS NoLostData NoStrandedFlag
PROPERTIES DataIsHandled
