CONSTANTS
  MsPerSec = 4
  UsPerMs = 3
  NsPerUs = 2
  MaxInt = 31
  MacTimes <- MCMacTimes
  Clocks <- MCClocks
  Elapses <- MCElapses
SPECIFICATION HostSpec
INVARIANTS DueWhenElapsed RestIsSaved
