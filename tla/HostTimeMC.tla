----------------------------- MODULE HostTimeMC -----------------------------
(* Four milliseconds to the second, three microseconds to the millisecond, two *)
(* nanoseconds to the microsecond, and an int of six bits.                     *)
EXTENDS HostTime

MCMacTimes == (MinInt + 1)..MaxInt
MCTimes(sec) == [tv_sec : 0..sec, tv_nsec : 0..(NsPerSec - 1)]
MCClocks == MCTimes(1)
MCElapses == MCTimes(8)
=============================================================================
