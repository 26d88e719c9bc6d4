------------------------------ MODULE HostTime ------------------------------
(***************************************************************************)
(* Host times (struct timespec) and Mac times (timer_unix.cpp), driven as  *)
(* PrimeTime, TimerInterrupt and RmvTime drive them: a task is primed with *)
(* a 32-bit Mac delay, its deadline is compared with the clock, and the    *)
(* time that remains is converted back when the task is removed.           *)
(*                                                                         *)
(* The units are parameters, so that a small instance reaches the limits   *)
(* of the 32-bit int: in the code MsPerSec, UsPerMs and NsPerUs are 1000   *)
(* and MaxInt is 0x7fffffff.  The state machine's definitions begin with   *)
(* Host, to keep them apart from those of ThreadSuspend in TimerHostProofs.*)
(***************************************************************************)
EXTENDS Integers

CONSTANTS MsPerSec, UsPerMs, NsPerUs, MaxInt,
  MacTimes,   \* the delays 68k code passes to PrimeTime
  Clocks,     \* what the clock reads when PrimeTime is called
  Elapses     \* by how much it may advance

MinInt == -MaxInt - 1
UsPerSec == MsPerSec * UsPerMs
NsPerSec == UsPerSec * NsPerUs

ASSUME UnitAssumption ==
  /\ MsPerSec \in Nat \ {0}
  /\ UsPerMs \in Nat \ {0}
  /\ NsPerUs \in Nat \ {0}
  /\ MaxInt \in Nat
  /\ NsPerSec <= MaxInt
ASSUME InputAssumption ==
  /\ MacTimes \subseteq MinInt..MaxInt
  /\ Clocks \subseteq [tv_sec : Nat, tv_nsec : 0..(NsPerSec - 1)]
  /\ Elapses \subseteq [tv_sec : Nat, tv_nsec : 0..(NsPerSec - 1)]

VARIABLES
  phase,    \* "idle", "primed" or "removed"
  mactime,  \* the delay the task was primed with
  start,    \* the clock when it was primed
  now,      \* the clock
  wakeup,   \* its deadline
  tmCount   \* the Mac time that RmvTime has saved

hostVars == <<phase, mactime, start, now, wakeup, tmCount>>

-----------------------------------------------------------------------------
(* Arithmetic *)

\* An int that holds x: int32 arithmetic wraps around
Int32(x) == ((x - MinInt) % (2 * (MaxInt + 1))) + MinInt

\* Division of C, which truncates
Quot(a, b) == IF a >= 0 THEN a \div b ELSE -((-a) \div b)
Rem(a, b) == a - b * Quot(a, b)

\* Fault: no carry at exactly one second
CarryLate(t) ==
  IF t.tv_nsec > NsPerSec
  THEN [tv_sec |-> t.tv_sec + 1, tv_nsec |-> t.tv_nsec - NsPerSec]
  ELSE t

Carry(t) ==
  IF t.tv_nsec >= NsPerSec
  THEN [tv_sec |-> t.tv_sec + 1, tv_nsec |-> t.tv_nsec - NsPerSec]
  ELSE t

timer_add_time(a, b) ==
  Carry([tv_sec |-> a.tv_sec + b.tv_sec, tv_nsec |-> a.tv_nsec + b.tv_nsec])

Borrow(t) ==
  IF t.tv_nsec < 0
  THEN [tv_sec |-> t.tv_sec - 1, tv_nsec |-> t.tv_nsec + NsPerSec]
  ELSE t

timer_sub_time(a, b) ==
  Borrow([tv_sec |-> a.tv_sec - b.tv_sec, tv_nsec |-> a.tv_nsec - b.tv_nsec])

\* Fault: compares the nanoseconds first
CompareNsec(a, b) ==
  Int32(IF a.tv_nsec = b.tv_nsec THEN a.tv_sec - b.tv_sec ELSE a.tv_nsec - b.tv_nsec)

timer_cmp_time(a, b) ==
  Int32(IF a.tv_sec = b.tv_sec THEN a.tv_nsec - b.tv_nsec ELSE a.tv_sec - b.tv_sec)

\* Positive Mac times are milliseconds, others negated microseconds
timer_mac2host_time(m) ==
  IF m > 0
  THEN [tv_sec |-> m \div MsPerSec, tv_nsec |-> (m % MsPerSec) * UsPerMs * NsPerUs]
  ELSE LET us == Int32(-m)
       IN  [tv_sec |-> Quot(us, UsPerSec), tv_nsec |-> Rem(us, UsPerSec) * NsPerUs]

\* Fault: converts to milliseconds one bit early
Host2MacShort(t) ==
  LET us == t.tv_sec * UsPerSec + (t.tv_nsec \div NsPerUs)
  IN  IF t.tv_sec < 0 THEN 0
      ELSE Int32(IF us > MaxInt \div 2 THEN us \div UsPerMs ELSE -us)

timer_host2mac_time(t) ==
  LET us == t.tv_sec * UsPerSec + (t.tv_nsec \div NsPerUs)
  IN  IF t.tv_sec < 0 THEN 0
      ELSE Int32(IF us > MaxInt THEN us \div UsPerMs ELSE -us)

-----------------------------------------------------------------------------
(* Their use by the Time Manager *)

Zero == [tv_sec |-> 0, tv_nsec |-> 0]

HostInit ==
  /\ phase = "idle"
  /\ mactime = 0
  /\ start \in Clocks
  /\ now = start
  /\ wakeup = Zero
  /\ tmCount = 0

\* PrimeTime
Prime(m) ==
  /\ phase = "idle"
  /\ mactime' = m
  /\ wakeup' = timer_add_time(now, timer_mac2host_time(m))
  /\ phase' = "primed"
  /\ UNCHANGED <<start, now, tmCount>>

\* The clock advances
Elapse(t) ==
  /\ phase = "primed"
  /\ now = start
  /\ now' = timer_add_time(start, t)
  /\ UNCHANGED <<phase, mactime, start, wakeup, tmCount>>

\* RmvTime saves the remaining time
Remove ==
  /\ phase = "primed"
  /\ tmCount' = timer_host2mac_time(timer_sub_time(wakeup, now))
  /\ phase' = "removed"
  /\ UNCHANGED <<mactime, start, now, wakeup>>

\* InsTime and a new call of PrimeTime
Restart ==
  /\ phase = "removed"
  /\ phase' = "idle"
  /\ mactime' = 0
  /\ now' = start
  /\ wakeup' = Zero
  /\ tmCount' = 0
  /\ UNCHANGED start

HostNext ==
  \/ \E m \in MacTimes : Prime(m)
  \/ \E t \in Elapses : Elapse(t)
  \/ Remove
  \/ Restart

HostSpec == HostInit /\ [][HostNext]_hostVars

-----------------------------------------------------------------------------
(* What it should compute *)

\* A host time in nanoseconds
Ns(t) == t.tv_sec * NsPerSec + t.tv_nsec

\* The duration a Mac time stands for, in nanoseconds
MacNs(m) == IF m > 0 THEN m * UsPerMs * NsPerUs ELSE -m * NsPerUs

Timespec == [tv_sec : Int, tv_nsec : 0..(NsPerSec - 1)]

HostTypeOK ==
  /\ phase \in {"idle", "primed", "removed"}
  /\ mactime \in MinInt..MaxInt
  /\ start \in Timespec
  /\ now \in Timespec
  /\ wakeup \in Timespec
  /\ tmCount \in MinInt..MaxInt

\* TimerInterrupt's test timer_cmp_time(wakeup, now) <= 0 is true exactly when
\* the delay has passed, in spite of seconds and nanoseconds that are compared
\* separately and of a result cut to an int.
DueWhenElapsed ==
  phase = "primed" =>
    (timer_cmp_time(wakeup, now) <= 0 <=> Ns(now) - Ns(start) >= MacNs(mactime))

\* What RmvTime saves is the rest of the delay, short of at most one unit: it
\* never grows, also where microseconds no longer fit in 32 bits ("As long as
\* the microseconds value fits in 32 bit, it must not be converted to
\* milliseconds!").
RestIsSaved ==
  LET rest == MacNs(mactime) - (Ns(now) - Ns(start))
      unit == IF rest \div NsPerUs > MaxInt THEN UsPerMs * NsPerUs ELSE NsPerUs
  IN  phase = "removed" =>
        IF rest <= 0
        THEN tmCount = 0
        ELSE MacNs(tmCount) <= rest /\ rest < MacNs(tmCount) + unit
=============================================================================
