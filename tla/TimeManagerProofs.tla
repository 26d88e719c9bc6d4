------------------------- MODULE TimeManagerProofs -------------------------
(***************************************************************************)
(* Proofs about module TimeManager, for all values of its constants.       *)
(***************************************************************************)
EXTENDS TimeManager, WellFoundedInduction, TLAPS

(***************************************************************************)
(* The inductive invariant                                                 *)
(***************************************************************************)

\* Who holds wakeup_time_lock and when the timer thread is stopped
LockInv ==
  /\ lock = "emul" <=> epc \in {"suspend", "update", "unlock"}
  /\ lock = "timer" <=> tpc = "expire"
  /\ suspended <=> epc \in {"update", "unlock", "resume"}
  /\ suspended => tpc # "expire"

\* The operation that changes wakeup_time, and the task it is about
OpInv ==
  /\ op # "none" <=> epc \in {"lock", "suspend", "update", "unlock", "resume"}
  /\ op \in {"PrimeTime", "RmvTime"} => cur \in Installed
  /\ op = "TimerInterrupt" => scanning
  /\ epc = "scan" => scanning
  /\ epc \in {"join", "exited"} => ~scanning

\* The innermost TimerInterrupt is in a TimeTask, not in its own code
InTask == scanning /\ epc \notin {"scan", "crashed"} /\ op # "TimerInterrupt"

\* TimerInterrupt's locals
ScanInv ==
  /\ scan_now <= now
  /\ ~scanning => ~scan_stale /\ outer = <<>>
  /\ op = "TimerInterrupt" => ~scan_stale
  /\ scanning /\ ~scan_stale /\ epc # "crashed" => scan_next \in Installed \cup {NULL}
  /\ Len(running) = IF InTask THEN Len(outer) + 1 ELSE Len(outer)

\* The locals of the TimerInterrupts it has interrupted
OuterInv ==
  \A i \in DOMAIN outer :
    /\ outer[i].now <= now
    /\ ~outer[i].stale => outer[i].next \in Installed \cup {NULL}

\* The timer thread is to wake no later than any active task
CoversActive == \A t \in ActiveIn(active) : wakeup_time <= wakeup[t]

WakeInv ==
  /\ ActiveIsScheduled
  /\ op = "PrimeTime" => wakeup[cur] # Uninit
  /\ op = "RmvTime" /\ epc \in {"unlock", "resume"} => ~active[cur]
  /\ op # "RmvTime" /\ epc \in {"unlock", "resume"} => CoversActive
  /\ Recomputing \/ Signalled \/ CoversActive

IInv == TypeOK /\ LockInv /\ OpInv /\ ScanInv /\ OuterInv /\ WakeInv

\* Every nonempty set of naturals has a least element.
LEMMA NatMinimum ==
  ASSUME NEW S, S \subseteq Nat, S # {}
  PROVE  \E m \in S : \A x \in S : m <= x
<1> DEFINE R == {ss \in Nat \X Nat : ss[1] < ss[2]}
<1>1. IsWellFoundedOn(R, Nat)
  BY NatLessThanWellFounded DEF OpToRel
<1> HIDE DEF R
<1>2. PICK m \in S : \A x \in S : ~(<<x, m>> \in R)
  BY <1>1, WFMin
<1>3. \A x \in S : ~(x < m)
  BY <1>2 DEF R
<1> QED
  BY <1>3

\* What the loop that recomputes wakeup_time finds: a time no later than the
\* wakeup time of any active task.
LEMMA EarliestIsLeast ==
  ASSUME NEW act, \A t \in ActiveIn(act) : wakeup[t] \in Nat
  PROVE  /\ Earliest(act) \in Nat
         /\ \A t \in ActiveIn(act) : Earliest(act) <= wakeup[t]
<1> DEFINE times == {wakeup_time_max} \cup {wakeup[t] : t \in ActiveIn(act)}
<1>1. times \subseteq Nat /\ times # {}
  BY TimeAssumption
<1>2. \E m \in times : \A x \in times : m <= x
  BY <1>1, NatMinimum
<1>3. Earliest(act) \in times /\ \A x \in times : Earliest(act) <= x
  BY <1>2 DEF Earliest
<1> QED
  BY <1>1, <1>3
\* free_desc unlinks one descriptor and no other.
LEMMA UnlinkedFacts ==
  ASSUME tmDescList \in Seq(Task), NEW t \in Installed
  PROVE  /\ Unlinked(t) \in Seq(Task)
         /\ \A i \in DOMAIN Unlinked(t) : Unlinked(t)[i] \in Installed
         /\ \A u \in Installed \ {t} : \E i \in DOMAIN Unlinked(t) : Unlinked(t)[i] = u
<1> DEFINE n == Len(tmDescList)
           p == Position(t)
<1>1. n \in Nat /\ DOMAIN tmDescList = 1..n /\ \A i \in 1..n : tmDescList[i] \in Task
  OBVIOUS
<1>2. p \in 1..n /\ tmDescList[p] = t
  BY <1>1 DEF Position, Installed
<1> HIDE DEF n, p
<1>3. Unlinked(t) = [i \in 1..(n - 1) |-> IF i < p THEN tmDescList[i] ELSE tmDescList[i + 1]]
  BY DEF Unlinked, n, p
<1>4. n - 1 \in Nat /\ DOMAIN Unlinked(t) = 1..(n - 1)
  BY <1>1, <1>2, <1>3
<1>5. Unlinked(t) \in Seq(Task)
  <2>1. \A i \in 1..(n - 1) : Unlinked(t)[i] \in Task
    BY <1>1, <1>2, <1>3
  <2> QED
    BY <1>3, <1>4, <2>1
<1>6. \A i \in DOMAIN Unlinked(t) : Unlinked(t)[i] \in Installed
  BY <1>1, <1>2, <1>3, <1>4 DEF Installed
<1>7. \A u \in Installed \ {t} : \E i \in DOMAIN Unlinked(t) : Unlinked(t)[i] = u
  <2> TAKE u \in Installed \ {t}
  <2>1. PICK j \in 1..n : tmDescList[j] = u
    BY <1>1 DEF Installed
  <2>2. j # p
    BY <1>2, <2>1
  <2>3. CASE j < p
    <3>1. j \in 1..(n - 1)
      BY <1>1, <1>2, <2>3
    <3>2. Unlinked(t)[j] = u
      BY <1>3, <2>1, <2>3, <3>1
    <3> QED
      BY <1>4, <3>1, <3>2
  <2>4. CASE j > p
    <3>1. j - 1 \in 1..(n - 1) /\ ~(j - 1 < p) /\ (j - 1) + 1 = j
      BY <1>1, <1>2, <2>1, <2>4
    <3>2. Unlinked(t)[j - 1] = u
      BY <1>3, <2>1, <3>1
    <3> QED
      BY <1>4, <3>1, <3>2
  <2> QED
    BY <1>1, <1>2, <2>1, <2>2, <2>3, <2>4
<1> QED
  BY <1>5, <1>6, <1>7

\* InsTime puts one descriptor in front of the list.
LEMMA LinkedFacts ==
  ASSUME tmDescList \in Seq(Task), NEW t \in Task
  PROVE  LET l == <<t>> \o tmDescList
         IN  /\ l \in Seq(Task)
             /\ {l[i] : i \in DOMAIN l} = Installed \cup {t}
<1> DEFINE l == <<t>> \o tmDescList
           n == Len(tmDescList)
<1>1. n \in Nat /\ DOMAIN tmDescList = 1..n
  OBVIOUS
<1>2. l \in Seq(Task) /\ Len(l) = n + 1 /\ DOMAIN l = 1..(n + 1)
  OBVIOUS
<1>3. l[1] = t /\ \A i \in 1..n : l[i + 1] = tmDescList[i]
  OBVIOUS
<1> HIDE DEF l, n
<1>4. \A i \in 2..(n + 1) : i - 1 \in 1..n /\ l[i] = tmDescList[i - 1]
  <2> TAKE i \in 2..(n + 1)
  <2>1. i - 1 \in 1..n /\ (i - 1) + 1 = i
    BY <1>1
  <2> QED
    BY <1>3, <2>1
<1>5. {l[i] : i \in DOMAIN l} \subseteq Installed \cup {t}
  <2>1. \A i \in DOMAIN l : i = 1 \/ i \in 2..(n + 1)
    BY <1>1, <1>2
  <2>2. \A i \in 1..n : tmDescList[i] \in Installed
    BY <1>1 DEF Installed
  <2>3. \A i \in DOMAIN l : l[i] \in Installed \cup {t}
    BY <1>3, <1>4, <2>1, <2>2
  <2> QED
    BY <2>3
<1>6. \A i \in 1..n : i + 1 \in DOMAIN l /\ l[i + 1] = tmDescList[i]
  BY <1>1, <1>2, <1>3
<1>7. Installed \cup {t} \subseteq {l[i] : i \in DOMAIN l}
  <2>1. t \in {l[i] : i \in DOMAIN l}
    BY <1>1, <1>2, <1>3
  <2>2. \A i \in 1..n : tmDescList[i] \in {l[j] : j \in DOMAIN l}
    BY <1>6
  <2>3. Installed \subseteq {l[i] : i \in DOMAIN l}
    BY <1>1, <2>2 DEF Installed
  <2> QED
    BY <2>1, <2>3
<1> QED
  BY <1>2, <1>5, <1>7 DEF l

\* TimerInterrupt, called again in a TimeTask, saves the locals of the one it
\* interrupts; a TimeTask that is called goes on top of those that run.
LEMMA PushFacts ==
  ASSUME NEW S, NEW s \in Seq(S), NEW e \in S
  PROVE  LET l == <<e>> \o s
         IN  /\ l \in Seq(S)
             /\ Len(l) = Len(s) + 1
             /\ \A i \in DOMAIN l : l[i] = e \/ \E j \in DOMAIN s : l[i] = s[j]
<1> DEFINE l == <<e>> \o s
           n == Len(s)
<1>1. n \in Nat /\ DOMAIN s = 1..n
  OBVIOUS
<1>2. l \in Seq(S) /\ Len(l) = n + 1 /\ DOMAIN l = 1..(n + 1)
  OBVIOUS
<1>3. l[1] = e /\ \A i \in 1..n : l[i + 1] = s[i]
  OBVIOUS
<1> HIDE DEF l, n
<1>4. \A i \in 2..(n + 1) : i - 1 \in 1..n /\ l[i] = s[i - 1]
  <2> TAKE i \in 2..(n + 1)
  <2>1. i - 1 \in 1..n /\ (i - 1) + 1 = i
    BY <1>1
  <2> QED
    BY <1>3, <2>1
<1>5. \A i \in DOMAIN l : i = 1 \/ i \in 2..(n + 1)
  BY <1>1, <1>2
<1>6. \A i \in DOMAIN l : l[i] = e \/ \E j \in DOMAIN s : l[i] = s[j]
  BY <1>1, <1>3, <1>4, <1>5
<1> QED
  BY <1>2, <1>6 DEF l, n

\* When TimerInterrupt or a TimeTask returns, what is below it stays.
LEMMA PopFacts ==
  ASSUME NEW S, NEW s \in Seq(S), s # <<>>
  PROVE  /\ Head(s) \in S
         /\ \E j \in DOMAIN s : Head(s) = s[j]
         /\ Tail(s) \in Seq(S)
         /\ Len(Tail(s)) + 1 = Len(s)
         /\ \A i \in DOMAIN Tail(s) : \E j \in DOMAIN s : Tail(s)[i] = s[j]
<1> DEFINE n == Len(s)
<1>1. n \in Nat /\ DOMAIN s = 1..n /\ 1 \in 1..n /\ Head(s) = s[1] /\ s[1] \in S
  OBVIOUS
<1>2. Tail(s) \in Seq(S) /\ Len(Tail(s)) = n - 1
  OBVIOUS
<1>3. DOMAIN Tail(s) = 1..(n - 1)
  BY <1>2
<1>4. \A i \in 1..(n - 1) : Tail(s)[i] = s[i + 1]
  OBVIOUS
<1>5. \A i \in 1..(n - 1) : i + 1 \in 1..n
  BY <1>1
<1>6. Len(Tail(s)) + 1 = n
  BY <1>1, <1>2
<1>7. \A i \in DOMAIN Tail(s) : \E j \in DOMAIN s : Tail(s)[i] = s[j]
  BY <1>1, <1>3, <1>4, <1>5
<1> QED
  BY <1>1, <1>2, <1>6, <1>7

\* free_desc makes saved pointers to one descriptor stale and changes no other local.
LEMMA FreedFacts ==
  ASSUME outer \in Seq(Frame)
  PROVE  LET l == [i \in DOMAIN outer |-> FreedIn(outer[i])]
         IN  /\ l \in Seq(Frame)
             /\ Len(l) = Len(outer)
             /\ DOMAIN l = DOMAIN outer
             /\ \A i \in DOMAIN outer :
                  /\ l[i].now = outer[i].now
                  /\ l[i].next = outer[i].next
                  /\ l[i].stale <=> outer[i].stale \/ outer[i].next = cur
<1> DEFINE l == [i \in DOMAIN outer |-> FreedIn(outer[i])]
           n == Len(outer)
<1>1. n \in Nat /\ DOMAIN outer = 1..n /\ \A i \in 1..n : outer[i] \in Frame
  OBVIOUS
<1>2. ASSUME NEW f \in Frame
      PROVE  /\ FreedIn(f) \in Frame
             /\ FreedIn(f).now = f.now
             /\ FreedIn(f).next = f.next
             /\ FreedIn(f).stale <=> f.stale \/ f.next = cur
  BY DEF FreedIn, Frame
<1> HIDE DEF n
<1>3. l = [i \in 1..n |-> FreedIn(outer[i])]
  BY <1>1
<1>4. \A i \in 1..n : l[i] = FreedIn(outer[i]) /\ l[i] \in Frame
  BY <1>1, <1>2, <1>3
<1>5. l \in Seq(Frame) /\ Len(l) = n
  BY <1>1, <1>3, <1>4
<1> HIDE DEF l
<1>6. DOMAIN l = DOMAIN outer
  BY <1>1, <1>3
<1>7. \A i \in DOMAIN outer :
        /\ l[i].now = outer[i].now
        /\ l[i].next = outer[i].next
        /\ l[i].stale <=> outer[i].stale \/ outer[i].next = cur
  BY <1>1, <1>2, <1>4
<1> QED
  BY <1>5, <1>6, <1>7 DEF l, n
-----------------------------------------------------------------------------
(* Every step keeps the invariant: one lemma for each part of it *)

LEMMA InitInv == Init => IInv
<1> SUFFICES ASSUME Init PROVE IInv
  OBVIOUS
<1> USE DEF Init
<1>1. Installed = {}
  BY DEF Installed
<1>2. TypeOK
  <2>1. tmDescList \in Seq(Task) /\ outer \in Seq(Frame) /\ running \in Seq(Task)
    OBVIOUS
  <2>2. /\ wakeup \in [Task -> Nat \cup {Uninit}]
        /\ active \in [Task -> BOOLEAN]
        /\ extended \in [Task -> BOOLEAN]
        /\ tmWakeUp \in [Task -> BOOLEAN]
        /\ tmCount \in [Task -> Nat]
    OBVIOUS
  <2> QED
    BY <2>1, <2>2, TimeAssumption DEF TypeOK, EmulPC, TimerPC, Op, Thread
<1>3. LockInv /\ OpInv
  BY DEF LockInv, OpInv
<1>4. ScanInv /\ OuterInv
  BY DEF ScanInv, OuterInv, InTask
<1>5. WakeInv
  BY <1>1 DEF WakeInv, ActiveIsScheduled, CoversActive, ActiveIn
<1> QED
  BY <1>2, <1>3, <1>4, <1>5 DEF IInv

\* Only the owner gives wakeup_time_lock back, and the timer thread does not
\* move while it is stopped.
LEMMA LockStep ==
  ASSUME LockInv, [Next]_vars
  PROVE  LockInv'
<1> USE DEF LockInv, TimerRuns, macVars, descVars, scanVars, emulVars, timerVars, sharedVars
<1>1. ASSUME NEW t \in Task, NEW x \in InsKinds, InsTime(t, x)
      PROVE  LockInv'
  BY <1>1 DEF InsTime, ClearActive
<1>2. ASSUME NEW t \in Task, NEW time \in Delay, PrimeTime(t, time)
      PROVE  LockInv'
  BY <1>2 DEF PrimeTime
<1>3. ASSUME NEW t \in Task, RmvTime(t)
      PROVE  LockInv'
  BY <1>3 DEF RmvTime
<1>4. ASSUME NEW t \in Task, ClearTmWakeUp(t)
      PROVE  LockInv'
  BY <1>4 DEF ClearTmWakeUp
<1>5. CASE TimerReset
  BY <1>5 DEF TimerReset
<1>6. CASE TimerExit
  BY <1>6 DEF TimerExit
<1>7. CASE LockWakeupTime
  BY <1>7 DEF LockWakeupTime
<1>8. CASE SuspendTimer
  BY <1>8 DEF SuspendTimer
<1>9. CASE Update
  BY <1>9 DEF Update
<1>10. CASE UnlockWakeupTime
  BY <1>10 DEF UnlockWakeupTime
<1>11. CASE ResumeTimer
  BY <1>11 DEF ResumeTimer, RmvTimeReturns, TimerInterruptReturns, Interrupted
<1>12. CASE TakeInterrupt
  BY <1>12 DEF TakeInterrupt
<1>13. CASE ScanDesc
  BY <1>13 DEF ScanDesc
<1>14. CASE ScanFreedDesc
  BY <1>14 DEF ScanFreedDesc
<1>15. CASE TimeTaskReturns
  BY <1>15 DEF TimeTaskReturns
<1>16. CASE ScanDone
  BY <1>16 DEF ScanDone
<1>17. CASE JoinTimer
  BY <1>17 DEF JoinTimer
<1>18. CASE TimerSleep
  BY <1>18 DEF TimerSleep
<1>19. CASE TimerWake
  BY <1>19 DEF TimerWake
<1>20. CASE TimerSample
  BY <1>20 DEF TimerSample
<1>21. CASE TimerCompare
  BY <1>21 DEF TimerCompare
<1>22. CASE TimerLock
  BY <1>22 DEF TimerLock
<1>23. CASE TimerExpire
  BY <1>23 DEF TimerExpire
<1>24. CASE TimerSetFlag
  BY <1>24 DEF TimerSetFlag
<1>25. CASE Tick
  BY <1>25 DEF Tick
<1>26. CASE Stopped
  BY <1>26 DEF Stopped, vars
<1>27. CASE UNCHANGED vars
  BY <1>27 DEF vars
<1> QED
  BY <1>1, <1>2, <1>3, <1>4, <1>5, <1>6, <1>7, <1>8, <1>9,
     <1>10, <1>11, <1>12, <1>13, <1>14, <1>15, <1>16, <1>17, <1>18,
     <1>19, <1>20, <1>21, <1>22, <1>23, <1>24, <1>25, <1>26, <1>27
  DEF Next, Trap, Locked, Interrupt, TimerThread

\* The task that PrimeTime and RmvTime are about stays installed until they return.
LEMMA OpStep ==
  ASSUME IInv, [Next]_vars
  PROVE  OpInv'
<1> USE DEF IInv, OpInv, Installed, TimerRuns, macVars, descVars, scanVars, emulVars, timerVars, sharedVars
<1>1. ASSUME NEW t \in Task, NEW x \in InsKinds, InsTime(t, x)
      PROVE  OpInv'
  BY <1>1, LinkedFacts DEF InsTime, ClearActive, HasDesc, TypeOK
<1>2. ASSUME NEW t \in Task, NEW time \in Delay, PrimeTime(t, time)
      PROVE  OpInv'
  BY <1>2 DEF PrimeTime, HasDesc
<1>3. ASSUME NEW t \in Task, RmvTime(t)
      PROVE  OpInv'
  BY <1>3 DEF RmvTime, HasDesc
<1>4. ASSUME NEW t \in Task, ClearTmWakeUp(t)
      PROVE  OpInv'
  BY <1>4 DEF ClearTmWakeUp
<1>5. CASE TimerReset
  BY <1>5 DEF TimerReset
<1>6. CASE TimerExit
  BY <1>6 DEF TimerExit
<1>7. CASE LockWakeupTime
  BY <1>7 DEF LockWakeupTime
<1>8. CASE SuspendTimer
  BY <1>8 DEF SuspendTimer
<1>9. CASE Update
  BY <1>9 DEF Update, UpdatePrimeTime, UpdateRmvTime, UpdateTimerInterrupt
<1>10. CASE UnlockWakeupTime
  BY <1>10 DEF UnlockWakeupTime
<1>11. CASE ResumeTimer
  BY <1>11 DEF ResumeTimer, RmvTimeReturns, TimerInterruptReturns, Interrupted
<1>12. CASE TakeInterrupt
  BY <1>12 DEF TakeInterrupt
<1>13. CASE ScanDesc
  BY <1>13 DEF ScanDesc
<1>14. CASE ScanFreedDesc
  BY <1>14 DEF ScanFreedDesc
<1>15. CASE TimeTaskReturns
  BY <1>15 DEF TimeTaskReturns
<1>16. CASE ScanDone
  BY <1>16 DEF ScanDone
<1>17. CASE JoinTimer
  BY <1>17 DEF JoinTimer
<1>18. CASE TimerSleep
  BY <1>18 DEF TimerSleep
<1>19. CASE TimerWake
  BY <1>19 DEF TimerWake
<1>20. CASE TimerSample
  BY <1>20 DEF TimerSample
<1>21. CASE TimerCompare
  BY <1>21 DEF TimerCompare
<1>22. CASE TimerLock
  BY <1>22 DEF TimerLock
<1>23. CASE TimerExpire
  BY <1>23 DEF TimerExpire
<1>24. CASE TimerSetFlag
  BY <1>24 DEF TimerSetFlag
<1>25. CASE Tick
  BY <1>25 DEF Tick
<1>26. CASE Stopped
  BY <1>26 DEF Stopped, vars
<1>27. CASE UNCHANGED vars
  BY <1>27 DEF vars
<1> QED
  BY <1>1, <1>2, <1>3, <1>4, <1>5, <1>6, <1>7, <1>8, <1>9,
     <1>10, <1>11, <1>12, <1>13, <1>14, <1>15, <1>16, <1>17, <1>18,
     <1>19, <1>20, <1>21, <1>22, <1>23, <1>24, <1>25, <1>26, <1>27
  DEF Next, Trap, Locked, Interrupt, TimerThread

\* TimerInterrupt walks along the list.
LEMMA WalkFacts ==
  ASSUME TypeOK
  PROVE  /\ FirstDesc \in Installed \cup {NULL}
         /\ \A t \in Installed : NextDesc(t) \in Installed \cup {NULL}
         /\ Installed \subseteq Task
<1> DEFINE n == Len(tmDescList)
<1>1. tmDescList \in Seq(Task)
  BY DEF TypeOK
<1>2. n \in Nat /\ DOMAIN tmDescList = 1..n /\ \A i \in 1..n : tmDescList[i] \in Task
  BY <1>1
<1>3. FirstDesc \in Installed \cup {NULL}
  <2>1. CASE tmDescList = <<>>
    BY <2>1 DEF FirstDesc
  <2>2. CASE tmDescList # <<>>
    <3>1. 1 \in 1..n /\ Head(tmDescList) = tmDescList[1]
      BY <1>1, <2>2
    <3> QED
      BY <1>2, <2>2, <3>1 DEF FirstDesc, Installed
  <2> QED
    BY <2>1, <2>2
<1>4. \A t \in Installed : NextDesc(t) \in Installed \cup {NULL}
  <2> TAKE t \in Installed
  <2>1. Position(t) \in 1..n
    BY <1>2 DEF Position, Installed
  <2>2. CASE Position(t) < n
    <3>1. Position(t) + 1 \in 1..n
      BY <1>2, <2>1, <2>2
    <3> QED
      BY <1>2, <2>2, <3>1 DEF NextDesc, Installed
  <2>3. CASE ~(Position(t) < n)
    BY <2>3 DEF NextDesc
  <2> QED
    BY <2>2, <2>3
<1>5. Installed \subseteq Task
  BY <1>2 DEF Installed
<1> QED
  BY <1>3, <1>4, <1>5

\* How the set of installed tasks changes: InsTime adds a task, TimerReset
\* removes all, RmvTime removes one when it returns, and nothing else does.
LEMMA InstalledStep ==
  ASSUME IInv
  PROVE  /\ \A t \in Task, x \in InsKinds :
               InsTime(t, x) => Installed' = Installed \cup {t}
         /\ TimerReset => Installed' = {}
         /\ ResumeTimer => /\ Installed' \subseteq Installed
                           /\ Installed \ {cur} \subseteq Installed'
                           /\ op # "RmvTime" => Installed' = Installed
         /\ tmDescList' = tmDescList => Installed' = Installed
<1>1. tmDescList \in Seq(Task)
  BY DEF IInv, TypeOK
<1>2. tmDescList' = tmDescList => Installed' = Installed
  BY DEF Installed
<1>3. ASSUME NEW t \in Task, NEW x \in InsKinds, InsTime(t, x)
      PROVE  Installed' = Installed \cup {t}
  <2>1. CASE HasDesc(t)
    BY <1>3, <2>1 DEF InsTime, ClearActive, HasDesc, Installed, descVars
  <2>2. CASE ~HasDesc(t)
    <3>1. tmDescList' = <<t>> \o tmDescList
      BY <1>3, <2>2 DEF InsTime, ClearActive
    <3> QED
      BY <1>1, <3>1, LinkedFacts DEF Installed
  <2> QED
    BY <2>1, <2>2
<1>4. TimerReset => Installed' = {}
  BY DEF TimerReset, Installed
<1>5. ASSUME ResumeTimer
      PROVE  /\ Installed' \subseteq Installed
             /\ Installed \ {cur} \subseteq Installed'
             /\ op # "RmvTime" => Installed' = Installed
  <2>1. CASE op = "RmvTime"
    <3>1. cur \in Installed /\ tmDescList' = Unlinked(cur)
      BY <1>5, <2>1 DEF ResumeTimer, RmvTimeReturns, TimerInterruptReturns, Interrupted, IInv, OpInv
    <3>2. Installed' = {Unlinked(cur)[i] : i \in DOMAIN Unlinked(cur)}
      BY <3>1 DEF Installed
    <3> QED
      BY <1>1, <2>1, <3>1, <3>2, UnlinkedFacts
  <2>2. CASE op # "RmvTime"
    BY <1>2, <1>5, <2>2 DEF ResumeTimer, RmvTimeReturns, TimerInterruptReturns, Interrupted, descVars
  <2> QED
    BY <2>1, <2>2
<1> QED
  BY <1>2, <1>3, <1>4, <1>5

\* The descriptor TimerInterrupt goes to next is installed, or freed and marked so.
LEMMA ScanStep ==
  ASSUME IInv, [Next]_vars
  PROVE  ScanInv'
<1>a. outer \in Seq(Frame) /\ running \in Seq(Task) /\ Len(outer) \in Nat /\ now \in Nat
  BY DEF IInv, TypeOK
<1> USE DEF IInv, ScanInv, InTask, OpInv, TimerRuns, macVars, descVars, scanVars, emulVars, timerVars, sharedVars
<1>1. ASSUME NEW t \in Task, NEW x \in InsKinds, InsTime(t, x)
      PROVE  ScanInv'
  BY <1>1, InstalledStep DEF InsTime, ClearActive
<1>2. ASSUME NEW t \in Task, NEW time \in Delay, PrimeTime(t, time)
      PROVE  ScanInv'
  BY <1>2, InstalledStep DEF PrimeTime
<1>3. ASSUME NEW t \in Task, RmvTime(t)
      PROVE  ScanInv'
  BY <1>3, InstalledStep DEF RmvTime
<1>4. ASSUME NEW t \in Task, ClearTmWakeUp(t)
      PROVE  ScanInv'
  BY <1>4, InstalledStep DEF ClearTmWakeUp
<1>5. CASE TimerReset
  BY <1>5 DEF TimerReset
<1>6. CASE TimerExit
  BY <1>6, InstalledStep DEF TimerExit
<1>7. CASE LockWakeupTime
  BY <1>7, InstalledStep DEF LockWakeupTime
<1>8. CASE SuspendTimer
  BY <1>8, InstalledStep DEF SuspendTimer
<1>9. CASE Update
  BY <1>9, InstalledStep DEF Update, UpdatePrimeTime, UpdateRmvTime, UpdateTimerInterrupt
<1>10. CASE UnlockWakeupTime
  BY <1>10, InstalledStep DEF UnlockWakeupTime
<1>11. CASE ResumeTimer
  <2>1. CASE op = "PrimeTime"
    <3>1. /\ Installed' = Installed /\ now' = now /\ UNCHANGED scanVars
          /\ epc = "resume" /\ epc' = "m68k" /\ op' = "none"
      BY <1>11, <2>1, InstalledStep DEF ResumeTimer
    <3> QED
      BY <2>1, <3>1
  <2>2. CASE op = "RmvTime"
    <3>1. /\ Installed \ {cur} \subseteq Installed' /\ now' = now /\ running' = running
          /\ epc = "resume" /\ epc' = "m68k" /\ op' = "none"
          /\ RmvTimeReturns
      BY <1>11, <2>2, InstalledStep DEF ResumeTimer
    <3>2. Len(outer') = Len(outer) /\ (outer = <<>> => outer' = <<>>)
      <4>1. outer' = [i \in DOMAIN outer |-> FreedIn(outer[i])]
        BY <3>1 DEF RmvTimeReturns
      <4>2. Len(outer') = Len(outer) /\ outer' \in Seq(Frame)
        BY <1>a, <4>1, FreedFacts
      <4> QED
        BY <1>a, <4>2
    <3>3. /\ scan_stale' = (scan_stale \/ (scanning /\ cur = scan_next))
          /\ UNCHANGED <<scanning, scan_now, scan_next>>
      BY <3>1 DEF RmvTimeReturns
    <3> QED
      BY <2>2, <3>1, <3>2, <3>3
  <2>3. CASE op = "TimerInterrupt"
    <3>1. Installed' = Installed /\ epc' = "m68k" /\ op' = "none" /\ now' = now
          /\ running' = running
      BY <1>11, <2>3, InstalledStep DEF ResumeTimer
    <3>2. TimerInterruptReturns
      BY <1>11, <2>3 DEF ResumeTimer
    <3>3. CASE outer = <<>>
      BY <2>3, <3>1, <3>2, <3>3 DEF TimerInterruptReturns
    <3>4. CASE outer # <<>>
      <4>1. /\ scan_now' = Head(outer).now
            /\ scan_next' = Head(outer).next
            /\ scan_stale' = Head(outer).stale
            /\ outer' = Tail(outer)
            /\ scanning' = scanning
        BY <3>2, <3>4 DEF TimerInterruptReturns
      <4>2. PICK k \in DOMAIN outer : Head(outer) = outer[k]
        BY <1>a, <3>4, PopFacts
      <4>3. Head(outer).now <= now
            /\ (~Head(outer).stale => Head(outer).next \in Installed \cup {NULL})
        BY <4>2 DEF OuterInv
      <4>4. Len(Tail(outer)) + 1 = Len(outer)
        BY <1>a, <3>4, PopFacts
      <4> QED
        BY <2>3, <3>1, <4>1, <4>3, <4>4
    <3> QED
      BY <3>3, <3>4
  <2> QED
    BY <1>11, <2>1, <2>2, <2>3 DEF ResumeTimer
<1>12. CASE TakeInterrupt
  <2>1. CASE scanning
    <3>1. Len(outer') = Len(outer) + 1
      <4> DEFINE f == [now |-> scan_now, next |-> scan_next, stale |-> scan_stale]
      <4>1. f \in Frame
        BY DEF TypeOK, Frame
      <4>2. outer' = <<f>> \o outer
        BY <1>12, <2>1 DEF TakeInterrupt
      <4> HIDE DEF f
      <4> QED
        BY <1>a, <4>1, <4>2, PushFacts
    <3>2. /\ scan_next' \in Installed' \cup {NULL} /\ scan_now' = now /\ now' = now
          /\ ~scan_stale' /\ scanning' = TRUE /\ running' = running
          /\ epc = "m68k" /\ epc' = "scan" /\ op' = op
      BY <1>12, InstalledStep, WalkFacts DEF TakeInterrupt
    <3> QED
      BY <2>1, <3>1, <3>2, <1>a
  <2>2. CASE ~scanning
    BY <1>12, <2>2, <1>a, InstalledStep, WalkFacts DEF TakeInterrupt
  <2> QED
    BY <2>1, <2>2
<1>13. CASE ScanDesc
  <2>1. Installed' = Installed /\ NextDesc(scan_next) \in Installed \cup {NULL}
    BY <1>13, InstalledStep, WalkFacts DEF ScanDesc
  <2>2. CASE Expired(scan_next)
    <3>1. scan_next \in Task
      BY <1>13, WalkFacts DEF ScanDesc
    <3>2. Len(running') = Len(running) + 1
      BY <1>13, <2>2, <1>a, <3>1, PushFacts DEF ScanDesc
    <3> QED
      BY <1>13, <2>1, <2>2, <3>2, <1>a DEF ScanDesc
  <2>3. CASE ~Expired(scan_next)
    BY <1>13, <2>1, <2>3 DEF ScanDesc
  <2> QED
    BY <2>2, <2>3
<1>14. CASE ScanFreedDesc
  BY <1>14, InstalledStep DEF ScanFreedDesc
<1>15. CASE TimeTaskReturns
  <2>1. Len(running) = Len(outer) + 1 /\ running # <<>>
    BY <1>15, <1>a DEF TimeTaskReturns
  <2>2. Len(Tail(running)) + 1 = Len(running)
    BY <1>a, <2>1, PopFacts
  <2>3. Len(running') = Len(outer) /\ Len(outer) \in Nat
    <3>1. Len(Tail(running)) \in Nat
      BY <1>a, <2>1, PopFacts
    <3> QED
      BY <1>15, <1>a, <2>1, <2>2, <3>1 DEF TimeTaskReturns
  <2> QED
    BY <1>15, <2>3, InstalledStep DEF TimeTaskReturns
<1>16. CASE ScanDone
  BY <1>16, InstalledStep DEF ScanDone, OpInv
<1>17. CASE JoinTimer
  BY <1>17, InstalledStep DEF JoinTimer
<1>18. CASE TimerSleep
  BY <1>18, InstalledStep DEF TimerSleep
<1>19. CASE TimerWake
  BY <1>19, InstalledStep DEF TimerWake
<1>20. CASE TimerSample
  BY <1>20, InstalledStep DEF TimerSample
<1>21. CASE TimerCompare
  BY <1>21, InstalledStep DEF TimerCompare
<1>22. CASE TimerLock
  BY <1>22, InstalledStep DEF TimerLock
<1>23. CASE TimerExpire
  BY <1>23, InstalledStep DEF TimerExpire
<1>24. CASE TimerSetFlag
  BY <1>24, InstalledStep DEF TimerSetFlag
<1>25. CASE Tick
  BY <1>25, InstalledStep DEF Tick, TypeOK
<1>26. CASE Stopped
  BY <1>26, InstalledStep DEF Stopped, vars
<1>27. CASE UNCHANGED vars
  BY <1>27 DEF vars, Installed
<1> QED
  BY <1>1, <1>2, <1>3, <1>4, <1>5, <1>6, <1>7, <1>8, <1>9,
     <1>10, <1>11, <1>12, <1>13, <1>14, <1>15, <1>16, <1>17, <1>18,
     <1>19, <1>20, <1>21, <1>22, <1>23, <1>24, <1>25, <1>26, <1>27
  DEF Next, Trap, Locked, Interrupt, TimerThread

\* What the interrupted TimerInterrupts go to next is installed, or freed and
\* marked so.
LEMMA OuterStep ==
  ASSUME IInv, [Next]_vars
  PROVE  OuterInv'
<1>a. outer \in Seq(Frame) /\ now \in Nat /\ \A i \in DOMAIN outer : outer[i].now \in Nat
  <2>1. outer \in Seq(Frame) /\ now \in Nat
    BY DEF IInv, TypeOK
  <2>2. \A i \in DOMAIN outer : outer[i] \in Frame
    BY <2>1
  <2> QED
    BY <2>1, <2>2 DEF Frame
<1>b. /\ outer' = outer
      /\ Installed \subseteq Installed'
      /\ now' \in Nat /\ now <= now'
      => OuterInv'
  BY <1>a DEF IInv, OuterInv
<1> USE DEF TimerRuns, macVars, descVars, scanVars, emulVars, timerVars, sharedVars
<1>1. ASSUME NEW t \in Task, NEW x \in InsKinds, InsTime(t, x)
      PROVE  OuterInv'
  <2>1. outer' = outer /\ now' = now
    BY <1>1 DEF InsTime
  <2>2. Installed' = Installed \cup {t}
    BY <1>1, InstalledStep
  <2> QED
    BY <2>1, <2>2, <1>a, <1>b
<1>2. CASE TimerReset
  BY <1>2 DEF TimerReset, IInv, ScanInv, OuterInv
<1>3. CASE ResumeTimer
  <2>1. CASE op = "PrimeTime"
    BY <1>3, <2>1, <1>a, <1>b, InstalledStep DEF ResumeTimer
  <2>2. CASE op = "RmvTime"
    <3>1. now' = now /\ outer' = [i \in DOMAIN outer |-> FreedIn(outer[i])]
      BY <1>3, <2>2 DEF ResumeTimer, RmvTimeReturns
    <3>2. Installed \ {cur} \subseteq Installed'
      BY <1>3, InstalledStep
    <3>3. /\ DOMAIN outer' = DOMAIN outer
          /\ \A i \in DOMAIN outer :
               /\ outer'[i].now = outer[i].now
               /\ outer'[i].next = outer[i].next
               /\ outer'[i].stale <=> outer[i].stale \/ outer[i].next = cur
      BY <3>1, <1>a, FreedFacts
    <3> QED
      BY <3>1, <3>2, <3>3 DEF IInv, OuterInv
  <2>3. CASE op = "TimerInterrupt"
    <3>1. now' = now /\ Installed' = Installed /\ TimerInterruptReturns
      BY <1>3, <2>3, InstalledStep DEF ResumeTimer
    <3>2. CASE outer = <<>>
      BY <3>1, <3>2, <1>b, <1>a DEF TimerInterruptReturns
    <3>3. CASE outer # <<>>
      <4>1. outer' = Tail(outer)
        BY <3>1, <3>3 DEF TimerInterruptReturns
      <4>2. \A i \in DOMAIN outer' : \E j \in DOMAIN outer : outer'[i] = outer[j]
        BY <4>1, <3>3, <1>a, PopFacts
      <4> QED
        BY <3>1, <4>2 DEF IInv, OuterInv
    <3> QED
      BY <3>2, <3>3
  <2> QED
    BY <1>3, <2>1, <2>2, <2>3 DEF ResumeTimer
<1>4. CASE TakeInterrupt
  <2>1. now' = now /\ Installed' = Installed
    BY <1>4, InstalledStep DEF TakeInterrupt
  <2>2. CASE scanning
    <3> DEFINE f == [now |-> scan_now, next |-> scan_next, stale |-> scan_stale]
    <3>1. f \in Frame /\ f.now <= now /\ (~f.stale => f.next \in Installed \cup {NULL})
      BY <1>4, <2>2 DEF TakeInterrupt, IInv, TypeOK, Frame, ScanInv
    <3>2. outer' = <<f>> \o outer
      BY <1>4, <2>2 DEF TakeInterrupt
    <3> HIDE DEF f
    <3>3. \A i \in DOMAIN outer' : outer'[i] = f \/ \E j \in DOMAIN outer : outer'[i] = outer[j]
      BY <3>1, <3>2, <1>a, PushFacts
    <3> QED
      BY <2>1, <3>1, <3>3 DEF IInv, OuterInv
  <2>3. CASE ~scanning
    BY <1>4, <2>1, <2>3, <1>a, <1>b DEF TakeInterrupt
  <2> QED
    BY <2>2, <2>3
<1>5. CASE Tick
  BY <1>5, <1>a, <1>b, InstalledStep DEF Tick
<1>6. CASE \/ \E t \in Task : \/ \E time \in Delay : PrimeTime(t, time)
                            \/ RmvTime(t)
                            \/ ClearTmWakeUp(t)
           \/ TimerExit
  BY <1>6, <1>a, <1>b, InstalledStep DEF PrimeTime, RmvTime, ClearTmWakeUp, TimerExit
<1>7. CASE LockWakeupTime \/ SuspendTimer \/ Update \/ UnlockWakeupTime
  BY <1>7, <1>a, <1>b, InstalledStep DEF LockWakeupTime, SuspendTimer, Update, UnlockWakeupTime
<1>8. CASE ScanDesc \/ ScanFreedDesc \/ TimeTaskReturns \/ ScanDone
  BY <1>8, <1>a, <1>b, InstalledStep DEF ScanDesc, ScanFreedDesc, TimeTaskReturns, ScanDone
<1>9. CASE TimerThread
  BY <1>9, <1>a, <1>b, InstalledStep DEF TimerThread, TimerSleep, TimerWake, TimerSample,
     TimerCompare, TimerLock, TimerExpire, TimerSetFlag
<1>10. CASE JoinTimer \/ Stopped \/ UNCHANGED vars
  BY <1>10, <1>a, <1>b, InstalledStep DEF JoinTimer, Stopped, vars
<1> QED
  BY <1>1, <1>2, <1>3, <1>4, <1>5, <1>6, <1>7, <1>8, <1>9, <1>10
  DEF Next, Trap, Locked, Interrupt

\* PrimeTime gives a task a wakeup time that is a number, whatever it has read
\* from an uninitialized field.
LEMMA PrimeTimeSchedules ==
  ASSUME TypeOK, NEW t \in Task, NEW time \in Delay, PrimeTime(t, time)
  PROVE  \E w \in Nat : wakeup' = [wakeup EXCEPT ![t] = w]
<1> DEFINE continue == extended[t] /\ tmWakeUp[t]
           delay == IF continue /\ time = 0 THEN SavedDelay(t) ELSE time
           bases == IF continue THEN WakeupRead(t) ELSE {now}
<1>1. delay \in Nat
  BY TimeAssumption DEF SavedDelay
<1>2. bases \subseteq Nat
  BY TimeAssumption DEF WakeupRead, TypeOK
<1>3. PICK base \in bases : wakeup' = [wakeup EXCEPT ![t] = base + delay]
  BY DEF PrimeTime
<1> HIDE DEF delay, bases
<1>4. base + delay \in Nat
  BY <1>1, <1>2
<1> QED
  BY <1>3, <1>4

\* The timer thread may overwrite a wakeup_time that PrimeTime has just written,
\* but then it sets INTFLAG_TIMER and TimerInterrupt recomputes it.
LEMMA WakeStep ==
  ASSUME IInv, [Next]_vars
  PROVE  WakeInv'
<1> USE DEF IInv, WakeInv, ActiveIsScheduled, CoversActive, ActiveIn, Recomputing, Signalled,
           TimerRuns, macVars, descVars, scanVars, emulVars, timerVars, sharedVars
<1>1. ASSUME NEW t \in Task, NEW x \in InsKinds, InsTime(t, x)
      PROVE  WakeInv'
  <2>1. Installed' = Installed \cup {t} /\ active'[t] = FALSE
    BY <1>1, InstalledStep DEF InsTime, ClearActive, TypeOK
  <2>2. \A u \in ActiveIn(active)' : u \in ActiveIn(active) /\ wakeup'[u] = wakeup[u]
    BY <1>1, <2>1, WalkFacts DEF InsTime, ClearActive, TypeOK
  <2>3. op' = op /\ epc' = epc /\ epc = "m68k" /\ op = "none"
    BY <1>1 DEF InsTime, ClearActive, OpInv
  <2>4. CoversActive => CoversActive'
    BY <1>1, <2>2 DEF InsTime, ClearActive
  <2> QED
    BY <1>1, <2>2, <2>3, <2>4 DEF InsTime, ClearActive
<1>2. ASSUME NEW t \in Task, NEW time \in Delay, PrimeTime(t, time)
      PROVE  WakeInv'
  <2>1. PICK w \in Nat : wakeup' = [wakeup EXCEPT ![t] = w]
    BY <1>2, PrimeTimeSchedules
  <2>2. t \in Installed /\ Installed' = Installed /\ wakeup'[t] = w
    BY <1>2, <2>1, InstalledStep DEF PrimeTime, HasDesc, TypeOK
  <2> QED
    BY <1>2, <2>1, <2>2, WalkFacts, UninitAssumption DEF PrimeTime, TypeOK
<1>3. ASSUME NEW t \in Task, RmvTime(t)
      PROVE  WakeInv'
  BY <1>3, InstalledStep DEF RmvTime, OpInv
<1>4. ASSUME NEW t \in Task, ClearTmWakeUp(t)
      PROVE  WakeInv'
  BY <1>4, InstalledStep DEF ClearTmWakeUp
<1>5. CASE TimerReset
  BY <1>5, InstalledStep DEF TimerReset, OpInv
<1>6. CASE TimerExit
  BY <1>6, InstalledStep DEF TimerExit, OpInv
<1>7. CASE LockWakeupTime
  BY <1>7, InstalledStep DEF LockWakeupTime, OpInv
<1>8. CASE SuspendTimer
  BY <1>8, InstalledStep DEF SuspendTimer, OpInv
<1>9. CASE Update
  <2>1. CASE op = "PrimeTime"
    <3>1. active' = [active EXCEPT ![cur] = TRUE] /\ wakeup_time' = Earliest(active')
      BY <1>9, <2>1 DEF Update, UpdatePrimeTime, UpdateRmvTime, UpdateTimerInterrupt
    <3>2. \A t \in ActiveIn(active') : wakeup[t] \in Nat
      BY <2>1, <3>1, WalkFacts DEF TypeOK, OpInv
    <3>3. \A t \in ActiveIn(active') : wakeup_time' <= wakeup[t]
      BY <3>1, <3>2, EarliestIsLeast
    <3> QED
      BY <1>9, <2>1, <3>2, <3>3, InstalledStep, UninitAssumption DEF Update
  <2>2. CASE op = "RmvTime"
    <3>1. /\ active' = [active EXCEPT ![cur] = FALSE]
          /\ active[cur] => wakeup_time' = Earliest(active')
          /\ ~active[cur] => wakeup_time' = wakeup_time
      BY <1>9, <2>2 DEF Update, UpdatePrimeTime, UpdateRmvTime, UpdateTimerInterrupt
    <3>2. /\ ActiveIn(active') \subseteq ActiveIn(active)
          /\ \A t \in ActiveIn(active') : wakeup[t] \in Nat
          /\ ~active'[cur]
      BY <2>2, <3>1, WalkFacts DEF TypeOK, OpInv
    <3>3. CASE active[cur]
      <4>1. \A t \in ActiveIn(active') : wakeup_time' <= wakeup[t]
        BY <3>1, <3>2, <3>3, EarliestIsLeast
      <4> QED
        BY <1>9, <2>2, <3>2, <4>1, InstalledStep DEF Update
    <3>4. CASE ~active[cur]
      BY <1>9, <2>2, <3>1, <3>2, <3>4, InstalledStep DEF Update, OpInv
    <3> QED
      BY <3>3, <3>4
  <2>3. CASE op = "TimerInterrupt"
    <3>1. active' = active /\ wakeup_time' = Earliest(active)
      BY <1>9, <2>3 DEF Update, UpdatePrimeTime, UpdateRmvTime, UpdateTimerInterrupt
    <3>2. \A t \in ActiveIn(active) : wakeup[t] \in Nat
      BY WalkFacts DEF TypeOK
    <3>3. \A t \in ActiveIn(active) : wakeup_time' <= wakeup[t]
      BY <3>1, <3>2, EarliestIsLeast
    <3> QED
      BY <1>9, <2>3, <3>1, <3>3, InstalledStep DEF Update
  <2> QED
    BY <1>9, <2>1, <2>2, <2>3 DEF Update, UpdatePrimeTime, UpdateRmvTime, UpdateTimerInterrupt
<1>10. CASE UnlockWakeupTime
  BY <1>10, InstalledStep DEF UnlockWakeupTime, OpInv
<1>11. CASE ResumeTimer
  <2>1. ActiveIn(active)' \subseteq ActiveIn(active)
    BY <1>11, InstalledStep DEF ResumeTimer, RmvTimeReturns, TimerInterruptReturns, Interrupted
  <2>2. \A t \in ActiveIn(active)' : wakeup'[t] = wakeup[t]
    <3>1. CASE op = "RmvTime"
      BY <1>11, <2>1, <3>1, WalkFacts DEF ResumeTimer, RmvTimeReturns, TimerInterruptReturns, Interrupted, TypeOK, OpInv
    <3>2. CASE op # "RmvTime"
      BY <1>11, <3>2 DEF ResumeTimer, RmvTimeReturns, TimerInterruptReturns, Interrupted
    <3> QED
      BY <3>1, <3>2
  <2>3. CoversActive => CoversActive'
    BY <1>11, <2>1, <2>2 DEF ResumeTimer, RmvTimeReturns, TimerInterruptReturns, Interrupted
  <2> QED
    BY <1>11, <2>1, <2>2, <2>3 DEF ResumeTimer, RmvTimeReturns, TimerInterruptReturns, Interrupted, LockInv, OpInv
<1>12. CASE TakeInterrupt
  BY <1>12, InstalledStep DEF TakeInterrupt, OpInv
<1>13. CASE ScanDesc
  <2>1. \A u \in Task : active'[u] => active[u]
    BY <1>13 DEF ScanDesc, TypeOK
  <2>2. ActiveIn(active)' \subseteq ActiveIn(active)
    BY <1>13, <2>1, InstalledStep, WalkFacts DEF ScanDesc
  <2> QED
    BY <1>13, <2>2 DEF ScanDesc, OpInv
<1>14. CASE ScanFreedDesc
  BY <1>14, InstalledStep DEF ScanFreedDesc, OpInv
<1>15. CASE TimeTaskReturns
  BY <1>15, InstalledStep DEF TimeTaskReturns, OpInv
<1>16. CASE ScanDone
  BY <1>16, InstalledStep DEF ScanDone, OpInv
<1>17. CASE JoinTimer
  BY <1>17, InstalledStep DEF JoinTimer, OpInv
<1>18. CASE TimerSleep
  BY <1>18, InstalledStep DEF TimerSleep
<1>19. CASE TimerWake
  BY <1>19, InstalledStep DEF TimerWake
<1>20. CASE TimerSample
  BY <1>20, InstalledStep DEF TimerSample
<1>21. CASE TimerCompare
  BY <1>21, InstalledStep DEF TimerCompare
<1>22. CASE TimerLock
  BY <1>22, InstalledStep DEF TimerLock, LockInv, OpInv
<1>23. CASE TimerExpire
  BY <1>23, InstalledStep DEF TimerExpire, LockInv, OpInv
<1>24. CASE TimerSetFlag
  BY <1>24, InstalledStep DEF TimerSetFlag, LockInv, OpInv
<1>25. CASE Tick
  BY <1>25, InstalledStep DEF Tick
<1>26. CASE Stopped
  BY <1>26, InstalledStep DEF Stopped, vars
<1>27. CASE UNCHANGED vars
  BY <1>27 DEF vars, Installed
<1> QED
  BY <1>1, <1>2, <1>3, <1>4, <1>5, <1>6, <1>7, <1>8, <1>9,
     <1>10, <1>11, <1>12, <1>13, <1>14, <1>15, <1>16, <1>17, <1>18,
     <1>19, <1>20, <1>21, <1>22, <1>23, <1>24, <1>25, <1>26, <1>27
  DEF Next, Trap, Locked, Interrupt, TimerThread

\* Every variable keeps its type.
LEMMA TypeStep ==
  ASSUME IInv, [Next]_vars
  PROVE  TypeOK'
<1>a. /\ FirstDesc \in Task \cup {NULL}
      /\ Installed \subseteq Task
      /\ \A t \in Installed : NextDesc(t) \in Task \cup {NULL}
  BY WalkFacts DEF IInv
<1>b. epc = "scan" /\ ~scan_stale => scan_next \in Installed \cup {NULL}
  BY DEF IInv, OpInv, ScanInv
<1>c. TypeOK
  BY DEF IInv
<1> USE <1>c DEF TypeOK, EmulPC, TimerPC, Op, Thread, TimerRuns,
           macVars, descVars, scanVars, emulVars, timerVars, sharedVars
<1>1. ASSUME NEW t \in Task, NEW x \in InsKinds, InsTime(t, x)
      PROVE  TypeOK'
  <2>1. tmDescList' \in Seq(Task) /\ wakeup' \in [Task -> Nat \cup {Uninit}]
    BY <1>1, LinkedFacts DEF InsTime, ClearActive
  <2> QED
    <3>1. extended' \in [Task -> BOOLEAN] /\ active' \in [Task -> BOOLEAN]
      BY <1>1, ProgramAssumption DEF InsTime, ClearActive
    <3> QED
      BY <1>1, <2>1, <3>1 DEF InsTime, ClearActive
<1>2. ASSUME NEW t \in Task, NEW time \in Delay, PrimeTime(t, time)
      PROVE  TypeOK'
  <2>1. wakeup' \in [Task -> Nat \cup {Uninit}]
    BY <1>2, PrimeTimeSchedules
  <2> QED
    BY <1>2, <2>1 DEF PrimeTime
<1>3. ASSUME NEW t \in Task, RmvTime(t)
      PROVE  TypeOK'
  BY <1>3 DEF RmvTime
<1>4. ASSUME NEW t \in Task, ClearTmWakeUp(t)
      PROVE  TypeOK'
  BY <1>4 DEF ClearTmWakeUp
<1>5. CASE TimerReset
  BY <1>5 DEF TimerReset
<1>6. CASE TimerExit
  BY <1>6 DEF TimerExit
<1>7. CASE LockWakeupTime
  BY <1>7 DEF LockWakeupTime
<1>8. CASE SuspendTimer
  BY <1>8 DEF SuspendTimer
<1>9. CASE Update
  <2>1. /\ active' \in [Task -> BOOLEAN]
        /\ \A u \in ActiveIn(active') : wakeup[u] \in Nat
    BY <1>9, WalkFacts, UninitAssumption
    DEF Update, UpdatePrimeTime, UpdateRmvTime, UpdateTimerInterrupt, WakeInv,
        ActiveIsScheduled, ActiveIn, OpInv, IInv
  <2>2. wakeup_time' \in Nat
    <3>1. wakeup_time' = wakeup_time \/ wakeup_time' = Earliest(active')
      BY <1>9 DEF Update, UpdatePrimeTime, UpdateRmvTime, UpdateTimerInterrupt
    <3>2. Earliest(active') \in Nat
      BY <2>1, EarliestIsLeast
    <3> QED
      BY <3>1, <3>2
  <2>3. tmCount' \in [Task -> Nat]
    <3>1. CASE op = "RmvTime" /\ active[cur]
      <4>1. wakeup[cur] \in Nat /\ cur \in Task
        BY <3>1, WalkFacts DEF IInv, OpInv, WakeInv, ActiveIsScheduled, ActiveIn
      <4>2. Remaining(cur) \in Nat
        BY <4>1 DEF Remaining
      <4> QED
        BY <1>9, <3>1, <4>2 DEF Update, UpdatePrimeTime, UpdateRmvTime, UpdateTimerInterrupt
    <3>2. CASE ~(op = "RmvTime" /\ active[cur])
      BY <1>9, <3>2 DEF Update, UpdatePrimeTime, UpdateRmvTime, UpdateTimerInterrupt
    <3> QED
      BY <3>1, <3>2
  <2> QED
    BY <1>9, <2>1, <2>2, <2>3 DEF Update
<1>10. CASE UnlockWakeupTime
  BY <1>10 DEF UnlockWakeupTime
<1>11. CASE ResumeTimer
  <2>1. CASE op = "PrimeTime"
    BY <1>11, <2>1 DEF ResumeTimer, Interrupted
  <2>2. CASE op = "RmvTime"
    <3>1. tmDescList' \in Seq(Task) /\ wakeup' \in [Task -> Nat \cup {Uninit}]
      BY <1>11, <2>2, UnlinkedFacts DEF ResumeTimer, RmvTimeReturns, IInv, OpInv
    <3>2. outer' \in Seq(Frame)
      BY <1>11, <2>2, FreedFacts DEF ResumeTimer, RmvTimeReturns
    <3>3. scan_stale' \in BOOLEAN
      BY <1>11, <2>2 DEF ResumeTimer, RmvTimeReturns
    <3> QED
      BY <1>11, <2>2, <3>1, <3>2, <3>3 DEF ResumeTimer, RmvTimeReturns, Interrupted
  <2>3. CASE op = "TimerInterrupt"
    <3>1. TimerInterruptReturns
      BY <1>11, <2>3 DEF ResumeTimer
    <3>2. /\ outer' \in Seq(Frame)
          /\ scanning' \in BOOLEAN
          /\ scan_now' \in Nat
          /\ scan_next' \in Task \cup {NULL}
          /\ scan_stale' \in BOOLEAN
      <4>1. CASE outer = <<>>
        BY <3>1, <4>1 DEF TimerInterruptReturns
      <4>2. CASE outer # <<>>
        <5>1. Head(outer) \in Frame /\ Tail(outer) \in Seq(Frame)
          BY <4>2, PopFacts
        <5> QED
          BY <3>1, <4>2, <5>1 DEF TimerInterruptReturns, Frame
      <4> QED
        BY <4>1, <4>2
    <3> QED
      BY <1>11, <2>3, <3>1, <3>2 DEF ResumeTimer, TimerInterruptReturns, Interrupted
  <2> QED
    BY <1>11, <2>1, <2>2, <2>3 DEF ResumeTimer
<1>12. CASE TakeInterrupt
  <2>1. scan_next' \in Task \cup {NULL} /\ scan_now' \in Nat
    BY <1>12, <1>a DEF TakeInterrupt
  <2>2. timer_flag' \in BOOLEAN /\ scanning' \in BOOLEAN /\ scan_stale' \in BOOLEAN
        /\ epc' \in EmulPC
    BY <1>12 DEF TakeInterrupt
  <2>3. outer' \in Seq(Frame)
    <3>1. CASE scanning
      <4> DEFINE f == [now |-> scan_now, next |-> scan_next, stale |-> scan_stale]
      <4>1. f \in Frame
        BY DEF Frame
      <4>2. outer' = <<f>> \o outer
        BY <1>12, <3>1 DEF TakeInterrupt
      <4> HIDE DEF f
      <4> QED
        BY <4>1, <4>2, PushFacts
    <3>2. CASE ~scanning
      BY <1>12, <3>2 DEF TakeInterrupt
    <3> QED
      BY <3>1, <3>2
  <2>4. UNCHANGED <<now, macVars, descVars, running, op, cur, timerVars,
                    wakeup_time, lock, suspended, cancel>>
    BY <1>12 DEF TakeInterrupt
  <2> QED
    BY <2>1, <2>2, <2>3, <2>4
<1>13. CASE ScanDesc
  <2>1. scan_next \in Task /\ scan_next' \in Task \cup {NULL}
    BY <1>13, <1>a, <1>b DEF ScanDesc
  <2>2. active' \in [Task -> BOOLEAN] /\ running' \in Seq(Task) /\ epc' \in EmulPC
    <3>1. <<scan_next>> \o running \in Seq(Task)
      BY <2>1, PushFacts
    <3> QED
      BY <1>13, <2>1, <3>1 DEF ScanDesc
  <2> QED
    BY <1>13, <2>1, <2>2 DEF ScanDesc
<1>14. CASE ScanFreedDesc
  <2>1. scan_next' \in Task \cup {NULL} /\ epc' \in EmulPC
    BY <1>14, <1>a DEF ScanFreedDesc
  <2>2. scan_stale' \in BOOLEAN
    BY <1>14 DEF ScanFreedDesc
  <2>3. UNCHANGED <<now, macVars, descVars, scanning, scan_now, outer, running, op, cur,
                    timerVars, sharedVars>>
    BY <1>14 DEF ScanFreedDesc
  <2> QED
    BY <2>1, <2>2, <2>3
<1>15. CASE TimeTaskReturns
  <2>1. running # <<>>
    BY <1>15 DEF TimeTaskReturns, IInv, OpInv, ScanInv, InTask
  <2>2. running' \in Seq(Task)
    BY <1>15, <2>1, PopFacts DEF TimeTaskReturns
  <2> QED
    BY <1>15, <2>2 DEF TimeTaskReturns
<1>16. CASE ScanDone
  BY <1>16 DEF ScanDone
<1>17. CASE JoinTimer
  BY <1>17 DEF JoinTimer
<1>18. CASE TimerSleep
  BY <1>18 DEF TimerSleep
<1>19. CASE TimerWake
  BY <1>19 DEF TimerWake
<1>20. CASE TimerSample
  BY <1>20 DEF TimerSample
<1>21. CASE TimerCompare
  BY <1>21 DEF TimerCompare
<1>22. CASE TimerLock
  BY <1>22 DEF TimerLock
<1>23. CASE TimerExpire
  BY <1>23, TimeAssumption DEF TimerExpire
<1>24. CASE TimerSetFlag
  BY <1>24 DEF TimerSetFlag
<1>25. CASE Tick
  BY <1>25 DEF Tick
<1>26. CASE Stopped
  BY <1>26 DEF Stopped, vars
<1>27. CASE UNCHANGED vars
  BY <1>27 DEF vars
<1> QED
  BY <1>1, <1>2, <1>3, <1>4, <1>5, <1>6, <1>7, <1>8, <1>9,
     <1>10, <1>11, <1>12, <1>13, <1>14, <1>15, <1>16, <1>17, <1>18,
     <1>19, <1>20, <1>21, <1>22, <1>23, <1>24, <1>25, <1>26, <1>27
  DEF Next, Trap, Locked, Interrupt, TimerThread

LEMMA Inductive == IInv /\ [Next]_vars => IInv'
  BY TypeStep, LockStep, OpStep, ScanStep, OuterStep, WakeStep DEF IInv

LEMMA Invariance == Spec => []IInv
  BY InitInv, Inductive, PTL DEF Spec

-----------------------------------------------------------------------------
(* The safety theorems *)

\* The variables of timer.cpp keep their types; in particular the remaining time
\* RmvTime computes for tmCount is never negative.
THEOREM TypeCorrect == Spec => []TypeOK
<1>1. IInv => TypeOK
  BY DEF IInv
<1> QED
  BY <1>1, Invariance, PTL

\* timer_func cannot lose a wakeup: however it interleaves with PrimeTime,
\* RmvTime and TimerInterrupt, the timer thread wakes for every active task.
THEOREM NoWakeupIsLost == Spec => []NoLostWakeup
<1>1. IInv => NoLostWakeup
  BY DEF IInv, WakeInv, CoversActive, NoLostWakeup
<1> QED
  BY <1>1, Invariance, PTL

\* timer_thread_suspend never stops the owner of wakeup_time_lock, and
\* timer_func is outside its critical section while the emulator thread recomputes.
THEOREM OwnerIsNotSuspended == Spec => []NoSuspendedOwner
<1>1. IInv => NoSuspendedOwner
  BY DEF IInv, LockInv, NoSuspendedOwner
<1> QED
  BY <1>1, Invariance, PTL

\* No loop over tmDescList compares an uninitialized wakeup field.
THEOREM ActiveTasksAreScheduled == Spec => []ActiveIsScheduled
<1>1. IInv => ActiveIsScheduled
  BY DEF IInv, WakeInv
<1> QED
  BY <1>1, Invariance, PTL

\* TimerInterrupt's saved next pointer stays good, nested interrupts included, as
\* long as no TimeTask removes the task that a TimerInterrupt goes on to.
THEOREM ScanIsSafe ==
  ASSUME ~RemovesNext
  PROVE  Spec => []ScanSeesInstalled
<1> DEFINE Safe == /\ ~scan_stale
                   /\ epc # "crashed"
                   /\ \A i \in DOMAIN outer : ~outer[i].stale
                   /\ op = "RmvTime" => ~IsNext(cur)
<1>1. Init => Safe
  BY DEF Init
<1>2. IInv /\ Safe /\ [Next]_vars => Safe'
  <2> SUFFICES ASSUME IInv, Safe, [Next]_vars
               PROVE  Safe'
    OBVIOUS
  <2>a. outer \in Seq(Frame)
    BY DEF IInv, TypeOK
  <2>b. /\ UNCHANGED scanVars
        /\ epc' # "crashed"
        /\ op' = "RmvTime" => (cur' = cur /\ op = "RmvTime") \/ ~IsNext(cur')
        => Safe'
    BY DEF scanVars, IsNext
  <2> USE DEF macVars, descVars, emulVars, timerVars, sharedVars
  <2>1. CASE Trap
    <3>1. ASSUME NEW t \in Task, RmvTime(t)
          PROVE  Safe'
      BY <3>1, <2>b DEF RmvTime
    <3>2. ASSUME NEW t \in Task,
                 \/ \E x \in InsKinds : InsTime(t, x)
                 \/ \E time \in Delay : PrimeTime(t, time)
                 \/ ClearTmWakeUp(t)
          PROVE  Safe'
      BY <3>2, <2>b DEF InsTime, PrimeTime, ClearTmWakeUp, IInv, OpInv
    <3>3. CASE TimerReset \/ TimerExit
      BY <3>3, <2>b DEF TimerReset, TimerExit
    <3> QED
      BY <2>1, <3>1, <3>2, <3>3 DEF Trap
  <2>2. CASE Locked
    <3>1. CASE ResumeTimer
      <4>1. op' = "none" /\ epc' = "m68k"
        BY <3>1 DEF ResumeTimer
      <4>2. CASE op = "PrimeTime"
        BY <3>1, <4>1, <4>2, <2>b DEF ResumeTimer
      <4>3. CASE op = "RmvTime"
        <5>1. RmvTimeReturns
          BY <3>1, <4>3 DEF ResumeTimer
        <5>2. ~scan_stale'
          BY <5>1, <4>3 DEF RmvTimeReturns, IsNext
        <5>3. /\ DOMAIN outer' = DOMAIN outer
              /\ \A i \in DOMAIN outer :
                   outer'[i].stale <=> outer[i].stale \/ outer[i].next = cur
          BY <5>1, <2>a, FreedFacts DEF RmvTimeReturns
        <5>4. \A i \in DOMAIN outer' : ~outer'[i].stale
          BY <5>3, <4>3 DEF IsNext
        <5> QED
          BY <4>1, <5>2, <5>4
      <4>4. CASE op = "TimerInterrupt"
        <5>1. TimerInterruptReturns
          BY <3>1, <4>4 DEF ResumeTimer
        <5>2. CASE outer = <<>>
          BY <4>1, <5>1, <5>2 DEF TimerInterruptReturns
        <5>3. CASE outer # <<>>
          <6>1. scan_stale' = Head(outer).stale /\ outer' = Tail(outer)
            BY <5>1, <5>3 DEF TimerInterruptReturns
          <6>2. ~Head(outer).stale
            BY <2>a, <5>3, PopFacts
          <6>3. \A i \in DOMAIN outer' : ~outer'[i].stale
            BY <2>a, <5>3, <6>1, PopFacts
          <6> QED
            BY <4>1, <6>1, <6>2, <6>3
        <5> QED
          BY <5>2, <5>3
      <4> QED
        BY <3>1, <4>2, <4>3, <4>4 DEF ResumeTimer
    <3>2. CASE LockWakeupTime \/ SuspendTimer \/ Update \/ UnlockWakeupTime
      BY <3>2, <2>b DEF LockWakeupTime, SuspendTimer, Update, UnlockWakeupTime
    <3> QED
      BY <2>2, <3>1, <3>2 DEF Locked
  <2>3. CASE Interrupt
    <3>1. op' # "RmvTime" /\ ~scan_stale' /\ epc' # "crashed"
      BY <2>3 DEF Interrupt, TakeInterrupt, ScanDesc, ScanFreedDesc, TimeTaskReturns,
                  ScanDone, scanVars, IInv, OpInv
    <3>2. \A i \in DOMAIN outer' : ~outer'[i].stale
      <4>1. CASE TakeInterrupt /\ scanning
        <5> DEFINE f == [now |-> scan_now, next |-> scan_next, stale |-> scan_stale]
        <5>1. f \in Frame /\ ~f.stale
          BY DEF IInv, TypeOK, Frame
        <5>2. outer' = <<f>> \o outer
          BY <4>1 DEF TakeInterrupt
        <5> HIDE DEF f
        <5> QED
          BY <2>a, <5>1, <5>2, PushFacts
      <4>2. CASE ~(TakeInterrupt /\ scanning)
        BY <2>3, <4>2 DEF Interrupt, TakeInterrupt, ScanDesc, ScanFreedDesc,
                          TimeTaskReturns, ScanDone, scanVars
      <4> QED
        BY <4>1, <4>2
    <3> QED
      BY <3>1, <3>2
  <2>4. CASE TimerThread
    BY <2>4, <2>b DEF TimerThread, TimerSleep, TimerWake, TimerSample, TimerCompare, TimerLock,
                      TimerExpire, TimerSetFlag
  <2>5. CASE JoinTimer \/ Tick \/ Stopped \/ UNCHANGED vars
    BY <2>5, <2>b DEF JoinTimer, Tick, Stopped, vars
  <2> QED
    BY <2>1, <2>2, <2>3, <2>4, <2>5 DEF Next
<1>3. IInv /\ Safe => ScanSeesInstalled
  BY DEF IInv, ScanInv, ScanSeesInstalled
<1> QED
  BY <1>1, <1>2, <1>3, Invariance, PTL DEF Spec

-----------------------------------------------------------------------------
(* Refinement *)

LEMMA InitRefines == Init => Service!Init
  BY DEF Init, Service!Init, Armed, ActiveIn, Installed

\* Every step of the Time Manager is a step of TimerService, or changes nothing
\* that 68k code can see.
LEMMA StepRefines ==
  ASSUME IInv, [Next]_vars
  PROVE  [Service!Next]_(Service!serviceVars)
<1>t. TypeOK
  BY DEF IInv
<1>b. Installed' = Installed /\ active' = active /\ wakeup' = wakeup => Armed' = Armed
  BY DEF Armed, ActiveIn
<1> USE DEF Service!Next, Service!serviceVars,
           macVars, descVars, scanVars, emulVars, timerVars, sharedVars
<1>1. ASSUME NEW t \in Task, NEW x \in InsKinds, InsTime(t, x)
      PROVE  [Service!Next]_(Service!serviceVars)
  <2>1. Armed' = [Armed EXCEPT ![t] = Uninit]
    <3>1. Installed' = Installed \cup {t} /\ active' = [active EXCEPT ![t] = FALSE]
      BY <1>1, InstalledStep DEF InsTime, ClearActive
    <3>2. \A u \in Task \ {t} : active'[u] = active[u] /\ wakeup'[u] = wakeup[u]
      BY <1>1, <3>1, <1>t DEF InsTime, ClearActive, TypeOK
    <3>3. \A u \in Task : Armed'[u] = IF u = t THEN Uninit ELSE Armed[u]
      BY <3>1, <3>2, <1>t DEF Armed, ActiveIn, TypeOK
    <3> QED
      BY <3>3 DEF Armed
  <2> QED
    BY <1>1, <2>1 DEF InsTime, ClearActive, Service!Disarm
<1>2. ASSUME NEW t \in Task, NEW time \in Delay, PrimeTime(t, time)
      PROVE  [Service!Next]_(Service!serviceVars)
  <2>1. PICK w \in Nat : wakeup' = [wakeup EXCEPT ![t] = w]
    BY <1>2, <1>t, PrimeTimeSchedules
  <2>2. Installed' = Installed /\ active' = active
    BY <1>2, InstalledStep DEF PrimeTime
  <2>3. \A u \in Task : Armed'[u] = IF u = t /\ u \in ActiveIn(active) THEN w ELSE Armed[u]
    BY <2>1, <2>2, <1>t DEF Armed, ActiveIn, TypeOK
  <2>4. CASE t \in ActiveIn(active)
    <3>1. Armed' = [Armed EXCEPT ![t] = Armed'[t]] /\ Armed'[t] \in Nat
      BY <2>3, <2>4 DEF Armed
    <3> QED
      BY <1>2, <3>1 DEF PrimeTime, Service!Arm
  <2>5. CASE t \notin ActiveIn(active)
    <3>1. Armed' = Armed
      BY <2>3, <2>5 DEF Armed
    <3> QED
      BY <1>2, <3>1 DEF PrimeTime
  <2> QED
    BY <2>4, <2>5
<1>3. ASSUME NEW t \in Task, RmvTime(t)
      PROVE  [Service!Next]_(Service!serviceVars)
  BY <1>3, <1>b, InstalledStep DEF RmvTime
<1>4. ASSUME NEW t \in Task, ClearTmWakeUp(t)
      PROVE  [Service!Next]_(Service!serviceVars)
  BY <1>4, <1>b, InstalledStep DEF ClearTmWakeUp
<1>5. CASE TimerReset
  <2>1. Armed' = [t \in Task |-> Uninit]
    BY <1>5, InstalledStep DEF Armed, ActiveIn
  <2> QED
    BY <1>5, <2>1 DEF TimerReset, Service!DisarmAll
<1>6. CASE TimerExit
  BY <1>6, <1>b, InstalledStep DEF TimerExit
<1>7. CASE LockWakeupTime
  BY <1>7, <1>b, InstalledStep DEF LockWakeupTime
<1>8. CASE SuspendTimer
  BY <1>8, <1>b, InstalledStep DEF SuspendTimer
<1>9. CASE Update
  <2>1. Installed' = Installed /\ wakeup' = wakeup /\ now' = now /\ running' = running
    BY <1>9, InstalledStep DEF Update
  <2>2. CASE op = "PrimeTime"
    <3>1. cur \in Installed /\ cur \in Task /\ wakeup[cur] \in Nat
      BY <2>2, <1>t, WalkFacts DEF IInv, OpInv, WakeInv, TypeOK
    <3>2. active' = [active EXCEPT ![cur] = TRUE]
      BY <1>9, <2>2 DEF Update, UpdatePrimeTime, UpdateRmvTime, UpdateTimerInterrupt
    <3>3. \A u \in Task : Armed'[u] = IF u = cur THEN wakeup[cur] ELSE Armed[u]
      BY <2>1, <3>1, <3>2, <1>t DEF Armed, ActiveIn, TypeOK
    <3>4. Armed' = [Armed EXCEPT ![cur] = Armed'[cur]] /\ Armed'[cur] \in Nat
      BY <3>1, <3>3 DEF Armed
    <3> QED
      BY <2>1, <3>1, <3>4 DEF Service!Arm
  <2>3. CASE op = "RmvTime"
    <3>1. cur \in Installed /\ cur \in Task
      BY <2>3, <1>t, WalkFacts DEF IInv, OpInv
    <3>2. active' = [active EXCEPT ![cur] = FALSE]
      BY <1>9, <2>3 DEF Update, UpdatePrimeTime, UpdateRmvTime, UpdateTimerInterrupt
    <3>3. \A u \in Task : Armed'[u] = IF u = cur THEN Uninit ELSE Armed[u]
      BY <2>1, <3>1, <3>2, <1>t DEF Armed, ActiveIn, TypeOK
    <3>4. Armed' = [Armed EXCEPT ![cur] = Uninit]
      BY <3>1, <3>3 DEF Armed
    <3> QED
      BY <2>1, <3>1, <3>4 DEF Service!Disarm
  <2>4. CASE op = "TimerInterrupt"
    <3>1. active' = active
      BY <1>9, <2>4 DEF Update, UpdatePrimeTime, UpdateRmvTime, UpdateTimerInterrupt
    <3> QED
      BY <2>1, <3>1, <1>b
  <2> QED
    BY <1>9, <2>2, <2>3, <2>4 DEF Update, UpdatePrimeTime, UpdateRmvTime, UpdateTimerInterrupt
<1>10. CASE UnlockWakeupTime
  BY <1>10, <1>b, InstalledStep DEF UnlockWakeupTime
<1>11. CASE ResumeTimer
  <2>1. CASE op = "RmvTime"
    <3>1. cur \in Installed /\ cur \in Task /\ ~active[cur]
      BY <1>11, <2>1, <1>t, WalkFacts DEF ResumeTimer, RmvTimeReturns, TimerInterruptReturns, Interrupted, IInv, OpInv, WakeInv
    <3>2. /\ Installed' \subseteq Installed
          /\ Installed \ {cur} \subseteq Installed'
          /\ active' = active
          /\ wakeup' = [wakeup EXCEPT ![cur] = Uninit]
      BY <1>11, <2>1, InstalledStep DEF ResumeTimer, RmvTimeReturns, TimerInterruptReturns, Interrupted
    <3>3. \A u \in Task : Armed'[u] = Armed[u]
      BY <3>1, <3>2, <1>t DEF Armed, ActiveIn, TypeOK
    <3>4. Armed' = Armed
      BY <3>3 DEF Armed
    <3> QED
      BY <1>11, <3>4 DEF ResumeTimer, RmvTimeReturns, TimerInterruptReturns, Interrupted
  <2>2. CASE op # "RmvTime"
    BY <1>11, <2>2, <1>b, InstalledStep DEF ResumeTimer, RmvTimeReturns, TimerInterruptReturns, Interrupted
  <2> QED
    BY <2>1, <2>2
<1>12. CASE TakeInterrupt
  BY <1>12, <1>b, InstalledStep DEF TakeInterrupt
<1>13. CASE ScanDesc
  <2>1. Installed' = Installed /\ wakeup' = wakeup /\ now' = now
    BY <1>13, InstalledStep DEF ScanDesc
  <2>2. CASE Expired(scan_next)
    <3>1. /\ scan_next \in Installed
          /\ scan_next \in Task
          /\ scan_now <= now /\ scan_now \in Nat /\ now \in Nat
      BY <1>13, <1>t, WalkFacts DEF ScanDesc, IInv, ScanInv, OpInv, TypeOK
    <3>2. active[scan_next] /\ wakeup[scan_next] <= scan_now
      BY <2>2 DEF Expired
    <3>3. wakeup[scan_next] \in Nat
      BY <3>1, <3>2, <1>t DEF IInv, WakeInv, ActiveIsScheduled, ActiveIn, TypeOK
    <3>4. active' = [active EXCEPT ![scan_next] = FALSE] /\ running' = <<scan_next>> \o running
      BY <1>13, <2>2 DEF ScanDesc
    <3>5. \A u \in Task : Armed'[u] = IF u = scan_next THEN Uninit ELSE Armed[u]
      BY <2>1, <3>1, <3>4, <1>t DEF Armed, ActiveIn, TypeOK
    <3>6. Armed' = [Armed EXCEPT ![scan_next] = Uninit]
      BY <3>1, <3>5 DEF Armed
    <3>7. Armed[scan_next] = wakeup[scan_next]
      BY <3>1, <3>2 DEF Armed, ActiveIn
    <3>8. Armed[scan_next] # Uninit /\ Armed[scan_next] <= now
      BY <3>1, <3>2, <3>3, <3>7, UninitAssumption
    <3> QED
      BY <2>1, <3>1, <3>4, <3>6, <3>8 DEF Service!Call
  <2>3. CASE ~Expired(scan_next)
    BY <1>13, <2>3, <1>b, <2>1 DEF ScanDesc
  <2> QED
    BY <2>2, <2>3
<1>14. CASE ScanFreedDesc
  BY <1>14, <1>b, InstalledStep DEF ScanFreedDesc
<1>15. CASE TimeTaskReturns
  <2>1. Armed' = Armed
    BY <1>15, <1>b, InstalledStep DEF TimeTaskReturns
  <2>2. running # <<>>
    BY <1>15, <1>t DEF TimeTaskReturns, IInv, OpInv, ScanInv, InTask, TypeOK
  <2> QED
    BY <1>15, <2>1, <2>2 DEF TimeTaskReturns, Service!Return
<1>16. CASE ScanDone
  BY <1>16, <1>b, InstalledStep DEF ScanDone
<1>17. CASE JoinTimer
  BY <1>17, <1>b, InstalledStep DEF JoinTimer
<1>18. CASE TimerSleep
  BY <1>18, <1>b, InstalledStep DEF TimerSleep
<1>19. CASE TimerWake
  BY <1>19, <1>b, InstalledStep DEF TimerWake
<1>20. CASE TimerSample
  BY <1>20, <1>b, InstalledStep DEF TimerSample
<1>21. CASE TimerCompare
  BY <1>21, <1>b, InstalledStep DEF TimerCompare
<1>22. CASE TimerLock
  BY <1>22, <1>b, InstalledStep DEF TimerLock
<1>23. CASE TimerExpire
  BY <1>23, <1>b, InstalledStep DEF TimerExpire
<1>24. CASE TimerSetFlag
  BY <1>24, <1>b, InstalledStep DEF TimerSetFlag
<1>25. CASE Tick
  <2>1. Armed' = Armed
    BY <1>25, <1>b, InstalledStep DEF Tick
  <2> QED
    BY <1>25, <2>1 DEF Tick, Service!Advance
<1>26. CASE Stopped
  BY <1>26, <1>b, InstalledStep DEF Stopped, vars
<1>27. CASE UNCHANGED vars
  BY <1>27, <1>b DEF vars, Installed
<1> QED
  BY <1>1, <1>2, <1>3, <1>4, <1>5, <1>6, <1>7, <1>8, <1>9,
     <1>10, <1>11, <1>12, <1>13, <1>14, <1>15, <1>16, <1>17, <1>18,
     <1>19, <1>20, <1>21, <1>22, <1>23, <1>24, <1>25, <1>26, <1>27
  DEF Next, Trap, Locked, Interrupt, TimerThread

\* The Time Manager implements its service: a TimeTask is called only after it was
\* armed, not before its wakeup time, and once, inside other TimeTasks too.
THEOREM Refinement == Spec => ServiceSpec
<1>1. IInv /\ [Next]_vars => [Service!Next]_(Service!serviceVars)
  BY StepRefines
<1> QED
  BY InitRefines, <1>1, Invariance, PTL DEF Spec, ServiceSpec, Service!Spec

-----------------------------------------------------------------------------
(* The timer thread as the signals let it run *)

\* A step of the timer thread's own is a step of StoppableThread.
LEMMA TimerThreadSteps ==
  ASSUME IInv, IInv', TimerThread
  PROVE  Stoppable!Step
<1>1. ~suspended /\ suspended' = suspended
  BY DEF TimerThread, TimerSleep, TimerWake, TimerSample, TimerCompare, TimerLock,
         TimerExpire, TimerSetFlag, TimerRuns, sharedVars
<1>2. TimerControl' \in TimerPC \X Nat \X Nat
  BY DEF IInv, TypeOK, TimerControl, Interrupted, TimerPC
<1>3. (tpc = "sleep")' \in BOOLEAN
  OBVIOUS
<1> QED
  BY <1>1, <1>2, <1>3 DEF Stoppable!Step

\* Every step of the Time Manager stops the timer thread, lets it go on, is a step
\* of its own, or leaves it alone.
LEMMA StepStops ==
  ASSUME IInv, IInv', [Next]_vars
  PROVE  [Stoppable!Next]_(Stoppable!threadVars)
<1> USE DEF Stoppable!Next, Stoppable!threadVars
<1>1. CASE SuspendTimer
  <2>1. ~suspended
    BY <1>1 DEF SuspendTimer, IInv, LockInv
  <2> QED
    BY <1>1, <2>1
    DEF SuspendTimer, Stoppable!Stop, TimerControl, Interrupted, timerVars
<1>2. CASE ResumeTimer
  <2>1. suspended /\ suspended' = FALSE
    BY <1>2 DEF ResumeTimer, IInv, LockInv
  <2>2. tpc' # "sleep" /\ TimerControl' = TimerControl
    BY <1>2 DEF ResumeTimer, RmvTimeReturns, TimerInterruptReturns, Interrupted, TimerControl
  <2> QED
    BY <2>1, <2>2 DEF Stoppable!Continue
<1>3. CASE TimerThread
  BY <1>3, TimerThreadSteps
<1>4. CASE ~SuspendTimer /\ ~ResumeTimer /\ ~TimerThread
  <2>1. suspended' = suspended /\ timerVars' = timerVars
    <3> USE DEF sharedVars
    <3>1. CASE Trap
      BY <3>1 DEF Trap, InsTime, PrimeTime, RmvTime, ClearTmWakeUp, TimerReset, TimerExit
    <3>2. CASE LockWakeupTime \/ Update \/ UnlockWakeupTime
      BY <3>2 DEF LockWakeupTime, Update, UnlockWakeupTime
    <3>3. CASE Interrupt
      BY <3>3 DEF Interrupt, TakeInterrupt, ScanDesc, ScanFreedDesc, TimeTaskReturns,
                  ScanDone
    <3>4. CASE JoinTimer \/ Tick \/ Stopped \/ UNCHANGED vars
      BY <3>4 DEF JoinTimer, Tick, Stopped, vars
    <3> QED
      BY <1>4, <3>1, <3>2, <3>3, <3>4 DEF Next, Locked
  <2> QED
    BY <2>1 DEF timerVars, TimerControl, Interrupted
<1> QED
  BY <1>1, <1>2, <1>3, <1>4

\* timer_thread_suspend and timer_thread_resume are called by turns, and between
\* the two the timer thread does nothing; it is not asleep when it runs again.
THEOREM TimerThreadStops == Spec => StoppableSpec
<1>1. Init => Stoppable!Init
  BY DEF Init, Stoppable!Init, TimerControl, Interrupted, TimerPC
<1>2. IInv /\ IInv' /\ [Next]_vars => [Stoppable!Next]_(Stoppable!threadVars)
  BY StepStops
<1> QED
  BY <1>1, <1>2, Invariance, PTL DEF Spec, StoppableSpec, Stoppable!Spec
=============================================================================
