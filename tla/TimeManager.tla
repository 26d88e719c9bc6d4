---------------------------- MODULE TimeManager ----------------------------
(***************************************************************************)
(* The Time Manager of Basilisk II and SheepShaver (timer.cpp, POSIX       *)
(* variant: PRECISE_TIMING_POSIX) and the part of the level 1 interrupt    *)
(* handler (emul_op.cpp) that calls it.                                    *)
(*                                                                         *)
(* Two threads share wakeup_time.  The emulator thread runs 68k code: at   *)
(* main level it calls the InsTime, RmvTime and PrimeTime traps, and it    *)
(* takes TimerInterrupt, whose TimeTasks are 68k code too and call the     *)
(* same traps.  A TimeTask that opens the interrupt mask is interrupted    *)
(* itself: M68K_EMUL_OP_IRQ calls TimerInterrupt again inside it.  The     *)
(* timer thread sleeps until wakeup_time and sets INTFLAG_TIMER.  The      *)
(* emulator thread changes wakeup_time with                                *)
(* wakeup_time_lock held and with the timer thread suspended by a signal   *)
(* (module ThreadSuspend shows that the signals do stop it); the timer     *)
(* thread reads wakeup_time without the lock.                              *)
(*                                                                         *)
(* Times are natural numbers; module HostTime models the conversions       *)
(* between struct timespec and Mac times.                                  *)
(***************************************************************************)
EXTENDS Naturals, Sequences

CONSTANTS
  Task,             \* addresses of the TMTask structures in Mac memory
  NULL,             \* the null TMDesc pointer
  Uninit,           \* the content of a TMDesc field nobody has written
  InsKinds,         \* which traps install a task: InsTime FALSE, InsXTime TRUE
  Delay,            \* the delays 68k code passes to PrimeTime
  Garbage,          \* what an uninitialized wakeup field may read as
  HighHalfDelay,    \* the delay a nonzero tmCount's high 16 bits stand for
  wakeup_time_max,  \* the wakeup_time of "no task is active"
  MaxTime,          \* bound: the clock stops here
  MaxWakeup,        \* bound: no task is scheduled later than this
  MaxNested,        \* bound: TimerInterrupts suspended by one inside a TimeTask
  RemovesNext       \* may a TimeTask remove the task a TimerInterrupt goes to next?

ASSUME TaskAssumption == NULL \notin Task
ASSUME TimeAssumption ==
  /\ Delay \subseteq Nat
  /\ Garbage \subseteq Nat
  /\ HighHalfDelay \in Nat
  /\ wakeup_time_max \in Nat
  /\ MaxTime \in Nat
  /\ MaxWakeup \in Nat
  /\ MaxNested \in Nat
ASSUME UninitAssumption == Uninit \notin Nat
ASSUME ProgramAssumption == RemovesNext \in BOOLEAN /\ InsKinds \subseteq BOOLEAN

VARIABLES
  now,           \* the host clock
  tmDescList,    \* tasks that have a TMDesc, newest first
  wakeup,        \* TMDesc.wakeup, by task
  active,        \* qType bit 15, in Mac memory
  extended,      \* qType bit 14, in Mac memory
  tmWakeUp,      \* is the tmWakeUp field nonzero?
  tmCount,       \* the tmCount field, as a time
  wakeup_time,   \* when the timer thread shall raise the next interrupt
  lock,          \* owner of wakeup_time_lock
  timer_flag,    \* INTFLAG_TIMER in InterruptFlags
  suspended,     \* the timer thread is stopped by timer_thread_suspend
  cancel,        \* timer_thread_cancel
  epc,           \* control point of the emulator thread
  op,            \* which operation changes wakeup_time
  cur,           \* the task that operation is about
  scanning,      \* is TimerInterrupt active (its loop or a TimeTask)?
  scan_now,      \* local now of the innermost TimerInterrupt
  scan_next,     \* local desc/next of the innermost TimerInterrupt
  scan_stale,    \* has that TMDesc been freed?
  outer,         \* these locals of the suspended TimerInterrupts, innermost first
  running,       \* local tm of the TimerInterrupts in a TimeTask, innermost first
  tpc,           \* control point of the timer thread
  until,         \* the time its clock_nanosleep was given
  sys_time,      \* local system_time of timer_func
  seen           \* wakeup_time as timer_cmp_time starts to load it

macVars == <<active, extended, tmWakeUp, tmCount>>
descVars == <<tmDescList, wakeup>>
scanVars == <<scanning, scan_now, scan_next, scan_stale, outer, running>>
emulVars == <<epc, op, cur>>
timerVars == <<tpc, until, sys_time, seen>>
sharedVars == <<wakeup_time, lock, timer_flag, suspended, cancel>>
vars == <<now, macVars, descVars, scanVars, emulVars, timerVars, sharedVars>>

EmulPC == {"m68k", "scan", "lock", "suspend", "update", "unlock", "resume",
           "join", "exited", "crashed"}
TimerPC == {"top", "sleep", "woken", "compare", "lock", "expire", "setflag", "done"}
Op == {"none", "PrimeTime", "RmvTime", "TimerInterrupt"}
Thread == {"emul", "timer"}
Frame == [now : Nat, next : Task \cup {NULL}, stale : BOOLEAN]

TypeOK ==
  /\ now \in Nat
  /\ tmDescList \in Seq(Task)
  /\ wakeup \in [Task -> Nat \cup {Uninit}]
  /\ active \in [Task -> BOOLEAN]
  /\ extended \in [Task -> BOOLEAN]
  /\ tmWakeUp \in [Task -> BOOLEAN]
  /\ tmCount \in [Task -> Nat]
  /\ wakeup_time \in Nat
  /\ lock \in Thread \cup {"free"}
  /\ timer_flag \in BOOLEAN
  /\ suspended \in BOOLEAN
  /\ cancel \in BOOLEAN
  /\ epc \in EmulPC
  /\ op \in Op
  /\ cur \in Task \cup {NULL}
  /\ scanning \in BOOLEAN
  /\ scan_now \in Nat
  /\ scan_next \in Task \cup {NULL}
  /\ scan_stale \in BOOLEAN
  /\ outer \in Seq(Frame)
  /\ running \in Seq(Task)
  /\ tpc \in TimerPC
  /\ until \in Nat
  /\ sys_time \in Nat
  /\ seen \in Nat

Init ==
  /\ now = 0
  /\ tmDescList = <<>>
  /\ wakeup = [t \in Task |-> Uninit]
  /\ active = [t \in Task |-> FALSE]
  /\ extended = [t \in Task |-> FALSE]
  /\ tmWakeUp = [t \in Task |-> FALSE]
  /\ tmCount = [t \in Task |-> 0]
  /\ wakeup_time = wakeup_time_max
  /\ lock = "free"
  /\ timer_flag = FALSE
  /\ suspended = FALSE
  /\ cancel = FALSE
  /\ epc = "m68k"
  /\ op = "none"
  /\ cur = NULL
  /\ scanning = FALSE
  /\ scan_now = 0
  /\ scan_next = NULL
  /\ scan_stale = FALSE
  /\ outer = <<>>
  /\ running = <<>>
  /\ tpc = "top"
  /\ until = 0
  /\ sys_time = 0
  /\ seen = 0

-----------------------------------------------------------------------------
(* The descriptor list *)

Installed == {tmDescList[i] : i \in DOMAIN tmDescList}

\* find_desc succeeds
HasDesc(t) == t \in Installed

Position(t) == CHOOSE i \in DOMAIN tmDescList : tmDescList[i] = t

\* free_desc: the list without the descriptor of t
Unlinked(t) ==
  [i \in 1..(Len(tmDescList) - 1) |->
     IF i < Position(t) THEN tmDescList[i] ELSE tmDescList[i + 1]]

FirstDesc == IF tmDescList = <<>> THEN NULL ELSE Head(tmDescList)

\* desc->next, for a descriptor in the list
NextDesc(t) ==
  IF Position(t) < Len(tmDescList) THEN tmDescList[Position(t) + 1] ELSE NULL

\* The tasks that a loop over tmDescList finds active when qType says act
ActiveIn(act) == {t \in Installed : act[t]}

\* "Look for next task to be called and set wakeup_time"
Earliest(act) ==
  LET times == {wakeup_time_max} \cup {wakeup[t] : t \in ActiveIn(act)}
  IN  CHOOSE m \in times : \A x \in times : m <= x

\* Fault: a past deadline leaves a negative time
RemainingSigned(t) == wakeup[t] - now

\* timer_sub_time, timer_host2mac_time: no time remains of a past deadline
Remaining(t) == IF wakeup[t] > now THEN wakeup[t] - now ELSE 0

\* timer_mac2host_time(ReadMacInt16(tm + tmCount)): tmCount is 32 bits wide
SavedDelay(t) == IF tmCount[t] = 0 THEN 0 ELSE HighHalfDelay

\* What the wakeup field of t's descriptor may read as
WakeupRead(t) == IF wakeup[t] = Uninit THEN Garbage ELSE {wakeup[t]}

-----------------------------------------------------------------------------
(* Traps: 68k code at main level, or a TimeTask, calls them *)

\* Fault: InsTime masks qType with 0x9fff
KeepActive(t) == active

\* InsTime masks qType with 0x1fff
ClearActive(t) == [active EXCEPT ![t] = FALSE]

\* InsTime or InsXTime (x).  It clears the active bit; a task that is
\* installed already keeps its descriptor.
InsTime(t, x) ==
  /\ epc = "m68k"
  /\ extended' = [extended EXCEPT ![t] = x]
  /\ active' = ClearActive(t)
  /\ IF HasDesc(t)
     THEN UNCHANGED descVars
     ELSE /\ tmDescList' = <<t>> \o tmDescList
          /\ wakeup' = [wakeup EXCEPT ![t] = Uninit]
  /\ UNCHANGED <<now, tmWakeUp, tmCount, scanVars, emulVars, timerVars, sharedVars>>

\* PrimeTime up to pthread_mutex_lock: the descriptor gets its wakeup time
PrimeTime(t, time) ==
  LET continue == extended[t] /\ tmWakeUp[t]
      delay == IF continue /\ time = 0 THEN SavedDelay(t) ELSE time
      bases == IF continue THEN WakeupRead(t) ELSE {now}
  IN  /\ epc = "m68k"
      /\ HasDesc(t)
      /\ \E base \in bases :
           /\ base + delay <= MaxWakeup
           /\ wakeup' = [wakeup EXCEPT ![t] = base + delay]
      /\ tmWakeUp' = [tmWakeUp EXCEPT ![t] = @ \/ extended[t]]
      /\ epc' = "lock"
      /\ op' = "PrimeTime"
      /\ cur' = t
      /\ UNCHANGED <<now, tmDescList, active, extended, tmCount, scanVars,
                     timerVars, sharedVars>>

\* A TimerInterrupt, the innermost or a suspended one, goes on to t's descriptor
IsNext(t) ==
  \/ scanning /\ t = scan_next
  \/ \E i \in DOMAIN outer : t = outer[i].next

\* RmvTime up to pthread_mutex_lock
RmvTime(t) ==
  /\ epc = "m68k"
  /\ HasDesc(t)
  /\ IsNext(t) => RemovesNext
  /\ epc' = "lock"
  /\ op' = "RmvTime"
  /\ cur' = t
  /\ UNCHANGED <<now, macVars, descVars, scanVars, timerVars, sharedVars>>

\* 68k code clears the tmWakeUp field of its own TMTask
ClearTmWakeUp(t) ==
  /\ epc = "m68k"
  /\ tmWakeUp[t]
  /\ tmWakeUp' = [tmWakeUp EXCEPT ![t] = FALSE]
  /\ UNCHANGED <<now, active, extended, tmCount, descVars, scanVars, emulVars,
                 timerVars, sharedVars>>

\* TimerReset: the Mac is reset; wakeup_time stays as it is
TimerReset ==
  /\ epc = "m68k"
  /\ ~scanning
  /\ tmDescList' = <<>>
  /\ wakeup' = [t \in Task |-> Uninit]
  /\ UNCHANGED <<now, macVars, scanVars, emulVars, timerVars, sharedVars>>

-----------------------------------------------------------------------------
(* The change of wakeup_time that PrimeTime, RmvTime and TimerInterrupt end with *)

\* Fault: does not wait for the lock
TakeWakeupTime ==
  /\ epc = "lock"
  /\ lock' = "emul"
  /\ epc' = "suspend"
  /\ UNCHANGED <<now, macVars, descVars, scanVars, op, cur, timerVars,
                 wakeup_time, timer_flag, suspended, cancel>>

\* pthread_mutex_lock(&wakeup_time_lock)
LockWakeupTime ==
  /\ epc = "lock"
  /\ lock = "free"
  /\ lock' = "emul"
  /\ epc' = "suspend"
  /\ UNCHANGED <<now, macVars, descVars, scanVars, op, cur, timerVars,
                 wakeup_time, timer_flag, suspended, cancel>>

\* timer_thread_suspend returns: the timer thread is in sigsuspend
SuspendTimer ==
  /\ epc = "suspend"
  /\ suspended' = TRUE
  /\ epc' = "update"
  /\ UNCHANGED <<now, macVars, descVars, scanVars, op, cur, timerVars,
                 wakeup_time, lock, timer_flag, cancel>>

UpdatePrimeTime ==
  /\ op = "PrimeTime"
  /\ active' = [active EXCEPT ![cur] = TRUE]
  /\ wakeup_time' = Earliest(active')
  /\ UNCHANGED tmCount

UpdateRmvTime ==
  /\ op = "RmvTime"
  /\ active' = [active EXCEPT ![cur] = FALSE]
  /\ IF active[cur]
     THEN /\ wakeup_time' = Earliest(active')
          /\ tmCount' = [tmCount EXCEPT ![cur] = Remaining(cur)]
     ELSE /\ tmCount' = [tmCount EXCEPT ![cur] = 0]
          /\ UNCHANGED wakeup_time

\* Fault: TimerInterrupt leaves wakeup_time as timer_func has reset it
KeepWakeupTime ==
  /\ op = "TimerInterrupt"
  /\ UNCHANGED <<wakeup_time, active, tmCount>>

UpdateTimerInterrupt ==
  /\ op = "TimerInterrupt"
  /\ wakeup_time' = Earliest(active)
  /\ UNCHANGED <<active, tmCount>>

\* The body between timer_thread_suspend and pthread_mutex_unlock
Update ==
  /\ epc = "update"
  /\ UpdatePrimeTime \/ UpdateRmvTime \/ UpdateTimerInterrupt
  /\ epc' = "unlock"
  /\ UNCHANGED <<now, extended, tmWakeUp, descVars, scanVars, op, cur, timerVars,
                 lock, timer_flag, suspended, cancel>>

\* pthread_mutex_unlock(&wakeup_time_lock)
UnlockWakeupTime ==
  /\ epc = "unlock"
  /\ lock' = "free"
  /\ epc' = "resume"
  /\ UNCHANGED <<now, macVars, descVars, scanVars, op, cur, timerVars,
                 wakeup_time, timer_flag, suspended, cancel>>

\* Fault: the signals do not interrupt the sleep
Uninterrupted(pc) == pc

\* The signals make a sleeping timer thread leave clock_nanosleep
Interrupted(pc) == IF pc = "sleep" THEN "woken" ELSE pc

\* free_desc: a saved pointer to the descriptor of cur is stale now
FreedIn(frame) == [frame EXCEPT !.stale = @ \/ frame.next = cur]

\* RmvTime frees the descriptor
RmvTimeReturns ==
  /\ tmDescList' = Unlinked(cur)
  /\ wakeup' = [wakeup EXCEPT ![cur] = Uninit]
  /\ scan_stale' = (scan_stale \/ (scanning /\ cur = scan_next))
  /\ outer' = [i \in DOMAIN outer |-> FreedIn(outer[i])]
  /\ UNCHANGED <<scanning, scan_now, scan_next>>

\* TimerInterrupt returns, to the TimeTask it has interrupted if there is one
TimerInterruptReturns ==
  /\ IF outer = <<>>
     THEN /\ scanning' = FALSE
          /\ UNCHANGED <<scan_now, scan_next, scan_stale, outer>>
     ELSE /\ scan_now' = Head(outer).now
          /\ scan_next' = Head(outer).next
          /\ scan_stale' = Head(outer).stale
          /\ outer' = Tail(outer)
          /\ UNCHANGED scanning
  /\ UNCHANGED descVars

\* timer_thread_resume, and the operation returns.
ResumeTimer ==
  /\ epc = "resume"
  /\ suspended' = FALSE
  /\ tpc' = Interrupted(tpc)
  /\ until' = IF tpc' = tpc THEN until ELSE 0
  /\ \/ op = "PrimeTime" /\ UNCHANGED <<descVars, scanVars>>
     \/ op = "RmvTime" /\ RmvTimeReturns
     \/ op = "TimerInterrupt" /\ TimerInterruptReturns
  /\ epc' = "m68k"
  /\ op' = "none"
  /\ cur' = NULL
  /\ UNCHANGED <<now, macVars, running, sys_time, seen, wakeup_time, lock,
                 timer_flag, cancel>>

-----------------------------------------------------------------------------
(* TimerInterrupt *)

\* M68K_EMUL_OP_IRQ finds INTFLAG_TIMER, clears it and calls TimerInterrupt,
\* at main level or in a TimeTask that has opened the interrupt mask
TakeInterrupt ==
  /\ epc = "m68k"
  /\ timer_flag
  /\ IF scanning
     THEN /\ Len(outer) < MaxNested
          /\ outer' = <<[now |-> scan_now, next |-> scan_next, stale |-> scan_stale]>> \o outer
     ELSE UNCHANGED outer
  /\ timer_flag' = FALSE
  /\ scanning' = TRUE
  /\ scan_now' = now
  /\ scan_next' = FirstDesc
  /\ scan_stale' = FALSE
  /\ epc' = "scan"
  /\ UNCHANGED <<now, macVars, descVars, running, op, cur, timerVars,
                 wakeup_time, lock, suspended, cancel>>

\* Fault: rounds the clock up
ExpiredEarly(t) == active[t] /\ wakeup[t] <= scan_now + 1

Expired(t) == active[t] /\ wakeup[t] <= scan_now

\* One descriptor: an expired task becomes inactive and its TimeTask is called
ScanDesc ==
  /\ epc = "scan"
  /\ scan_next # NULL
  /\ ~scan_stale
  /\ scan_next' = NextDesc(scan_next)
  /\ IF Expired(scan_next)
     THEN /\ active' = [active EXCEPT ![scan_next] = FALSE]
          /\ running' = <<scan_next>> \o running
          /\ epc' = "m68k"
     ELSE UNCHANGED <<active, running, epc>>
  /\ UNCHANGED <<now, extended, tmWakeUp, tmCount, descVars, scanning, scan_now,
                 scan_stale, outer, op, cur, timerVars, sharedVars>>

\* One descriptor that was freed: whatever the freed memory holds is followed
ScanFreedDesc ==
  /\ epc = "scan"
  /\ scan_stale
  /\ scan_stale' = FALSE
  /\ \/ /\ epc' = "crashed"
        /\ UNCHANGED scan_next
     \/ /\ scan_next' \in Installed \cup {NULL}
        /\ UNCHANGED epc
  /\ UNCHANGED <<now, macVars, descVars, scanning, scan_now, outer, running, op, cur,
                 timerVars, sharedVars>>

\* The TimeTask returns to TimerInterrupt
TimeTaskReturns ==
  /\ epc = "m68k"
  /\ scanning
  /\ running' = Tail(running)
  /\ epc' = "scan"
  /\ UNCHANGED <<now, macVars, descVars, scanning, scan_now, scan_next, scan_stale,
                 outer, op, cur, timerVars, sharedVars>>

\* The end of the list: TimerInterrupt goes on to recompute wakeup_time
ScanDone ==
  /\ epc = "scan"
  /\ scan_next = NULL
  /\ ~scan_stale
  /\ epc' = "lock"
  /\ op' = "TimerInterrupt"
  /\ UNCHANGED <<now, macVars, descVars, scanVars, cur, timerVars, sharedVars>>

-----------------------------------------------------------------------------
(* TimerExit *)

\* timer_thread_kill: cancel the thread and join it
TimerExit ==
  /\ epc = "m68k"
  /\ ~scanning
  /\ cancel' = TRUE
  /\ epc' = "join"
  /\ UNCHANGED <<now, macVars, descVars, scanVars, op, cur, timerVars,
                 wakeup_time, lock, timer_flag, suspended>>

JoinTimer ==
  /\ epc = "join"
  /\ tpc = "done"
  /\ epc' = "exited"
  /\ UNCHANGED <<now, macVars, descVars, scanVars, op, cur, timerVars, sharedVars>>

-----------------------------------------------------------------------------
(* The timer thread: timer_func *)

TimerRuns == ~suspended

\* The loop condition, then clock_nanosleep is given the value of wakeup_time
TimerSleep ==
  /\ TimerRuns
  /\ tpc = "top"
  /\ IF cancel
     THEN tpc' = "done" /\ UNCHANGED until
     ELSE tpc' = "sleep" /\ until' = wakeup_time
  /\ UNCHANGED <<now, macVars, descVars, scanVars, emulVars, sys_time, seen, sharedVars>>

\* Fault: the thread is not cancelled in clock_nanosleep
TimerWakeLate ==
  /\ TimerRuns
  /\ tpc = "sleep"
  /\ until <= now /\ tpc' = "woken"
  /\ until' = 0
  /\ UNCHANGED <<now, macVars, descVars, scanVars, emulVars, sys_time, seen, sharedVars>>

\* clock_nanosleep returns, or the thread is cancelled in it
TimerWake ==
  /\ TimerRuns
  /\ tpc = "sleep"
  /\ \/ until <= now /\ tpc' = "woken"
     \/ cancel /\ tpc' = "done"
  /\ until' = 0
  /\ UNCHANGED <<now, macVars, descVars, scanVars, emulVars, sys_time, seen, sharedVars>>

\* timer_current_time; timer_cmp_time starts to load wakeup_time
TimerSample ==
  /\ TimerRuns
  /\ tpc = "woken"
  /\ sys_time' = now
  /\ seen' = wakeup_time
  /\ tpc' = "compare"
  /\ UNCHANGED <<now, macVars, descVars, scanVars, emulVars, until, sharedVars>>

\* The comparison.  If wakeup_time has changed since the first load, tv_sec and
\* tv_nsec may come from different values and either outcome is possible.
TimerCompare ==
  /\ TimerRuns
  /\ tpc = "compare"
  /\ \/ (seen < sys_time \/ seen # wakeup_time) /\ tpc' = "lock"
     \/ (seen >= sys_time \/ seen # wakeup_time) /\ tpc' = "top"
  /\ sys_time' = 0
  /\ seen' = 0
  /\ UNCHANGED <<now, macVars, descVars, scanVars, emulVars, until, sharedVars>>

TimerLock ==
  /\ TimerRuns
  /\ tpc = "lock"
  /\ lock = "free"
  /\ lock' = "timer"
  /\ tpc' = "expire"
  /\ UNCHANGED <<now, macVars, descVars, scanVars, emulVars, until, sys_time, seen,
                 wakeup_time, timer_flag, suspended, cancel>>

\* wakeup_time = wakeup_time_max; pthread_mutex_unlock
TimerExpire ==
  /\ TimerRuns
  /\ tpc = "expire"
  /\ wakeup_time' = wakeup_time_max
  /\ lock' = "free"
  /\ tpc' = "setflag"
  /\ UNCHANGED <<now, macVars, descVars, scanVars, emulVars, until, sys_time, seen,
                 timer_flag, suspended, cancel>>

\* SetInterruptFlag(INTFLAG_TIMER); TriggerInterrupt()
TimerSetFlag ==
  /\ TimerRuns
  /\ tpc = "setflag"
  /\ timer_flag' = TRUE
  /\ tpc' = "top"
  /\ UNCHANGED <<now, macVars, descVars, scanVars, emulVars, until, sys_time, seen,
                 wakeup_time, lock, suspended, cancel>>

-----------------------------------------------------------------------------

Tick ==
  /\ now < MaxTime
  /\ now' = now + 1
  /\ UNCHANGED <<macVars, descVars, scanVars, emulVars, timerVars, sharedVars>>

\* The process has ended
Stopped ==
  /\ epc \in {"exited", "crashed"}
  /\ UNCHANGED vars

Trap ==
  \/ \E t \in Task : \/ \E x \in InsKinds : InsTime(t, x)
                     \/ \E time \in Delay : PrimeTime(t, time)
                     \/ RmvTime(t)
                     \/ ClearTmWakeUp(t)
  \/ TimerReset
  \/ TimerExit

Locked ==
  \/ LockWakeupTime \/ SuspendTimer \/ Update \/ UnlockWakeupTime \/ ResumeTimer

Interrupt ==
  \/ TakeInterrupt \/ ScanDesc \/ ScanFreedDesc \/ TimeTaskReturns \/ ScanDone

TimerThread ==
  \/ TimerSleep \/ TimerWake \/ TimerSample \/ TimerCompare
  \/ TimerLock \/ TimerExpire \/ TimerSetFlag

Next == Trap \/ Locked \/ Interrupt \/ JoinTimer \/ TimerThread \/ Tick \/ Stopped

Spec == Init /\ [][Next]_vars

(***************************************************************************)
(* Fairness.  Both threads are scheduled.  The timer thread is stopped     *)
(* again and again while 68k code primes tasks, and wakeup_time_lock is    *)
(* contended, hence strong fairness of its steps.  The CPU loop tests for  *)
(* interrupts after every instruction, so 68k code cannot keep a pending   *)
(* one off for ever by calling traps, and a TimeTask returns.  Nothing     *)
(* makes 68k code call a trap.                                             *)
(***************************************************************************)
Fairness ==
  /\ SF_vars(TimerThread)
  /\ SF_vars(TimerLock)
  /\ WF_vars(Locked)
  /\ SF_vars(LockWakeupTime)
  /\ SF_vars(TakeInterrupt)
  /\ SF_vars(TimeTaskReturns)
  /\ WF_vars(ScanDesc \/ ScanFreedDesc \/ ScanDone)
  /\ WF_vars(JoinTimer)

FairSpec == Spec /\ Fairness

-----------------------------------------------------------------------------
(* Safety *)

\* The emulator thread is on its way to recompute wakeup_time: PrimeTime has
\* given a task its wakeup time, or TimerInterrupt runs.
Recomputing ==
  \/ scanning
  \/ op = "PrimeTime" /\ epc \in {"lock", "suspend", "update"}

\* An interrupt is under way: INTFLAG_TIMER is set, or the timer thread has
\* reset wakeup_time and is about to set it.
Signalled == timer_flag \/ tpc = "setflag"

\* No task is forgotten (timer.cpp: timer_func resets wakeup_time to
\* wakeup_time_max without looking at the tasks, possibly just after PrimeTime
\* has written it).  Unless an interrupt is under way or wakeup_time is about to
\* be recomputed, the timer thread is to wake no later than any active task.
NoLostWakeup ==
  Recomputing \/ Signalled \/ \A t \in ActiveIn(active) : wakeup_time <= wakeup[t]

\* The signal never stops the timer thread inside its critical section, where
\* the emulator thread could wait for wakeup_time_lock for ever (RmvTime,
\* PrimeTime and TimerInterrupt lock it before timer_thread_suspend), and
\* timer_func does not write wakeup_time while one of them recomputes it.
NoSuspendedOwner ==
  /\ suspended => lock # "timer"
  /\ epc \in {"suspend", "update", "unlock"} => lock = "emul"
  /\ tpc = "expire" => lock = "timer"

\* The wakeup field of a new TMDesc is uninitialized (InsTime); no loop over
\* tmDescList compares it, because only PrimeTime makes a task active.
ActiveIsScheduled == \A t \in ActiveIn(active) : wakeup[t] # Uninit

\* TimerInterrupt's loop stands at the TMDesc of an installed task ("Array of
\* additional info for each installed TMTask").
ScanSeesInstalled == scanning => ~scan_stale /\ scan_next \in Installed \cup {NULL}

\* A task with remaining time that RmvTime stopped and InsXTime installed again
\* continues its delay when PrimeTime(0) starts it: it is due when the time
\* that RmvTime saved in tmCount has passed, and not later.
ContinuesDelay ==
  [][\A t \in Task :
       /\ PrimeTime(t, 0)
       /\ extended[t] /\ tmWakeUp[t] /\ wakeup[t] = Uninit /\ tmCount[t] > 0
       => wakeup'[t] <= now + tmCount[t]]_vars

-----------------------------------------------------------------------------
(* Liveness *)

\* A task that is past its wakeup time is called, or 68k code stops it.
DueTaskRuns ==
  \A t \in Task :
    (t \in ActiveIn(active) /\ wakeup[t] < now)
      ~> (t \notin ActiveIn(active) \/ wakeup[t] >= now \/ epc \in {"join", "exited", "crashed"})

\* TimerExit returns: the timer thread notices timer_thread_cancel in its loop
\* or in clock_nanosleep.
ExitReturns == (epc = "join") ~> (epc = "exited")

-----------------------------------------------------------------------------
(* What 68k code sees of it: module TimerService *)

Armed == [t \in Task |-> IF t \in ActiveIn(active) THEN wakeup[t] ELSE Uninit]

Service == INSTANCE TimerService WITH
  Off <- Uninit, clock <- now, armed <- Armed

\* The Time Manager calls a TimeTask only after PrimeTime armed it, only at or
\* after its wakeup time and once each time it is armed; of TimeTasks inside each
\* other, the innermost returns first.
ServiceSpec == Service!Spec

-----------------------------------------------------------------------------
(* What the signals make of the timer thread: module StoppableThread *)

\* Where the thread is, but for its being asleep
TimerControl == <<Interrupted(tpc), sys_time, seen>>

Stoppable ==
  INSTANCE StoppableThread
  WITH Control <- TimerPC \X Nat \X Nat,
       stopped <- suspended, asleep <- (tpc = "sleep"), control <- TimerControl

\* The timer thread and its suspensions are as the signals make them: it is
\* stopped and resumed by turns, does not move in between, whatever the
\* emulator thread does, and is not asleep when it runs again.
StoppableSpec == Stoppable!Spec
=============================================================================
