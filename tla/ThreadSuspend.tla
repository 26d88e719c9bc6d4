--------------------------- MODULE ThreadSuspend ---------------------------
(***************************************************************************)
(* How the emulator thread stops and restarts the timer thread (timer.cpp, *)
(* timer_thread_suspend and timer_thread_resume).                          *)
(*                                                                         *)
(* SIGSUSPEND's handler posts suspend_ack_sem and waits in sigsuspend for  *)
(* SIGRESUME.  Both are real-time signals, so they are queued.  sa_mask    *)
(* keeps SIGRESUME pending from the entry of the handler until sigsuspend  *)
(* unblocks it.  Both signals end a clock_nanosleep, which is never        *)
(* restarted.  suspend_count_lock is left out: only the emulator thread    *)
(* takes it.                                                               *)
(***************************************************************************)
EXTENDS Naturals

CONSTANT MaxSteps   \* bound: steps of its own the timer thread takes

ASSUME MaxStepsAssumption == MaxSteps \in Nat

VARIABLES
  epc,              \* control point of the emulator thread
  suspend_count,
  suspend_ack_sem,
  sigsuspend,       \* SIGSUSPENDs pending for the timer thread
  sigresume,        \* SIGRESUMEs pending for the timer thread
  handler,          \* control point of sigsuspend_handler, or "none"
  asleep,           \* the thread was in clock_nanosleep when last it ran
  steps             \* steps of its own that the timer thread has taken

emulVars == <<epc, suspend_count>>
threadVars == <<asleep, steps>>
vars == <<emulVars, suspend_ack_sem, sigsuspend, sigresume, handler, threadVars>>

\* Types.  The signals are queued and the semaphore counts, but neither ever
\* holds more than one.
TypeOK ==
  /\ epc \in {"run", "wait_ack", "stopped"}
  /\ suspend_count \in {0, 1}
  /\ suspend_ack_sem \in {0, 1}
  /\ sigsuspend \in {0, 1}
  /\ sigresume \in {0, 1}
  /\ handler \in {"none", "post", "sigsuspend", "waiting", "return"}
  /\ asleep \in BOOLEAN
  /\ steps \in Nat

Init ==
  /\ epc = "run"
  /\ suspend_count = 0
  /\ suspend_ack_sem = 0
  /\ sigsuspend = 0
  /\ sigresume = 0
  /\ handler = "none"
  /\ asleep = FALSE
  /\ steps = 0

-----------------------------------------------------------------------------
(* The emulator thread *)

\* timer_thread_suspend up to sem_wait
KillSuspend ==
  /\ epc = "run"
  /\ suspend_count = 0
  /\ suspend_count' = suspend_count + 1
  /\ sigsuspend' = sigsuspend + 1
  /\ epc' = "wait_ack"
  /\ UNCHANGED <<suspend_ack_sem, sigresume, handler, threadVars>>

\* Fault: sem_trywait, with its result ignored
TryAck ==
  /\ epc = "wait_ack"
  /\ suspend_ack_sem' = suspend_ack_sem - 1
  /\ epc' = "stopped"
  /\ UNCHANGED <<suspend_count, sigsuspend, sigresume, handler, threadVars>>

\* Fault: does not wait for the acknowledgement
SkipAck ==
  /\ epc = "wait_ack"
  /\ epc' = "stopped"
  /\ UNCHANGED <<suspend_count, suspend_ack_sem, sigsuspend, sigresume, handler, threadVars>>

\* sem_wait returns
WaitAck ==
  /\ epc = "wait_ack"
  /\ suspend_ack_sem > 0
  /\ suspend_ack_sem' = suspend_ack_sem - 1
  /\ epc' = "stopped"
  /\ UNCHANGED <<suspend_count, sigsuspend, sigresume, handler, threadVars>>

\* timer_thread_resume: it does not wait until the thread runs
KillResume ==
  /\ epc = "stopped"
  /\ suspend_count = 1
  /\ suspend_count' = 0
  /\ sigresume' = sigresume + 1
  /\ epc' = "run"
  /\ UNCHANGED <<suspend_ack_sem, sigsuspend, handler, threadVars>>

-----------------------------------------------------------------------------
(* The timer thread *)

\* Fault: SA_NODEFER
SuspendBlockedInWait == handler = "waiting"

\* The kernel blocks a signal while its own handler runs
SuspendBlocked == handler # "none"

\* Fault: the handler's sa_mask is empty
ResumeNeverBlocked == FALSE

\* sigsuspend_action.sa_mask, until sigsuspend installs suspend_handler_mask
ResumeBlocked == handler \in {"post", "sigsuspend", "return"}

\* Fault: the handler waits before it posts
DeliverSuspendNoPost ==
  /\ sigsuspend > 0
  /\ ~SuspendBlocked
  /\ sigsuspend' = sigsuspend - 1
  /\ handler' = "sigsuspend"
  /\ UNCHANGED <<emulVars, suspend_ack_sem, sigresume, threadVars>>

\* The timer thread enters sigsuspend_handler
DeliverSuspend ==
  /\ sigsuspend > 0
  /\ ~SuspendBlocked
  /\ sigsuspend' = sigsuspend - 1
  /\ handler' = "post"
  /\ UNCHANGED <<emulVars, suspend_ack_sem, sigresume, threadVars>>

\* sem_post(&suspend_ack_sem)
PostAck ==
  /\ handler = "post"
  /\ suspend_ack_sem' = suspend_ack_sem + 1
  /\ handler' = "sigsuspend"
  /\ UNCHANGED <<emulVars, sigsuspend, sigresume, threadVars>>

\* Fault: the handler does not wait
SigsuspendReturns ==
  /\ handler = "sigsuspend"
  /\ handler' = "return"
  /\ UNCHANGED <<emulVars, suspend_ack_sem, sigsuspend, sigresume, threadVars>>

\* sigsuspend unblocks SIGRESUME and waits
Sigsuspend ==
  /\ handler = "sigsuspend"
  /\ handler' = "waiting"
  /\ UNCHANGED <<emulVars, suspend_ack_sem, sigsuspend, sigresume, threadVars>>

\* sigresume_handler runs, and makes sigsuspend return
DeliverResume ==
  /\ sigresume > 0
  /\ ~ResumeBlocked
  /\ sigresume' = sigresume - 1
  /\ handler' = IF handler = "waiting" THEN "return" ELSE handler
  /\ UNCHANGED <<emulVars, suspend_ack_sem, sigsuspend, threadVars>>

\* sigsuspend_handler returns; clock_nanosleep fails with EINTR
HandlerReturns ==
  /\ handler = "return"
  /\ handler' = "none"
  /\ asleep' = FALSE
  /\ UNCHANGED <<emulVars, suspend_ack_sem, sigsuspend, sigresume, steps>>

\* A step of timer_func: it may call clock_nanosleep or return from it
Step ==
  /\ handler = "none"
  /\ steps < MaxSteps
  /\ steps' = steps + 1
  /\ asleep' \in BOOLEAN
  /\ UNCHANGED <<emulVars, suspend_ack_sem, sigsuspend, sigresume, handler>>

Emulator == KillSuspend \/ WaitAck \/ KillResume

Signals ==
  DeliverSuspend \/ PostAck \/ Sigsuspend \/ DeliverResume \/ HandlerReturns

Next == Emulator \/ Signals \/ Step

Spec == Init /\ [][Next]_vars

\* Signals are delivered, the handler runs, and the emulator thread, once it
\* has stopped the timer thread, does not fail to resume it.
Fairness == WF_vars(Signals) /\ WF_vars(WaitAck) /\ WF_vars(KillResume)

FairSpec == Spec /\ Fairness

-----------------------------------------------------------------------------

\* When timer_thread_suspend has returned, the timer thread is in the handler
\* and no SIGRESUME that would release it is pending ("Wait ... suspended
\* thread": sigsuspend_handler posts before it waits).
StoppedInHandler ==
  epc = "stopped" => handler \in {"sigsuspend", "waiting"} /\ sigresume = 0

\* No signal is lost and none is left over: the handler of the next
\* SIGSUSPEND cannot be released by an old SIGRESUME, although
\* timer_thread_resume does not wait for the thread to run.
ResumeMatches ==
  /\ sigresume <= 1
  /\ sigresume = 1 => handler \in {"sigsuspend", "waiting"}
  /\ sigsuspend + suspend_ack_sem <= 1
  /\ epc = "run" => suspend_ack_sem = 0 /\ sigsuspend = 0

\* timer_thread_suspend returns.
SuspendReturns == (epc = "wait_ack") ~> (epc = "stopped")

\* A resumed thread runs again, unless it is stopped once more.
ResumeWorks == (epc = "run" /\ handler # "none") ~> (handler = "none")

-----------------------------------------------------------------------------

\* The thread counts as stopped from the post of the acknowledgement that
\* timer_thread_suspend waits for until SIGRESUME is sent.
Stopped == epc = "stopped" \/ suspend_ack_sem > 0

\* A sleep that SIGSUSPEND has interrupted is over for the Time Manager when
\* SIGRESUME is sent.
Asleep == asleep /\ (handler = "none" \/ Stopped \/ handler = "post")

Stoppable ==
  INSTANCE StoppableThread
  WITH Control <- Nat, stopped <- Stopped, asleep <- Asleep, control <- steps

\* The signals implement a thread that can be stopped (timer.cpp,
\* timer_thread_suspend and timer_thread_resume).
StoppableSpec == Stoppable!Spec
=============================================================================
