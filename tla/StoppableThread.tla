-------------------------- MODULE StoppableThread --------------------------
(***************************************************************************)
(* A thread that is suspended and resumed: a stopped thread takes no step  *)
(* of its own, and a thread that was stopped in clock_nanosleep has left   *)
(* it when it runs again.  The interface of the Time Manager and the       *)
(* signals: module ThreadSuspend implements it, with signals, and the      *)
(* timer thread of module TimeManager does nothing that it does not allow. *)
(***************************************************************************)

CONSTANT Control  \* what a step of the thread's own may change

VARIABLES
  stopped,   \* has the thread been stopped?
  asleep,    \* is it in clock_nanosleep?
  control    \* where it is, but for that

threadVars == <<stopped, asleep, control>>

Init == ~stopped /\ ~asleep /\ control \in Control

Stop ==
  /\ ~stopped
  /\ stopped' = TRUE
  /\ UNCHANGED <<asleep, control>>

Continue ==
  /\ stopped
  /\ stopped' = FALSE
  /\ asleep' = FALSE
  /\ UNCHANGED control

Step ==
  /\ ~stopped
  /\ asleep' \in BOOLEAN
  /\ control' \in Control
  /\ UNCHANGED stopped

Next == Stop \/ Continue \/ Step

Spec == Init /\ [][Next]_threadVars
=============================================================================
