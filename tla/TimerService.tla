---------------------------- MODULE TimerService ----------------------------
(***************************************************************************)
(* What the Time Manager promises to 68k code: a task that was armed with  *)
(* a wakeup time is called at most once, at or after that time, unless it  *)
(* is disarmed first.  A TimeTask may be interrupted by others, which      *)
(* return before it does.  Module TimeManager implements it.               *)
(***************************************************************************)
EXTENDS Naturals, Sequences

CONSTANTS
  Task,  \* the TMTasks
  Off    \* "not armed"

VARIABLES
  clock,    \* the host clock
  armed,    \* the wakeup time of each task, or Off
  running   \* the tasks whose TimeTasks run, the innermost first

serviceVars == <<clock, armed, running>>

Init ==
  /\ clock = 0
  /\ armed = [t \in Task |-> Off]
  /\ running = <<>>

\* PrimeTime, with any wakeup time: extended tasks may be late already
Arm(t) ==
  /\ armed'[t] \in Nat
  /\ armed' = [armed EXCEPT ![t] = armed'[t]]
  /\ UNCHANGED <<clock, running>>

\* RmvTime, or InsTime of an installed task
Disarm(t) ==
  /\ armed' = [armed EXCEPT ![t] = Off]
  /\ UNCHANGED <<clock, running>>

\* The Mac is reset
DisarmAll ==
  /\ armed' = [t \in Task |-> Off]
  /\ UNCHANGED <<clock, running>>

Call(t) ==
  /\ armed[t] # Off
  /\ armed[t] <= clock
  /\ armed' = [armed EXCEPT ![t] = Off]
  /\ running' = <<t>> \o running
  /\ UNCHANGED clock

Return ==
  /\ running # <<>>
  /\ running' = Tail(running)
  /\ UNCHANGED <<clock, armed>>

Advance ==
  /\ clock' = clock + 1
  /\ UNCHANGED <<armed, running>>

Next ==
  \/ \E t \in Task : Arm(t) \/ Disarm(t) \/ Call(t)
  \/ DisarmAll \/ Return \/ Advance

Spec == Init /\ [][Next]_serviceVars
=============================================================================
