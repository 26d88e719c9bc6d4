------------------------------ MODULE PosixSem ------------------------------
(***************************************************************************)
(* The semaphores of Unix/posix_sem.cpp, which take the place of the       *)
(* host's where it has no sem_init: a mutex, a value and a number of       *)
(* waiting threads.                                                        *)
(*                                                                         *)
(* The model is of one semaphore and the two threads that use it the way   *)
(* timer_thread_suspend and its handler do, and the streaming and the      *)
(* reception thread and their interrupts: one thread asks for something    *)
(* and calls sem_wait, the other one does it and calls sem_post.  sem_post *)
(* does not lock the mutex, so that the statements of both are             *)
(* interleaved.  That an increment of one and a decrement of the other may *)
(* get lost besides, as they are not atomic, is left out.                  *)
(***************************************************************************)
EXTENDS Naturals

CONSTANT MaxAsked  \* bound: how often the first thread asks

VARIABLES
  sem_lock,     \* the mutex is locked
  sem_value,
  sem_waiting,
  wait,         \* the statement of sem_wait the first thread is at, or "idle"
  post,         \* the statement of sem_post the second thread is at, or "idle"
  asked,        \* how often the first thread has asked
  posted,       \* how often sem_post has been called
  returned      \* how often sem_wait has returned

sem == <<sem_lock, sem_value, sem_waiting>>
counts == <<asked, posted, returned>>
vars == <<sem, wait, post, counts>>

\* sem_init with the value 0, as every caller in the repository has it
Init ==
  /\ sem_lock = FALSE /\ sem_value = 0 /\ sem_waiting = 0
  /\ wait = "idle" /\ post = "idle"
  /\ asked = 0 /\ posted = 0 /\ returned = 0

\* The first thread asks for what the second one is to acknowledge
Ask ==
  /\ wait = "idle" /\ asked < MaxAsked
  /\ asked' = asked + 1 /\ wait' = "lock"
  /\ UNCHANGED <<sem, post, posted, returned>>

\* pthread_mutex_lock
Lock ==
  /\ wait = "lock" /\ ~sem_lock
  /\ sem_lock' = TRUE /\ wait' = "count"
  /\ UNCHANGED <<sem_value, sem_waiting, post, counts>>

Count ==
  /\ wait = "count"
  /\ sem_waiting' = sem_waiting + 1 /\ wait' = "test"
  /\ UNCHANGED <<sem_lock, sem_value, post, counts>>

Returns ==
  wait' = "idle" /\ returned' = returned + 1 /\ UNCHANGED <<asked, posted>>

\* The value is positive: sem_wait returns with the mutex locked, and the
\* thread still counts as waiting
Take ==
  /\ wait = "test" /\ sem_value > 0
  /\ sem_value' = sem_value - 1 /\ Returns
  /\ UNCHANGED <<sem_lock, sem_waiting, post>>

\* The value is zero: it waits for another one with the mutex locked.  The
\* call of nanosleep fails, its parameters being swapped
TestZero ==
  /\ wait = "test" /\ sem_value = 0
  /\ wait' = "spin"
  /\ UNCHANGED <<sem, post, counts>>

\* sem_post has set it; sem_wait unlocks the mutex and leaves the value alone
SpinEnds ==
  /\ wait = "spin" /\ sem_value # 0
  /\ sem_lock' = FALSE /\ Returns
  /\ UNCHANGED <<sem_value, sem_waiting, post>>

\* The second thread has done what was asked and calls sem_post, which tests
\* sem_waiting without the mutex
Post ==
  /\ post = "idle" /\ posted < asked
  /\ posted' = posted + 1
  /\ post' = IF sem_waiting = 0 THEN "add" ELSE "release"
  /\ UNCHANGED <<sem, wait, asked, returned>>

\* A thread waits: it is no longer counted, and the value incremented
Release ==
  /\ post = "release"
  /\ sem_waiting' = sem_waiting - 1 /\ post' = "released"
  /\ UNCHANGED <<sem_lock, sem_value, wait, counts>>

Released ==
  /\ post = "released"
  /\ sem_value' = sem_value + 1 /\ post' = "idle"
  /\ UNCHANGED <<sem_lock, sem_waiting, wait, counts>>

\* None waits: the value is incremented and the mutex unlocked, which this
\* thread has not locked
Add ==
  /\ post = "add"
  /\ sem_value' = sem_value + 1 /\ post' = "unlock"
  /\ UNCHANGED <<sem_lock, sem_waiting, wait, counts>>

\* The unlocking of a mutex that no one or the other thread has locked is
\* undefined: it is refused or done
Unlock ==
  /\ post = "unlock"
  /\ sem_lock' \in {sem_lock, FALSE} /\ post' = "idle"
  /\ UNCHANGED <<sem_value, sem_waiting, wait, counts>>

\* The users have done with it and no thread counts as waiting, so that
\* sem_destroy succeeds; sem_init makes a new semaphore of it
DestroyAndInit ==
  /\ wait = "idle" /\ post = "idle" /\ asked = posted /\ sem_waiting = 0
  /\ sem_lock' = FALSE /\ sem_value' = 0
  /\ UNCHANGED <<sem_waiting, wait, post, counts>>

SemWait == Lock \/ Count \/ Take \/ TestZero \/ SpinEnds
SemPost == Post \/ Release \/ Released \/ Add \/ Unlock

Next == Ask \/ SemWait \/ SemPost \/ DestroyAndInit

Spec == Init /\ [][Next]_vars

(***************************************************************************)
(* A semaphore with the value 0: sem_wait returns no more often than       *)
(* sem_post has been called.  The comment at the head of posix_sem.cpp     *)
(* says of the rewritten semaphores that they seem to be working.          *)
(***************************************************************************)
WaitsForPost == returned <= posted
=============================================================================
