---------------------------- MODULE IrqHandshake ----------------------------
(***************************************************************************)
(* What a host thread that waits for its own interrupt relies on: the      *)
(* streaming thread of the audio driver and the reception thread of the    *)
(* Ethernet driver set an interrupt flag, call TriggerInterrupt and wait   *)
(* for a semaphore, which the interrupt handler on the emulator thread     *)
(* posts when it is done.                                                  *)
(*                                                                         *)
(* Thread and handler take turns.  A handler runs once for every time the  *)
(* thread asks for it, it never runs while the thread is busy, and no      *)
(* acknowledgement is left over for the next time.                         *)
(***************************************************************************)

VARIABLE turn  \* whose turn it is

Turn == {"host", "raised", "serving", "done"}

Init == turn = "host"

\* The thread sets the interrupt flag
Raise == turn = "host" /\ turn' = "raised"

\* The emulator thread clears the flag and enters the handler
Serve == turn = "raised" /\ turn' = "serving"

\* The handler posts the semaphore
Acknowledge == turn = "serving" /\ turn' = "done"

\* The thread returns from its wait
Proceed == turn = "done" /\ turn' = "host"

Next == Raise \/ Serve \/ Acknowledge \/ Proceed

Spec == Init /\ [][Next]_turn
=============================================================================
