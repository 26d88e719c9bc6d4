---------------------------- MODULE SerialService ----------------------------
(***************************************************************************)
(* What the serial driver promises the Device Manager: a request is        *)
(* completed (IODone) once, after the host has performed it, or it is      *)
(* aborted, which only happens inside a call of KillIO.  When KillIO       *)
(* returns, no request that the host has not performed is left on its      *)
(* port, whatever the I/O threads were doing when it was called.  Module   *)
(* Serial implements it.                                                   *)
(***************************************************************************)

CONSTANT Channel  \* a port has one for reading and one for writing

VARIABLES
  status,   \* of the request on each channel
  killing   \* the channels of the port that KillIO is called for

serviceVars == <<status, killing>>

Init ==
  /\ status = [c \in Channel |-> "idle"]
  /\ killing = {}

\* The request on c goes from one status to another
Becomes(c, from, to) ==
  /\ status[c] = from
  /\ status' = [status EXCEPT ![c] = to]
  /\ UNCHANGED killing

\* SerialPrime; KillIO does not return to 68k code before it is done
Issue(c) == killing = {} /\ Becomes(c, "idle", "issued")

\* The host reads or writes
Perform(c) == Becomes(c, "issued", "performed")

\* IODone, from 68k code
Complete(c) == killing = {} /\ Becomes(c, "performed", "idle")

\* The result is abortErr, and IODone is not called
Abort(c) == c \in killing /\ Becomes(c, "performed", "idle")

KillIO ==
  /\ killing = {}
  /\ killing' \in (SUBSET Channel) \ {{}}
  /\ UNCHANGED status

KillReturns ==
  /\ \A c \in killing : status[c] # "issued"
  /\ killing' = {}
  /\ UNCHANGED status

Next ==
  \/ \E c \in Channel : Issue(c) \/ Perform(c) \/ Complete(c) \/ Abort(c)
  \/ KillIO \/ KillReturns

Spec == Init /\ [][Next]_serviceVars
=============================================================================
