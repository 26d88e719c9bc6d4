---------------------------- MODULE SerialProofs ----------------------------
(***************************************************************************)
(* Proofs about Serial, for any number of ports.  Inv relates, for each    *)
(* channel, the driver's flags, the semaphore, the thread's control point, *)
(* the deferred task and the Device Manager's request, and for each port   *)
(* its memory, its threads and what the emulator thread does for it.       *)
(* From it follow the invariants of Serial, and that each step is a step   *)
(* of SerialService or one that the Device Manager does not see.           *)
(***************************************************************************)
EXTENDS Serial, TLAPS

\* The control points at which a thread works for a command
Working == {"io", "test_killed", "abort", "clear_pending", "set_done"}

Closing == {"join_in", "join_out", "dispose", "disposed"}

\* The command that the thread of c has been given, or will find
CommandInv(c) ==
  /\ done[c] => pending[c]
  /\ pending[c] => is_open[PortOf(c)] /\ ~quitting[PortOf(c)]
  /\ tpc[c] \in Working => pending[c] /\ ~done[c] /\ signal[c] = 0
  /\ tpc[c] = "woken" => \/ quitting[PortOf(c)]
                         \/ pending[c] /\ ~done[c] /\ signal[c] = 0
  /\ signal[c] > 0 => \/ quitting[PortOf(c)]
                      \/ pending[c] /\ ~done[c] /\ signal[c] = 1

\* The request of the Device Manager
RequestInv(c) ==
  /\ request[c] = "busy" <=>
       c \in dtq \/ (pending[c] /\ tpc[c] # "clear_pending")
  /\ c \in dtq => ~pending[c] /\ performed[c]
  /\ c \in dtq => is_open[PortOf(c)] /\ ~quitting[PortOf(c)]
  /\ tpc[c] \in {"test_killed", "abort", "set_done"} => performed[c]
  /\ done[c] => performed[c]
  /\ done[c] => serial_flag \/ irq \/ tpc[c] = "set_flag"

\* A command is only aborted while KillIO waits
KillInv(c) ==
  tpc[c] \in {"abort", "clear_pending"} => port = PortOf(c) /\ epc = "kill"

\* A port that is closed has no threads
StoppedInv(c) ==
  /\ ~is_open[PortOf(c)] /\ port # PortOf(c) => tpc[c] = "none" /\ signal[c] = 0
  /\ epc = "join_out" /\ c = In(port) => tpc[c] = "none" /\ signal[c] = 0
  /\ epc \in {"dispose", "disposed"} /\ port = PortOf(c) =>
       tpc[c] = "none" /\ signal[c] = 0

\* Opening and closing
PortInv(p) ==
  /\ is_open[p] /\ ~quitting[p] => dt_memory[p]
  /\ quitting[p] => ~is_open[p] \/ (port = p /\ epc \in Closing)
  /\ io_killed[p] => port = p /\ epc = "kill"

EmulInv ==
  /\ IF epc = "run" THEN port = NONE ELSE port \in Port
  /\ epc = "alloc" => ~is_open[port] /\ ~quitting[port]
  /\ epc = "kill" => is_open[port]
  /\ epc \in Closing => quitting[port]

Inv ==
  /\ TypeOK
  /\ EmulInv
  /\ \A c \in Channel :
       CommandInv(c) /\ RequestInv(c) /\ KillInv(c) /\ StoppedInv(c)
  /\ \A p \in Port : PortInv(p)

-----------------------------------------------------------------------------
(* The helpers on ports and channels *)

LEMMA Channels ==
  /\ \A c \in Channel : PortOf(c) \in Port
  /\ \A p \in Port : In(p) \in Channel /\ Out(p) \in Channel
  /\ \A p \in Port : PortOf(In(p)) = p /\ PortOf(Out(p)) = p /\ In(p) # Out(p)
  /\ \A c \in Channel : c = In(PortOf(c)) \/ c = Out(PortOf(c))
BY DEF Channel, PortOf, In, Out

\* What the disjuncts of Next are, one by one
LEMMA Steps ==
  ASSUME Next
  PROVE  \/ \E p \in Port : Open(p) \/ OpenFails(p) \/ KillIO(p) \/ Close(p)
         \/ \E c \in Channel :
              \/ Prime(c) \/ DeferredTask(c)
              \/ Wake(c) \/ TestQuitting(c) \/ Perform(c) \/ TestKilled(c)
              \/ Abort(c) \/ ClearPending(c) \/ SetDone(c) \/ SetFlag(c)
         \/ Allocated \/ OutOfMemory \/ KillWaits \/ KillDone
         \/ JoinIn \/ JoinOut \/ DisposePtr \/ Closed
         \/ TakeInterrupt \/ SerialInterrupt
BY DEF Next, Driver, Interrupt, ThreadRuns, Thread

-----------------------------------------------------------------------------
(* Type correctness *)

LEMMA TypeStep ==
  ASSUME TypeOK, EmulInv, [Next]_vars PROVE TypeOK'
<1> USE DEF TypeOK, EmulInv, ThreadPoint, EmulPoint, portVars, ioVars, macVars,
            emulVars, vars
<1>1. ASSUME NEW p \in Port, Open(p) PROVE TypeOK'
  BY <1>1, Channels, PortAssumption DEF Open, ForPort, MainLevel
<1>2. ASSUME NEW p \in Port, OpenFails(p) PROVE TypeOK'
  BY <1>2, Channels, PortAssumption DEF OpenFails, ForPort, MainLevel
<1>3. ASSUME NEW p \in Port, KillIO(p) PROVE TypeOK'
  BY <1>3, Channels, PortAssumption DEF KillIO, MainLevel
<1>4. ASSUME NEW p \in Port, Close(p) PROVE TypeOK'
  BY <1>4, Channels, PortAssumption DEF Close, StartClose, MainLevel
<1>5. ASSUME NEW d \in Channel, Prime(d) PROVE TypeOK'
  BY <1>5, Channels, PortAssumption DEF Prime, MainLevel
<1>6. ASSUME NEW d \in Channel, DeferredTask(d) PROVE TypeOK'
  BY <1>6, Channels, PortAssumption DEF DeferredTask, MainLevel
<1>7. ASSUME NEW d \in Channel, Wake(d) PROVE TypeOK'
  BY <1>7, Channels, PortAssumption DEF Wake, Goto, MainLevel
<1>8. ASSUME NEW d \in Channel, TestQuitting(d) PROVE TypeOK'
  BY <1>8, Channels, PortAssumption DEF TestQuitting, Goto, MainLevel
<1>9. ASSUME NEW d \in Channel, Perform(d) PROVE TypeOK'
  BY <1>9, Channels, PortAssumption DEF Perform, Goto, MainLevel
<1>10. ASSUME NEW d \in Channel, TestKilled(d) PROVE TypeOK'
  BY <1>10, Channels, PortAssumption DEF TestKilled, Goto, MainLevel
<1>11. ASSUME NEW d \in Channel, Abort(d) PROVE TypeOK'
  BY <1>11, Channels, PortAssumption DEF Abort, Goto, MainLevel
<1>12. ASSUME NEW d \in Channel, ClearPending(d) PROVE TypeOK'
  BY <1>12, Channels, PortAssumption DEF ClearPending, Goto, MainLevel
<1>13. ASSUME NEW d \in Channel, SetDone(d) PROVE TypeOK'
  BY <1>13, Channels, PortAssumption DEF SetDone, Goto, MainLevel
<1>14. ASSUME NEW d \in Channel, SetFlag(d) PROVE TypeOK'
  BY <1>14, Channels, PortAssumption DEF SetFlag, Goto, MainLevel
<1>15. CASE Allocated
  BY <1>15, Channels, PortAssumption DEF Allocated, MainLevel
<1>16. CASE OutOfMemory
  BY <1>16, Channels, PortAssumption DEF OutOfMemory, StartClose, MainLevel
<1>17. CASE KillWaits
  BY <1>17, Channels, PortAssumption DEF KillWaits, MainLevel
<1>18. CASE KillDone
  BY <1>18, Channels, PortAssumption DEF KillDone, MainLevel
<1>19. CASE JoinIn
  BY <1>19, Channels, PortAssumption DEF JoinIn, MainLevel
<1>20. CASE JoinOut
  BY <1>20, Channels, PortAssumption DEF JoinOut, MainLevel
<1>21. CASE DisposePtr
  BY <1>21, Channels, PortAssumption DEF DisposePtr, MainLevel
<1>22. CASE Closed
  BY <1>22, Channels, PortAssumption DEF Closed, MainLevel
<1>23. CASE TakeInterrupt
  BY <1>23, Channels, PortAssumption DEF TakeInterrupt, MainLevel
<1>24. CASE SerialInterrupt
  BY <1>24, Channels, PortAssumption DEF SerialInterrupt, Completed, MainLevel
<1>25. CASE UNCHANGED vars
  BY <1>25 DEF MainLevel
<1> QED
  BY Steps, <1>1, <1>2, <1>3, <1>4, <1>5, <1>6, <1>7, <1>8, <1>9, <1>10, <1>11,
     <1>12, <1>13, <1>14, <1>15, <1>16, <1>17, <1>18, <1>19, <1>20, <1>21,
     <1>22, <1>23, <1>24, <1>25

LEMMA EmulStep ==
  ASSUME Inv, [Next]_vars PROVE EmulInv'
<1> USE DEF Inv, TypeOK, EmulInv, PortInv, Closing, EmulPoint, portVars, ioVars, macVars,
            emulVars, vars
<1>1. ASSUME NEW p \in Port, Open(p) PROVE EmulInv'
  BY <1>1, Channels, PortAssumption DEF Open, ForPort, MainLevel, Interruptible
<1>2. ASSUME NEW p \in Port, OpenFails(p) PROVE EmulInv'
  BY <1>2, Channels, PortAssumption DEF OpenFails, ForPort, MainLevel, Interruptible
<1>3. ASSUME NEW p \in Port, KillIO(p) PROVE EmulInv'
  BY <1>3, Channels, PortAssumption DEF KillIO, MainLevel, Interruptible
<1>4. ASSUME NEW p \in Port, Close(p) PROVE EmulInv'
  BY <1>4, Channels, PortAssumption DEF Close, StartClose, MainLevel, Interruptible
<1>5. ASSUME NEW d \in Channel, Prime(d) PROVE EmulInv'
  BY <1>5, Channels, PortAssumption DEF Prime, MainLevel, Interruptible
<1>6. ASSUME NEW d \in Channel, DeferredTask(d) PROVE EmulInv'
  BY <1>6, Channels, PortAssumption DEF DeferredTask, MainLevel, Interruptible
<1>7. ASSUME NEW d \in Channel, Wake(d) PROVE EmulInv'
  BY <1>7, Channels, PortAssumption DEF Wake, Goto, MainLevel, Interruptible
<1>8. ASSUME NEW d \in Channel, TestQuitting(d) PROVE EmulInv'
  BY <1>8, Channels, PortAssumption DEF TestQuitting, Goto, MainLevel, Interruptible
<1>9. ASSUME NEW d \in Channel, Perform(d) PROVE EmulInv'
  BY <1>9, Channels, PortAssumption DEF Perform, Goto, MainLevel, Interruptible
<1>10. ASSUME NEW d \in Channel, TestKilled(d) PROVE EmulInv'
  BY <1>10, Channels, PortAssumption DEF TestKilled, Goto, MainLevel, Interruptible
<1>11. ASSUME NEW d \in Channel, Abort(d) PROVE EmulInv'
  BY <1>11, Channels, PortAssumption DEF Abort, Goto, MainLevel, Interruptible
<1>12. ASSUME NEW d \in Channel, ClearPending(d) PROVE EmulInv'
  BY <1>12, Channels, PortAssumption DEF ClearPending, Goto, MainLevel, Interruptible
<1>13. ASSUME NEW d \in Channel, SetDone(d) PROVE EmulInv'
  BY <1>13, Channels, PortAssumption DEF SetDone, Goto, MainLevel, Interruptible
<1>14. ASSUME NEW d \in Channel, SetFlag(d) PROVE EmulInv'
  BY <1>14, Channels, PortAssumption DEF SetFlag, Goto, MainLevel, Interruptible
<1>15. CASE Allocated
  BY <1>15, Channels, PortAssumption DEF Allocated, MainLevel, Interruptible
<1>16. CASE OutOfMemory
  BY <1>16, Channels, PortAssumption DEF OutOfMemory, StartClose, MainLevel, Interruptible
<1>17. CASE KillWaits
  BY <1>17, Channels, PortAssumption DEF KillWaits, MainLevel, Interruptible
<1>18. CASE KillDone
  BY <1>18, Channels, PortAssumption DEF KillDone, MainLevel, Interruptible
<1>19. CASE JoinIn
  BY <1>19, Channels, PortAssumption DEF JoinIn, MainLevel, Interruptible
<1>20. CASE JoinOut
  BY <1>20, Channels, PortAssumption DEF JoinOut, MainLevel, Interruptible
<1>21. CASE DisposePtr
  BY <1>21, Channels, PortAssumption DEF DisposePtr, MainLevel, Interruptible
<1>22. CASE Closed
  BY <1>22, Channels, PortAssumption DEF Closed, MainLevel, Interruptible
<1>23. CASE TakeInterrupt
  BY <1>23, Channels, PortAssumption DEF TakeInterrupt, MainLevel, Interruptible
<1>24. CASE SerialInterrupt
  BY <1>24, Channels, PortAssumption DEF SerialInterrupt, Completed, MainLevel, Interruptible
<1>25. CASE UNCHANGED vars
  BY <1>25 DEF MainLevel, Interruptible
<1> QED
  BY Steps, <1>1, <1>2, <1>3, <1>4, <1>5, <1>6, <1>7, <1>8, <1>9, <1>10, <1>11,
     <1>12, <1>13, <1>14, <1>15, <1>16, <1>17, <1>18, <1>19, <1>20, <1>21,
     <1>22, <1>23, <1>24, <1>25

LEMMA CommandStep ==
  ASSUME Inv, [Next]_vars, NEW c \in Channel PROVE CommandInv(c)'
<1> USE DEF Inv, TypeOK, EmulInv, PortInv, Working, Closing, ThreadPoint,
            CommandInv, RequestInv, KillInv, StoppedInv, ChannelsOf, MainLevel,
            Interruptible, portVars, ioVars, macVars, emulVars, vars
<1>1. ASSUME NEW p \in Port, Open(p) PROVE CommandInv(c)'
  BY <1>1, Channels, PortAssumption DEF Open, ForPort
<1>2. ASSUME NEW p \in Port, OpenFails(p) PROVE CommandInv(c)'
  BY <1>2, Channels, PortAssumption DEF OpenFails, ForPort
<1>3. ASSUME NEW p \in Port, KillIO(p) PROVE CommandInv(c)'
  BY <1>3, Channels, PortAssumption DEF KillIO
<1>4. ASSUME NEW p \in Port, Close(p) PROVE CommandInv(c)'
  BY <1>4, Channels, PortAssumption DEF Close, StartClose
<1>5. ASSUME NEW d \in Channel, Prime(d) PROVE CommandInv(c)'
  BY <1>5, Channels, PortAssumption DEF Prime
<1>6. ASSUME NEW d \in Channel, DeferredTask(d) PROVE CommandInv(c)'
  BY <1>6, Channels, PortAssumption DEF DeferredTask
<1>7. ASSUME NEW d \in Channel, Wake(d) PROVE CommandInv(c)'
  BY <1>7, Channels, PortAssumption DEF Wake, Goto
<1>8. ASSUME NEW d \in Channel, TestQuitting(d) PROVE CommandInv(c)'
  BY <1>8, Channels, PortAssumption DEF TestQuitting, Goto
<1>9. ASSUME NEW d \in Channel, Perform(d) PROVE CommandInv(c)'
  BY <1>9, Channels, PortAssumption DEF Perform, Goto
<1>10. ASSUME NEW d \in Channel, TestKilled(d) PROVE CommandInv(c)'
  BY <1>10, Channels, PortAssumption DEF TestKilled, Goto
<1>11. ASSUME NEW d \in Channel, Abort(d) PROVE CommandInv(c)'
  BY <1>11, Channels, PortAssumption DEF Abort, Goto
<1>12. ASSUME NEW d \in Channel, ClearPending(d) PROVE CommandInv(c)'
  BY <1>12, Channels, PortAssumption DEF ClearPending, Goto
<1>13. ASSUME NEW d \in Channel, SetDone(d) PROVE CommandInv(c)'
  BY <1>13, Channels, PortAssumption DEF SetDone, Goto
<1>14. ASSUME NEW d \in Channel, SetFlag(d) PROVE CommandInv(c)'
  BY <1>14, Channels, PortAssumption DEF SetFlag, Goto
<1>15. CASE Allocated
  BY <1>15, Channels, PortAssumption DEF Allocated
<1>16. CASE OutOfMemory
  BY <1>16, Channels, PortAssumption DEF OutOfMemory, StartClose
<1>17. CASE KillWaits
  BY <1>17, Channels, PortAssumption DEF KillWaits
<1>18. CASE KillDone
  BY <1>18, Channels, PortAssumption DEF KillDone
<1>19. CASE JoinIn
  BY <1>19, Channels, PortAssumption DEF JoinIn
<1>20. CASE JoinOut
  BY <1>20, Channels, PortAssumption DEF JoinOut
<1>21. CASE DisposePtr
  BY <1>21, Channels, PortAssumption DEF DisposePtr
<1>22. CASE Closed
  BY <1>22, Channels, PortAssumption DEF Closed
<1>23. CASE TakeInterrupt
  BY <1>23, Channels, PortAssumption DEF TakeInterrupt
<1>24. CASE SerialInterrupt
  BY <1>24, Channels, PortAssumption DEF SerialInterrupt, Completed
<1>25. CASE UNCHANGED vars
  BY <1>25 DEF ForPort
<1> QED
  BY Steps, <1>1, <1>2, <1>3, <1>4, <1>5, <1>6, <1>7, <1>8, <1>9, <1>10, <1>11,
     <1>12, <1>13, <1>14, <1>15, <1>16, <1>17, <1>18, <1>19, <1>20, <1>21,
     <1>22, <1>23, <1>24, <1>25

LEMMA RequestStep ==
  ASSUME Inv, [Next]_vars, NEW c \in Channel PROVE RequestInv(c)'
<1> USE DEF Inv, TypeOK, EmulInv, PortInv, Working, Closing, ThreadPoint,
            CommandInv, RequestInv, KillInv, StoppedInv, ChannelsOf, MainLevel,
            Interruptible, portVars, ioVars, macVars, emulVars, vars
<1>1. ASSUME NEW p \in Port, Open(p) PROVE RequestInv(c)'
  BY <1>1, Channels, PortAssumption DEF Open, ForPort
<1>2. ASSUME NEW p \in Port, OpenFails(p) PROVE RequestInv(c)'
  BY <1>2, Channels, PortAssumption DEF OpenFails, ForPort
<1>3. ASSUME NEW p \in Port, KillIO(p) PROVE RequestInv(c)'
  BY <1>3, Channels, PortAssumption DEF KillIO
<1>4. ASSUME NEW p \in Port, Close(p) PROVE RequestInv(c)'
  BY <1>4, Channels, PortAssumption DEF Close, StartClose
<1>5. ASSUME NEW d \in Channel, Prime(d) PROVE RequestInv(c)'
  BY <1>5, Channels, PortAssumption DEF Prime
<1>6. ASSUME NEW d \in Channel, DeferredTask(d) PROVE RequestInv(c)'
  BY <1>6, Channels, PortAssumption DEF DeferredTask
<1>7. ASSUME NEW d \in Channel, Wake(d) PROVE RequestInv(c)'
  BY <1>7, Channels, PortAssumption DEF Wake, Goto
<1>8. ASSUME NEW d \in Channel, TestQuitting(d) PROVE RequestInv(c)'
  BY <1>8, Channels, PortAssumption DEF TestQuitting, Goto
<1>9. ASSUME NEW d \in Channel, Perform(d) PROVE RequestInv(c)'
  BY <1>9, Channels, PortAssumption DEF Perform, Goto
<1>10. ASSUME NEW d \in Channel, TestKilled(d) PROVE RequestInv(c)'
  BY <1>10, Channels, PortAssumption DEF TestKilled, Goto
<1>11. ASSUME NEW d \in Channel, Abort(d) PROVE RequestInv(c)'
  BY <1>11, Channels, PortAssumption DEF Abort, Goto
<1>12. ASSUME NEW d \in Channel, ClearPending(d) PROVE RequestInv(c)'
  BY <1>12, Channels, PortAssumption DEF ClearPending, Goto
<1>13. ASSUME NEW d \in Channel, SetDone(d) PROVE RequestInv(c)'
  BY <1>13, Channels, PortAssumption DEF SetDone, Goto
<1>14. ASSUME NEW d \in Channel, SetFlag(d) PROVE RequestInv(c)'
  BY <1>14, Channels, PortAssumption DEF SetFlag, Goto
<1>15. CASE Allocated
  BY <1>15, Channels, PortAssumption DEF Allocated
<1>16. CASE OutOfMemory
  BY <1>16, Channels, PortAssumption DEF OutOfMemory, StartClose
<1>17. CASE KillWaits
  BY <1>17, Channels, PortAssumption DEF KillWaits
<1>18. CASE KillDone
  BY <1>18, Channels, PortAssumption DEF KillDone
<1>19. CASE JoinIn
  BY <1>19, Channels, PortAssumption DEF JoinIn
<1>20. CASE JoinOut
  BY <1>20, Channels, PortAssumption DEF JoinOut
<1>21. CASE DisposePtr
  BY <1>21, Channels, PortAssumption DEF DisposePtr
<1>22. CASE Closed
  BY <1>22, Channels, PortAssumption DEF Closed
<1>23. CASE TakeInterrupt
  BY <1>23, Channels, PortAssumption DEF TakeInterrupt
<1>24. CASE SerialInterrupt
  BY <1>24, Channels, PortAssumption DEF SerialInterrupt, Completed
<1>25. CASE UNCHANGED vars
  BY <1>25 DEF ForPort
<1> QED
  BY Steps, <1>1, <1>2, <1>3, <1>4, <1>5, <1>6, <1>7, <1>8, <1>9, <1>10, <1>11,
     <1>12, <1>13, <1>14, <1>15, <1>16, <1>17, <1>18, <1>19, <1>20, <1>21,
     <1>22, <1>23, <1>24, <1>25

LEMMA KillStep ==
  ASSUME Inv, [Next]_vars, NEW c \in Channel PROVE KillInv(c)'
<1> USE DEF Inv, TypeOK, EmulInv, PortInv, Working, Closing, ThreadPoint, CommandInv, KillInv,
            StoppedInv, ChannelsOf, MainLevel,
            Interruptible, portVars, ioVars, macVars, emulVars, vars
<1>1. ASSUME NEW p \in Port, Open(p) PROVE KillInv(c)'
  BY <1>1, Channels, PortAssumption DEF Open, ForPort
<1>2. ASSUME NEW p \in Port, OpenFails(p) PROVE KillInv(c)'
  BY <1>2, Channels, PortAssumption DEF OpenFails, ForPort
<1>3. ASSUME NEW p \in Port, KillIO(p) PROVE KillInv(c)'
  BY <1>3, Channels, PortAssumption DEF KillIO
<1>4. ASSUME NEW p \in Port, Close(p) PROVE KillInv(c)'
  BY <1>4, Channels, PortAssumption DEF Close, StartClose
<1>5. ASSUME NEW d \in Channel, Prime(d) PROVE KillInv(c)'
  BY <1>5, Channels, PortAssumption DEF Prime
<1>6. ASSUME NEW d \in Channel, DeferredTask(d) PROVE KillInv(c)'
  BY <1>6, Channels, PortAssumption DEF DeferredTask
<1>7. ASSUME NEW d \in Channel, Wake(d) PROVE KillInv(c)'
  BY <1>7, Channels, PortAssumption DEF Wake, Goto
<1>8. ASSUME NEW d \in Channel, TestQuitting(d) PROVE KillInv(c)'
  BY <1>8, Channels, PortAssumption DEF TestQuitting, Goto
<1>9. ASSUME NEW d \in Channel, Perform(d) PROVE KillInv(c)'
  BY <1>9, Channels, PortAssumption DEF Perform, Goto
<1>10. ASSUME NEW d \in Channel, TestKilled(d) PROVE KillInv(c)'
  BY <1>10, Channels, PortAssumption DEF TestKilled, Goto
<1>11. ASSUME NEW d \in Channel, Abort(d) PROVE KillInv(c)'
  BY <1>11, Channels, PortAssumption DEF Abort, Goto
<1>12. ASSUME NEW d \in Channel, ClearPending(d) PROVE KillInv(c)'
  BY <1>12, Channels, PortAssumption DEF ClearPending, Goto
<1>13. ASSUME NEW d \in Channel, SetDone(d) PROVE KillInv(c)'
  BY <1>13, Channels, PortAssumption DEF SetDone, Goto
<1>14. ASSUME NEW d \in Channel, SetFlag(d) PROVE KillInv(c)'
  BY <1>14, Channels, PortAssumption DEF SetFlag, Goto
<1>15. CASE Allocated
  BY <1>15, Channels, PortAssumption DEF Allocated
<1>16. CASE OutOfMemory
  BY <1>16, Channels, PortAssumption DEF OutOfMemory, StartClose
<1>17. CASE KillWaits
  BY <1>17, Channels, PortAssumption DEF KillWaits
<1>18. CASE KillDone
  BY <1>18, Channels, PortAssumption DEF KillDone
<1>19. CASE JoinIn
  BY <1>19, Channels, PortAssumption DEF JoinIn
<1>20. CASE JoinOut
  BY <1>20, Channels, PortAssumption DEF JoinOut
<1>21. CASE DisposePtr
  BY <1>21, Channels, PortAssumption DEF DisposePtr
<1>22. CASE Closed
  BY <1>22, Channels, PortAssumption DEF Closed
<1>23. CASE TakeInterrupt
  BY <1>23, Channels, PortAssumption DEF TakeInterrupt
<1>24. CASE SerialInterrupt
  BY <1>24, Channels, PortAssumption DEF SerialInterrupt, Completed
<1>25. CASE UNCHANGED vars
  BY <1>25 DEF ForPort
<1> QED
  BY Steps, <1>1, <1>2, <1>3, <1>4, <1>5, <1>6, <1>7, <1>8, <1>9, <1>10, <1>11,
     <1>12, <1>13, <1>14, <1>15, <1>16, <1>17, <1>18, <1>19, <1>20, <1>21,
     <1>22, <1>23, <1>24, <1>25

LEMMA StoppedStep ==
  ASSUME Inv, [Next]_vars, NEW c \in Channel PROVE StoppedInv(c)'
<1> USE DEF Inv, TypeOK, EmulInv, PortInv, Working, Closing, ThreadPoint, CommandInv, KillInv,
            RequestInv, StoppedInv, ChannelsOf, MainLevel,
            Interruptible, portVars, ioVars, macVars, emulVars, vars
<1>1. ASSUME NEW p \in Port, Open(p) PROVE StoppedInv(c)'
  BY <1>1, Channels, PortAssumption DEF Open, ForPort
<1>2. ASSUME NEW p \in Port, OpenFails(p) PROVE StoppedInv(c)'
  BY <1>2, Channels, PortAssumption DEF OpenFails, ForPort
<1>3. ASSUME NEW p \in Port, KillIO(p) PROVE StoppedInv(c)'
  BY <1>3, Channels, PortAssumption DEF KillIO
<1>4. ASSUME NEW p \in Port, Close(p) PROVE StoppedInv(c)'
  BY <1>4, Channels, PortAssumption DEF Close, StartClose
<1>5. ASSUME NEW d \in Channel, Prime(d) PROVE StoppedInv(c)'
  BY <1>5, Channels, PortAssumption DEF Prime
<1>6. ASSUME NEW d \in Channel, DeferredTask(d) PROVE StoppedInv(c)'
  BY <1>6, Channels, PortAssumption DEF DeferredTask
<1>7. ASSUME NEW d \in Channel, Wake(d) PROVE StoppedInv(c)'
  BY <1>7, Channels, PortAssumption DEF Wake, Goto
<1>8. ASSUME NEW d \in Channel, TestQuitting(d) PROVE StoppedInv(c)'
  BY <1>8, Channels, PortAssumption DEF TestQuitting, Goto
<1>9. ASSUME NEW d \in Channel, Perform(d) PROVE StoppedInv(c)'
  BY <1>9, Channels, PortAssumption DEF Perform, Goto
<1>10. ASSUME NEW d \in Channel, TestKilled(d) PROVE StoppedInv(c)'
  BY <1>10, Channels, PortAssumption DEF TestKilled, Goto
<1>11. ASSUME NEW d \in Channel, Abort(d) PROVE StoppedInv(c)'
  BY <1>11, Channels, PortAssumption DEF Abort, Goto
<1>12. ASSUME NEW d \in Channel, ClearPending(d) PROVE StoppedInv(c)'
  BY <1>12, Channels, PortAssumption DEF ClearPending, Goto
<1>13. ASSUME NEW d \in Channel, SetDone(d) PROVE StoppedInv(c)'
  BY <1>13, Channels, PortAssumption DEF SetDone, Goto
<1>14. ASSUME NEW d \in Channel, SetFlag(d) PROVE StoppedInv(c)'
  BY <1>14, Channels, PortAssumption DEF SetFlag, Goto
<1>15. CASE Allocated
  BY <1>15, Channels, PortAssumption DEF Allocated
<1>16. CASE OutOfMemory
  BY <1>16, Channels, PortAssumption DEF OutOfMemory, StartClose
<1>17. CASE KillWaits
  BY <1>17, Channels, PortAssumption DEF KillWaits
<1>18. CASE KillDone
  BY <1>18, Channels, PortAssumption DEF KillDone
<1>19. CASE JoinIn
  BY <1>19, Channels, PortAssumption DEF JoinIn
<1>20. CASE JoinOut
  BY <1>20, Channels, PortAssumption DEF JoinOut
<1>21. CASE DisposePtr
  BY <1>21, Channels, PortAssumption DEF DisposePtr
<1>22. CASE Closed
  BY <1>22, Channels, PortAssumption DEF Closed
<1>23. CASE TakeInterrupt
  BY <1>23, Channels, PortAssumption DEF TakeInterrupt
<1>24. CASE SerialInterrupt
  BY <1>24, Channels, PortAssumption DEF SerialInterrupt, Completed
<1>25. CASE UNCHANGED vars
  BY <1>25 DEF ForPort
<1> QED
  BY Steps, <1>1, <1>2, <1>3, <1>4, <1>5, <1>6, <1>7, <1>8, <1>9, <1>10, <1>11,
     <1>12, <1>13, <1>14, <1>15, <1>16, <1>17, <1>18, <1>19, <1>20, <1>21,
     <1>22, <1>23, <1>24, <1>25

LEMMA PortStep ==
  ASSUME Inv, [Next]_vars, NEW q \in Port PROVE PortInv(q)'
<1> USE DEF Inv, TypeOK, EmulInv, PortInv, Closing, EmulPoint, MainLevel, Interruptible,
            portVars, ioVars, macVars, emulVars, vars
<1>1. ASSUME NEW p \in Port, Open(p) PROVE PortInv(q)'
  BY <1>1, Channels, PortAssumption DEF Open, ForPort
<1>2. ASSUME NEW p \in Port, OpenFails(p) PROVE PortInv(q)'
  BY <1>2, Channels, PortAssumption DEF OpenFails, ForPort
<1>3. ASSUME NEW p \in Port, KillIO(p) PROVE PortInv(q)'
  BY <1>3, Channels, PortAssumption DEF KillIO
<1>4. ASSUME NEW p \in Port, Close(p) PROVE PortInv(q)'
  BY <1>4, Channels, PortAssumption DEF Close, StartClose
<1>5. ASSUME NEW d \in Channel, Prime(d) PROVE PortInv(q)'
  BY <1>5, Channels, PortAssumption DEF Prime
<1>6. ASSUME NEW d \in Channel, DeferredTask(d) PROVE PortInv(q)'
  BY <1>6, Channels, PortAssumption DEF DeferredTask
<1>7. ASSUME NEW d \in Channel, Wake(d) PROVE PortInv(q)'
  BY <1>7, Channels, PortAssumption DEF Wake, Goto
<1>8. ASSUME NEW d \in Channel, TestQuitting(d) PROVE PortInv(q)'
  BY <1>8, Channels, PortAssumption DEF TestQuitting, Goto
<1>9. ASSUME NEW d \in Channel, Perform(d) PROVE PortInv(q)'
  BY <1>9, Channels, PortAssumption DEF Perform, Goto
<1>10. ASSUME NEW d \in Channel, TestKilled(d) PROVE PortInv(q)'
  BY <1>10, Channels, PortAssumption DEF TestKilled, Goto
<1>11. ASSUME NEW d \in Channel, Abort(d) PROVE PortInv(q)'
  BY <1>11, Channels, PortAssumption DEF Abort, Goto
<1>12. ASSUME NEW d \in Channel, ClearPending(d) PROVE PortInv(q)'
  BY <1>12, Channels, PortAssumption DEF ClearPending, Goto
<1>13. ASSUME NEW d \in Channel, SetDone(d) PROVE PortInv(q)'
  BY <1>13, Channels, PortAssumption DEF SetDone, Goto
<1>14. ASSUME NEW d \in Channel, SetFlag(d) PROVE PortInv(q)'
  BY <1>14, Channels, PortAssumption DEF SetFlag, Goto
<1>15. CASE Allocated
  BY <1>15, Channels, PortAssumption DEF Allocated
<1>16. CASE OutOfMemory
  BY <1>16, Channels, PortAssumption DEF OutOfMemory, StartClose
<1>17. CASE KillWaits
  BY <1>17, Channels, PortAssumption DEF KillWaits
<1>18. CASE KillDone
  BY <1>18, Channels, PortAssumption DEF KillDone
<1>19. CASE JoinIn
  BY <1>19, Channels, PortAssumption DEF JoinIn
<1>20. CASE JoinOut
  BY <1>20, Channels, PortAssumption DEF JoinOut
<1>21. CASE DisposePtr
  BY <1>21, Channels, PortAssumption DEF DisposePtr
<1>22. CASE Closed
  BY <1>22, Channels, PortAssumption DEF Closed
<1>23. CASE TakeInterrupt
  BY <1>23, Channels, PortAssumption DEF TakeInterrupt
<1>24. CASE SerialInterrupt
  BY <1>24, Channels, PortAssumption DEF SerialInterrupt, Completed
<1>25. CASE UNCHANGED vars
  BY <1>25 DEF ForPort
<1> QED
  BY Steps, <1>1, <1>2, <1>3, <1>4, <1>5, <1>6, <1>7, <1>8, <1>9, <1>10, <1>11,
     <1>12, <1>13, <1>14, <1>15, <1>16, <1>17, <1>18, <1>19, <1>20, <1>21,
     <1>22, <1>23, <1>24, <1>25

-----------------------------------------------------------------------------
(* The theorems *)

LEMMA InitInv == ASSUME Init PROVE Inv
<1>1. TypeOK
  BY DEF Init, TypeOK, ThreadPoint, EmulPoint
<1>2. EmulInv
  BY DEF Init, EmulInv, Closing
<1>3. \A c \in Channel :
        CommandInv(c) /\ RequestInv(c) /\ KillInv(c) /\ StoppedInv(c)
  BY Channels, PortAssumption DEF Init, CommandInv, RequestInv, KillInv, StoppedInv, Working
<1>4. \A p \in Port : PortInv(p)
  BY DEF Init, PortInv
<1> QED
  BY <1>1, <1>2, <1>3, <1>4 DEF Inv

LEMMA Invariance == Spec => []Inv
<1>1. Init => Inv
  BY InitInv
<1>2. Inv /\ [Next]_vars => Inv'
  <2> SUFFICES ASSUME Inv, [Next]_vars PROVE Inv'
    OBVIOUS
  <2>1. TypeOK'
    BY TypeStep DEF Inv
  <2>2. EmulInv'
    BY EmulStep
  <2>3. \A c \in Channel :
          (CommandInv(c) /\ RequestInv(c) /\ KillInv(c) /\ StoppedInv(c))'
    BY CommandStep, RequestStep, KillStep, StoppedStep
  <2>4. \A p \in Port : PortInv(p)'
    BY PortStep
  <2> QED
    BY <2>1, <2>2, <2>3, <2>4 DEF Inv, Channel
<1> QED
  BY <1>1, <1>2, PTL DEF Spec

\* Type correctness.
THEOREM TypeCorrect == Spec => []TypeOK
BY Invariance, PTL DEF Inv

\* The driver and the Device Manager agree on the requests under way.
THEOREM RequestsAgree == Spec => []RequestsMatch
<1>1. Inv => RequestsMatch
  BY DEF Inv, RequestInv, RequestsMatch
<1> QED
  BY <1>1, Invariance, PTL

\* A deferred task that is queued has memory and a request to complete.
THEOREM QueuedTasksAreValid == Spec => []QueuedIsValid
<1>1. Inv => QueuedIsValid
  BY Channels, PortAssumption DEF Inv, TypeOK, RequestInv, PortInv, QueuedIsValid
<1> QED
  BY <1>1, Invariance, PTL

\* No result is forgotten between an I/O thread and SerialInterrupt.
THEOREM NoResultIsForgotten == Spec => []DoneIsFlagged
<1>1. Inv => DoneIsFlagged
  BY DEF Inv, RequestInv, DoneIsFlagged
<1> QED
  BY <1>1, Invariance, PTL

-----------------------------------------------------------------------------
(* The refinement *)

\* A step on which the Device Manager sees nothing
LEMMA Stutters ==
  ASSUME TypeOK, UNCHANGED <<request, performed>>, Killing' = Killing
  PROVE  UNCHANGED Service!serviceVars
<1>1. Status' = Status
  BY DEF Status
<1> QED
  BY <1>1 DEF Service!serviceVars

\* A step that changes the status of one request
LEMMA StatusChanges ==
  ASSUME TypeOK, TypeOK', NEW c \in Channel,
         \A d \in Channel \ {c} : request'[d] = request[d] /\ performed'[d] = performed[d]
  PROVE  Status' = [Status EXCEPT ![c] =
                      IF request'[c] = "idle" THEN "idle"
                      ELSE IF performed'[c] THEN "performed" ELSE "issued"]
BY DEF Status

\* Every step is a step of the service, or none that it sees.
LEMMA ServiceStep ==
  ASSUME Inv, Inv', [Next]_vars PROVE [Service!Next]_(Service!serviceVars)
<1> USE DEF portVars, ioVars, macVars, emulVars, vars
<1>1. TypeOK /\ TypeOK'
  BY DEF Inv
<1>2. ASSUME UNCHANGED <<request, performed>>, Killing' = Killing
      PROVE  [Service!Next]_(Service!serviceVars)
  BY <1>1, <1>2, Stutters
<1>3. ASSUME NEW c \in Channel, Prime(c) PROVE Service!Issue(c)
  <2>1. Killing = {} /\ Killing' = {}
    BY <1>3 DEF Prime, Interruptible, Killing
  <2>2. request[c] = "idle" /\ request'[c] = "busy" /\ ~performed'[c]
    BY <1>1, <1>3 DEF Prime, TypeOK
  <2>3. \A d \in Channel \ {c} : request'[d] = request[d] /\ performed'[d] = performed[d]
    BY <1>1, <1>3 DEF Prime, TypeOK
  <2>4. Status[c] = "idle"
    BY <2>2 DEF Status
  <2>5. Status' = [Status EXCEPT ![c] = "issued"]
    BY <1>1, <2>2, <2>3, StatusChanges
  <2> QED BY <2>1, <2>4, <2>5 DEF Service!Issue, Service!Becomes
<1>4. ASSUME NEW c \in Channel, Perform(c) PROVE Service!Perform(c) \/ UNCHANGED Service!serviceVars
  <2>1. Killing' = Killing
    BY <1>4 DEF Perform, Killing
  <2>2. request[c] = "busy" /\ request'[c] = "busy" /\ performed'[c]
    BY <1>1, <1>4 DEF Perform, Goto, TypeOK, Inv, CommandInv, RequestInv, Working
  <2>3. \A d \in Channel \ {c} : request'[d] = request[d] /\ performed'[d] = performed[d]
    BY <1>1, <1>4 DEF Perform, TypeOK
  <2>4. Status' = [Status EXCEPT ![c] = "performed"]
    BY <1>1, <2>2, <2>3, StatusChanges
  <2>5. CASE performed[c]
    BY <2>1, <2>2, <2>4, <2>5 DEF Status, Service!serviceVars
  <2>6. CASE ~performed[c]
    <3>1. Status[c] = "issued"
      BY <2>2, <2>6 DEF Status
    <3> QED BY <2>1, <2>4, <3>1 DEF Service!Perform, Service!Becomes
  <2> QED BY <2>5, <2>6
<1>5. ASSUME NEW c \in Channel, DeferredTask(c) PROVE Service!Complete(c)
  <2>1. Killing = {} /\ Killing' = {}
    BY <1>5 DEF DeferredTask, Interruptible, Killing
  <2>2. request[c] = "busy" /\ performed[c] /\ request'[c] = "idle"
    BY <1>1, <1>5 DEF DeferredTask, TypeOK, Inv, RequestInv
  <2>3. \A d \in Channel \ {c} : request'[d] = request[d] /\ performed'[d] = performed[d]
    BY <1>1, <1>5 DEF DeferredTask, TypeOK
  <2>4. Status[c] = "performed"
    BY <2>2 DEF Status
  <2>5. Status' = [Status EXCEPT ![c] = "idle"]
    BY <1>1, <2>2, <2>3, StatusChanges
  <2> QED BY <2>1, <2>4, <2>5 DEF Service!Complete, Service!Becomes
<1>6. ASSUME NEW c \in Channel, Abort(c) PROVE Service!Abort(c)
  <2>1. Killing' = Killing /\ c \in Killing
    <3>1. port = PortOf(c) /\ epc = "kill"
      BY <1>6 DEF Abort, Goto, Inv, KillInv
    <3> QED BY <1>6, <3>1, Channels DEF Abort, Killing, ChannelsOf
  <2>2. request[c] = "busy" /\ performed[c] /\ request'[c] = "idle"
    BY <1>1, <1>6 DEF Abort, Goto, TypeOK, Inv, CommandInv, RequestInv, Working
  <2>3. \A d \in Channel \ {c} : request'[d] = request[d] /\ performed'[d] = performed[d]
    BY <1>1, <1>6 DEF Abort, TypeOK
  <2>4. Status[c] = "performed"
    BY <2>2 DEF Status
  <2>5. Status' = [Status EXCEPT ![c] = "idle"]
    BY <1>1, <2>2, <2>3, StatusChanges
  <2> QED BY <2>1, <2>4, <2>5 DEF Service!Abort, Service!Becomes
<1>7. ASSUME NEW p \in Port, KillIO(p) PROVE Service!KillIO
  <2>1. Killing = {} /\ Killing' = ChannelsOf(p)
    BY <1>7 DEF KillIO, Killing, ChannelsOf
  <2>2. Killing' \in (SUBSET Channel) \ {{}}
    BY <2>1, Channels DEF ChannelsOf
  <2>3. Status' = Status
    BY <1>7 DEF KillIO, Status
  <2> QED BY <2>1, <2>2, <2>3 DEF Service!KillIO
<1>8. CASE KillDone
  <2>1. Killing = ChannelsOf(port) /\ Killing' = {} /\ port \in Port
    BY <1>8 DEF KillDone, Killing, Inv, EmulInv
  <2>2. \A c \in ChannelsOf(port) : c \in Channel /\ Status[c] # "issued"
    <3> SUFFICES ASSUME NEW c \in ChannelsOf(port) PROVE c \in Channel /\ Status[c] # "issued"
      OBVIOUS
    <3>1. c \in Channel /\ ~pending[c]
      BY <1>8, <2>1, Channels DEF KillDone, ChannelsOf
    <3>2. request[c] = "busy" => performed[c]
      BY <3>1 DEF Inv, RequestInv
    <3>3. request[c] \in {"idle", "busy"}
      BY <1>1, <3>1 DEF TypeOK
    <3> QED BY <3>1, <3>2, <3>3 DEF Status
  <2>3. Status' = Status
    BY <1>8 DEF KillDone, Status
  <2>4. \A c \in Killing : Status[c] # "issued"
    BY <2>1, <2>2
  <2> QED BY <2>1, <2>3, <2>4 DEF Service!KillReturns, Service!Next
<1>9. ASSUME NEW p \in Port, Open(p) \/ OpenFails(p) \/ Close(p)
      PROVE  UNCHANGED <<request, performed>> /\ Killing' = Killing
  BY <1>9 DEF Open, OpenFails, Close, StartClose, MainLevel, Killing
<1>10. ASSUME NEW c \in Channel,
              \/ Wake(c) \/ TestQuitting(c) \/ TestKilled(c) \/ ClearPending(c)
              \/ SetDone(c) \/ SetFlag(c)
       PROVE  UNCHANGED <<request, performed>> /\ Killing' = Killing
  BY <1>10 DEF Wake, TestQuitting, TestKilled, ClearPending, SetDone, SetFlag, Killing
<1>11. ASSUME \/ Allocated \/ OutOfMemory \/ KillWaits \/ JoinIn \/ JoinOut \/ DisposePtr
              \/ Closed \/ TakeInterrupt \/ SerialInterrupt \/ UNCHANGED vars
       PROVE  UNCHANGED <<request, performed>> /\ Killing' = Killing
  BY <1>11 DEF Allocated, OutOfMemory, StartClose, KillWaits, JoinIn, JoinOut, DisposePtr,
               Closed, TakeInterrupt, SerialInterrupt, Killing
<1> QED
  BY Steps, <1>2, <1>3, <1>4, <1>5, <1>6, <1>7, <1>8, <1>9, <1>10, <1>11 DEF Service!Next

\* The driver, its threads, SerialInterrupt and the deferred tasks implement
\* SerialService, for any number of ports.
THEOREM Refinement == Spec => ServiceSpec
<1>1. Init => Service!Init
  BY DEF Init, Service!Init, Status, Killing
<1>2. Inv /\ Inv' /\ [Next]_vars => [Service!Next]_(Service!serviceVars)
  BY ServiceStep
<1> QED
  BY <1>1, <1>2, Invariance, PTL DEF Spec, ServiceSpec, Service!Spec
=============================================================================
