------------------------------- MODULE Serial -------------------------------
(***************************************************************************)
(* The serial driver of Basilisk II (serial.cpp) with its Unix back end    *)
(* (Unix/serial_unix.cpp).                                                 *)
(*                                                                         *)
(* A port has a channel for reading and one for writing, each with an I/O  *)
(* thread.  SerialPrime hands a request to the thread and returns; the     *)
(* thread performs it and sets INTFLAG_SERIAL; SerialInterrupt installs a  *)
(* deferred task, and that calls IODone.  All calls of the driver, the     *)
(* interrupts and the deferred tasks run on the emulator thread.  Module   *)
(* Interrupts shows that a flag that is set is handled.                    *)
(*                                                                         *)
(* The Device Manager is not part of this repository: it passes one        *)
(* request at a time to a channel, and calls a driver's Close when that    *)
(* driver has none.  Deferred tasks run before 68k code continues at       *)
(* interrupt level 0.  A program does not close the output driver, and so  *)
(* the port, while the input driver is reading.                            *)
(***************************************************************************)
EXTENDS Naturals

CONSTANTS
  Port,   \* the serial ports
  NONE    \* no port

ASSUME PortAssumption == NONE \notin Port

VARIABLES
  is_open,       \* by port
  dt_memory,     \* by port: input_dt and output_dt are allocated
  io_killed,     \* by port
  quitting,      \* by port
  pending,       \* read_pending and write_pending, by channel
  done,          \* read_done and write_done, by channel
  signal,        \* input_signal and output_signal, by channel
  tpc,           \* control point of the I/O thread, by channel
  serial_flag,   \* INTFLAG_SERIAL in InterruptFlags
  dtq,           \* channels whose deferred task is in the Mac's queue
  request,       \* by channel: has the Device Manager a request under way?
  performed,     \* by channel: has the host performed the last request?
  epc,           \* control point of the emulator thread
  port,          \* the port it is working for, or NONE
  irq            \* it is in M68K_EMUL_OP_IRQ, about to call SerialInterrupt

portVars == <<is_open, dt_memory, io_killed, quitting>>
ioVars == <<pending, done, signal, tpc>>
macVars == <<dtq, request, performed>>
emulVars == <<epc, port, irq>>
vars == <<portVars, ioVars, serial_flag, macVars, emulVars>>

Channel == Port \X {"in", "out"}
PortOf(c) == c[1]
In(p) == <<p, "in">>
Out(p) == <<p, "out">>
ChannelsOf(p) == {In(p), Out(p)}

\* The thread: "none" if there is none, "wait" in sem_wait, "io" in read or
\* write, "exited" after it has seen quitting.
ThreadPoint ==
  {"none", "wait", "woken", "io", "test_killed", "abort", "clear_pending",
   "set_done", "set_flag", "exited"}

\* The emulator thread: "run" in 68k code, "alloc" in NewPtrSysClear, "kill" in
\* the loop of KillIO, "join_in" and "join_out" in pthread_join, "dispose" and
\* "disposed" in DisposePtr, before and after it frees the memory.
EmulPoint ==
  {"run", "alloc", "kill", "join_in", "join_out", "dispose", "disposed"}

TypeOK ==
  /\ is_open \in [Port -> BOOLEAN]
  /\ dt_memory \in [Port -> BOOLEAN]
  /\ io_killed \in [Port -> BOOLEAN]
  /\ quitting \in [Port -> BOOLEAN]
  /\ pending \in [Channel -> BOOLEAN]
  /\ done \in [Channel -> BOOLEAN]
  /\ signal \in [Channel -> Nat]
  /\ tpc \in [Channel -> ThreadPoint]
  /\ serial_flag \in BOOLEAN
  /\ dtq \subseteq Channel
  /\ request \in [Channel -> {"idle", "busy"}]
  /\ performed \in [Channel -> BOOLEAN]
  /\ epc \in EmulPoint
  /\ port \in Port \cup {NONE}
  /\ irq \in BOOLEAN

Init ==
  /\ is_open = [p \in Port |-> FALSE]
  /\ dt_memory = [p \in Port |-> FALSE]
  /\ io_killed = [p \in Port |-> FALSE]
  /\ quitting = [p \in Port |-> FALSE]
  /\ pending = [c \in Channel |-> FALSE]
  /\ done = [c \in Channel |-> FALSE]
  /\ signal = [c \in Channel |-> 0]
  /\ tpc = [c \in Channel |-> "none"]
  /\ serial_flag = FALSE
  /\ dtq = {}
  /\ request = [c \in Channel |-> "idle"]
  /\ performed = [c \in Channel |-> FALSE]
  /\ epc = "run"
  /\ port = NONE
  /\ irq = FALSE

-----------------------------------------------------------------------------
(* The driver's routines, on the emulator thread *)

\* f with the value v for both channels of p
ForPort(f, p, v) == [c \in Channel |-> IF PortOf(c) = p THEN v ELSE f[c]]

\* 68k code runs, in a trap that the driver calls included
Interruptible == epc \in {"run", "alloc", "dispose", "disposed"} /\ ~irq

\* 68k code at interrupt level 0
MainLevel == epc = "run" /\ ~irq /\ dtq = {}

\* SerialOpen up to NewPtrSysClear, XSERDPort::open included
Open(p) ==
  /\ MainLevel
  /\ ~is_open[p]
  /\ pending' = ForPort(pending, p, FALSE)
  /\ done' = ForPort(done, p, FALSE)
  /\ io_killed' = [io_killed EXCEPT ![p] = FALSE]
  /\ quitting' = [quitting EXCEPT ![p] = FALSE]
  /\ signal' = ForPort(signal, p, 0)
  /\ tpc' = ForPort(tpc, p, "wait")
  /\ epc' = "alloc"
  /\ port' = p
  /\ UNCHANGED <<is_open, dt_memory, serial_flag, macVars, irq>>

\* The device cannot be opened or a thread cannot be created: the other thread
\* is cancelled, and joined
OpenFails(p) ==
  /\ MainLevel
  /\ ~is_open[p]
  /\ pending' = ForPort(pending, p, FALSE)
  /\ done' = ForPort(done, p, FALSE)
  /\ io_killed' = [io_killed EXCEPT ![p] = FALSE]
  /\ quitting' = [quitting EXCEPT ![p] = FALSE]
  /\ UNCHANGED <<is_open, dt_memory, signal, tpc, serial_flag, macVars, emulVars>>

\* NewPtrSysClear returns the memory of the deferred tasks
Allocated ==
  /\ epc = "alloc" /\ ~irq
  /\ dt_memory' = [dt_memory EXCEPT ![port] = TRUE]
  /\ is_open' = [is_open EXCEPT ![port] = TRUE]
  /\ epc' = "run"
  /\ port' = NONE
  /\ UNCHANGED <<io_killed, quitting, ioVars, serial_flag, macVars, irq>>

\* XSERDPort::close up to the first pthread_join
StartClose(p) ==
  /\ quitting' = [quitting EXCEPT ![p] = TRUE]
  /\ signal' = [signal EXCEPT ![In(p)] = @ + 1]
  /\ epc' = "join_in"
  /\ port' = p
  /\ UNCHANGED <<is_open, dt_memory, io_killed, pending, done, tpc, serial_flag, macVars, irq>>

\* NewPtrSysClear has no memory
OutOfMemory == epc = "alloc" /\ ~irq /\ StartClose(port)

\* Fault: no sem_post
PrimeNoPost(c) ==
  /\ Interruptible
  /\ PortOf(c) # port
  /\ request[c] = "idle"
  /\ is_open[PortOf(c)]
  /\ ~pending[c]
  /\ done' = [done EXCEPT ![c] = FALSE]
  /\ pending' = [pending EXCEPT ![c] = TRUE]
  /\ request' = [request EXCEPT ![c] = "busy"]
  /\ performed' = [performed EXCEPT ![c] = FALSE]
  /\ UNCHANGED <<portVars, signal, tpc, serial_flag, dtq, emulVars>>

\* SerialPrime and prime_in or prime_out, in 68k code at any level
Prime(c) ==
  /\ Interruptible
  /\ PortOf(c) # port
  /\ request[c] = "idle"
  /\ is_open[PortOf(c)]
  /\ ~pending[c]
  /\ done' = [done EXCEPT ![c] = FALSE]
  /\ pending' = [pending EXCEPT ![c] = TRUE]
  /\ signal' = [signal EXCEPT ![c] = @ + 1]
  /\ request' = [request EXCEPT ![c] = "busy"]
  /\ performed' = [performed EXCEPT ![c] = FALSE]
  /\ UNCHANGED <<portVars, tpc, serial_flag, dtq, emulVars>>

\* Fault: the threads are not told
KillIOUntold(p) ==
  /\ epc = "run" /\ ~irq
  /\ is_open[p]
  /\ epc' = "kill"
  /\ port' = p
  /\ UNCHANGED <<portVars, ioVars, serial_flag, macVars, irq>>

\* SerialControl: KillIO, up to its loop
KillIO(p) ==
  /\ epc = "run" /\ ~irq
  /\ is_open[p]
  /\ io_killed' = [io_killed EXCEPT ![p] = TRUE]
  /\ epc' = "kill"
  /\ port' = p
  /\ UNCHANGED <<is_open, dt_memory, quitting, ioVars, serial_flag, macVars, irq>>

\* usleep, in the loop of KillIO
KillWaits ==
  /\ epc = "kill"
  /\ \E c \in ChannelsOf(port) : pending[c]
  /\ UNCHANGED vars

\* Fault: only the input is waited for
KillInputDone ==
  /\ epc = "kill"
  /\ ~pending[In(port)]
  /\ io_killed' = [io_killed EXCEPT ![port] = FALSE]
  /\ epc' = "run"
  /\ port' = NONE
  /\ UNCHANGED <<is_open, dt_memory, quitting, ioVars, serial_flag, macVars, irq>>

\* The loop of KillIO ends
KillDone ==
  /\ epc = "kill"
  /\ \A c \in ChannelsOf(port) : ~pending[c]
  /\ io_killed' = [io_killed EXCEPT ![port] = FALSE]
  /\ epc' = "run"
  /\ port' = NONE
  /\ UNCHANGED <<is_open, dt_memory, quitting, ioVars, serial_flag, macVars, irq>>

\* SerialClose
Close(p) ==
  /\ MainLevel
  /\ is_open[p]
  /\ \A c \in ChannelsOf(p) : request[c] = "idle"
  /\ StartClose(p)

\* pthread_join of the input thread and sem_destroy, then sem_post for the
\* output thread
JoinIn ==
  /\ epc = "join_in"
  /\ tpc[In(port)] = "exited"
  /\ tpc' = [tpc EXCEPT ![In(port)] = "none"]
  /\ signal' = [signal EXCEPT ![In(port)] = 0, ![Out(port)] = @ + 1]
  /\ epc' = "join_out"
  /\ UNCHANGED <<portVars, pending, done, serial_flag, macVars, port, irq>>

\* The same for the output thread; SerialClose goes on to DisposePtr, and
\* SerialOpen returns openErr
JoinOut ==
  /\ epc = "join_out"
  /\ tpc[Out(port)] = "exited"
  /\ tpc' = [tpc EXCEPT ![Out(port)] = "none"]
  /\ IF is_open[port]
     THEN epc' = "dispose" /\ UNCHANGED port
     ELSE epc' = "run" /\ port' = NONE
  /\ signal' = [signal EXCEPT ![Out(port)] = 0]
  /\ UNCHANGED <<portVars, pending, done, serial_flag, macVars, irq>>

\* DisposePtr frees the memory of the deferred tasks
DisposePtr ==
  /\ epc = "dispose" /\ ~irq
  /\ dt_memory' = [dt_memory EXCEPT ![port] = FALSE]
  /\ epc' = "disposed"
  /\ UNCHANGED <<is_open, io_killed, quitting, ioVars, serial_flag, macVars, port, irq>>

\* DisposePtr and SerialClose return
Closed ==
  /\ epc = "disposed" /\ ~irq
  /\ is_open' = [is_open EXCEPT ![port] = FALSE]
  /\ epc' = "run"
  /\ port' = NONE
  /\ UNCHANGED <<dt_memory, io_killed, quitting, ioVars, serial_flag, macVars, irq>>

-----------------------------------------------------------------------------
(* Interrupts and deferred tasks, on the emulator thread *)

\* EmulOp (M68K_EMUL_OP_IRQ) finds INTFLAG_SERIAL set
TakeInterrupt ==
  /\ Interruptible
  /\ serial_flag
  /\ serial_flag' = FALSE
  /\ irq' = TRUE
  /\ UNCHANGED <<portVars, ioVars, macVars, epc, port>>

\* Fault: only the pending flag is tested
PendingOnly == {c \in Channel : is_open[PortOf(c)] /\ pending[c]}

\* What serial_irq calls EnqueueMac for
Completed == {c \in Channel : is_open[PortOf(c)] /\ pending[c] /\ done[c]}

\* SerialInterrupt
SerialInterrupt ==
  /\ irq
  /\ dtq' = dtq \cup Completed
  /\ pending' = [c \in Channel |-> pending[c] /\ c \notin Completed]
  /\ done' = [c \in Channel |-> done[c] /\ c \notin Completed]
  /\ irq' = FALSE
  /\ UNCHANGED <<portVars, signal, tpc, serial_flag, request, performed, epc, port>>

\* The deferred task calls IODone
DeferredTask(c) ==
  /\ Interruptible
  /\ c \in dtq
  /\ dtq' = dtq \ {c}
  /\ request' = [request EXCEPT ![c] = "idle"]
  /\ UNCHANGED <<portVars, ioVars, serial_flag, performed, emulVars>>

-----------------------------------------------------------------------------
(* input_func and output_func, on the I/O threads *)

\* A step of the thread of c that changes nothing but its control point
Goto(c, from, to) ==
  /\ tpc[c] = from
  /\ tpc' = [tpc EXCEPT ![c] = to]

\* sem_wait returns
Wake(c) ==
  /\ Goto(c, "wait", "woken")
  /\ signal[c] > 0
  /\ signal' = [signal EXCEPT ![c] = @ - 1]
  /\ UNCHANGED <<portVars, pending, done, serial_flag, macVars, emulVars>>

\* The test of quitting
TestQuitting(c) ==
  /\ Goto(c, "woken", IF quitting[PortOf(c)] THEN "exited" ELSE "io")
  /\ UNCHANGED <<portVars, pending, done, signal, serial_flag, macVars, emulVars>>

\* read or write returns.  The port is raw with VMIN 1 and VTIME 0, so read
\* returns when there is data and not before.
Perform(c) ==
  /\ Goto(c, "io", "test_killed")
  /\ performed' = [performed EXCEPT ![c] = TRUE]
  /\ UNCHANGED <<portVars, pending, done, signal, serial_flag, dtq, request, emulVars>>

\* The test of io_killed
TestKilled(c) ==
  /\ Goto(c, "test_killed", IF io_killed[PortOf(c)] THEN "abort" ELSE "set_done")
  /\ UNCHANGED <<portVars, pending, done, signal, serial_flag, macVars, emulVars>>

\* Fault: the thread goes on to signal the result
AbortFallsThrough(c) ==
  /\ Goto(c, "abort", "set_done")
  /\ request' = [request EXCEPT ![c] = "idle"]
  /\ done' = [done EXCEPT ![c] = FALSE]
  /\ UNCHANGED <<portVars, pending, signal, serial_flag, dtq, performed, emulVars>>

\* ioResult becomes abortErr, then read_done or write_done is cleared
Abort(c) ==
  /\ Goto(c, "abort", "clear_pending")
  /\ request' = [request EXCEPT ![c] = "idle"]
  /\ done' = [done EXCEPT ![c] = FALSE]
  /\ UNCHANGED <<portVars, pending, signal, serial_flag, dtq, performed, emulVars>>

ClearPending(c) ==
  /\ Goto(c, "clear_pending", "wait")
  /\ pending' = [pending EXCEPT ![c] = FALSE]
  /\ UNCHANGED <<portVars, done, signal, serial_flag, macVars, emulVars>>

\* Fault: no interrupt is triggered
SetDoneQuietly(c) ==
  /\ Goto(c, "set_done", "wait")
  /\ done' = [done EXCEPT ![c] = TRUE]
  /\ UNCHANGED <<portVars, pending, signal, serial_flag, macVars, emulVars>>

\* The result is stored; read_done or write_done is set
SetDone(c) ==
  /\ Goto(c, "set_done", "set_flag")
  /\ done' = [done EXCEPT ![c] = TRUE]
  /\ UNCHANGED <<portVars, pending, signal, serial_flag, macVars, emulVars>>

\* SetInterruptFlag and TriggerInterrupt
SetFlag(c) ==
  /\ Goto(c, "set_flag", "wait")
  /\ serial_flag' = TRUE
  /\ UNCHANGED <<portVars, pending, done, signal, macVars, emulVars>>

Driver ==
  \/ \E p \in Port : Open(p) \/ OpenFails(p) \/ KillIO(p) \/ Close(p)
  \/ \E c \in Channel : Prime(c)
  \/ Allocated \/ OutOfMemory \/ KillWaits \/ KillDone
  \/ JoinIn \/ JoinOut \/ DisposePtr \/ Closed

Interrupt ==
  \/ TakeInterrupt
  \/ SerialInterrupt
  \/ \E c \in Channel : DeferredTask(c)

\* The steps of a thread that do not wait for the device
ThreadRuns(c) ==
  \/ Wake(c) \/ TestQuitting(c) \/ TestKilled(c)
  \/ Abort(c) \/ ClearPending(c) \/ SetDone(c) \/ SetFlag(c)

Thread(c) == ThreadRuns(c) \/ Perform(c)

Next == Driver \/ Interrupt \/ \E c \in Channel : Thread(c)

Spec == Init /\ [][Next]_vars

\* Host code and the traps that the driver calls do not stop, however often they
\* are interrupted; 68k code takes an interrupt and runs deferred tasks before its
\* next call of the driver.  Nothing makes read or write return (Perform): a read
\* waits for data and a write for the line, as long as that takes.
HostSteps ==
  Allocated \/ OutOfMemory \/ KillDone \/ JoinIn \/ JoinOut \/ DisposePtr \/ Closed

Fairness ==
  /\ SF_vars(HostSteps)
  /\ SF_vars(TakeInterrupt) /\ WF_vars(SerialInterrupt)
  /\ \A c \in Channel : SF_vars(DeferredTask(c)) /\ WF_vars(ThreadRuns(c))

FairSpec == Spec /\ Fairness

-----------------------------------------------------------------------------

\* A request is under way exactly while the driver knows of it, as a pending
\* command or as a deferred task, and never as both: SerialPrime never finds
\* a "request is pending" (serial.cpp) that the Device Manager does not.
RequestsMatch ==
  \A c \in Channel :
    /\ request[c] = "busy" <=>
         c \in dtq \/ (pending[c] /\ tpc[c] # "clear_pending")
    /\ ~(c \in dtq /\ pending[c])

\* IODone is only called for a request that the thread has performed, with a
\* deferred task whose memory SerialClose has not freed.
QueuedIsValid ==
  \A c \in dtq :
    request[c] = "busy" /\ performed[c] /\ dt_memory[PortOf(c)]

\* A result is never forgotten between the thread and SerialInterrupt.
DoneIsFlagged ==
  \A c \in Channel :
    pending[c] /\ done[c] => serial_flag \/ irq \/ tpc[c] = "set_flag"

\* What the Device Manager sees of a request, and of a call of KillIO
Status ==
  [c \in Channel |-> IF request[c] = "idle" THEN "idle"
                     ELSE IF performed[c] THEN "performed" ELSE "issued"]
Killing == IF epc = "kill" THEN ChannelsOf(port) ELSE {}

Service == INSTANCE SerialService WITH status <- Status, killing <- Killing

\* The driver, its threads, SerialInterrupt and the deferred tasks keep the
\* driver's promise: a request is completed or aborted once, never both, never
\* before it is performed.  When KillIO returns, no request is left on its port
\* that the host has not performed; one that was performed before the thread
\* tested io_killed may be left, and IODone is still to come for it.
ServiceSpec == Service!Spec

\* A request completes, unless KillIO is called and waits for it, or its thread
\* waits for the device in read or write.  The thread gets there, and once read or
\* write has returned the request does complete.
RequestCompletes ==
  \A c \in Channel :
    (request[c] = "busy" /\ tpc[c] # "io")
      ~> (request[c] = "idle" \/ epc = "kill" \/ tpc[c] = "io")

\* KillIO returns if no thread of its port has passed the test of io_killed, but
\* for the time that one of them is in read or write: KillIO flushes the line,
\* which makes no read return.
KillAborts ==
  (epc = "kill" /\ \A c \in ChannelsOf(port) :
     ~done[c] /\ tpc[c] \notin {"io", "set_done", "set_flag"})
  ~> (epc # "kill" \/ \E c \in ChannelsOf(port) : tpc[c] = "io")

\* KillIO always returns ("KillIO called? Then simply return").
KillReturns == (epc = "kill") ~> (epc # "kill")
=============================================================================
