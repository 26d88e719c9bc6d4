----------------------------- MODULE Interrupts -----------------------------
(***************************************************************************)
(* From a device thread to the interrupt handler: InterruptFlags, the      *)
(* special flags of the emulated CPU, and the emulator thread that sleeps  *)
(* in idle_wait (main_unix.cpp, basilisk_glue.cpp, newcpu.cpp, emul_op.cpp *)
(* and timer_unix.cpp).                                                    *)
(*                                                                         *)
(* A device thread makes its data available, sets its interrupt flag and   *)
(* calls TriggerInterrupt.  The CPU looks at the special flags after every *)
(* 68k instruction: INT becomes DOINT, and DOINT becomes a level 1         *)
(* interrupt if the interrupt mask allows it.  The 68k handler executes    *)
(* M68K_EMUL_OP_IRQ, which tests the flags one after the other.            *)
(*                                                                         *)
(* An update of spcflags reads and writes the whole word.  A build decides *)
(* whether it is atomic (ENABLE_EXCLUSIVE_SPCFLAGS); if it is not, the     *)
(* updates of two threads may interleave and one of them is lost.          *)
(*                                                                         *)
(* Tracing is left out: of its flags only that they are cleared, with a    *)
(* write of the whole word, by MakeFromSR and Exception.  68k code that an *)
(* EMUL_OP calls is left out, with SPCFLAG_BRK, which ends it: MakeFromSR  *)
(* follows.  One thread stands for each flag: flags that the same thread   *)
(* sets interleave less.                                                   *)
(***************************************************************************)
EXTENDS Naturals

CONSTANTS
  N,          \* number of interrupt flags
  Exclusive,  \* builds: are updates of spcflags atomic?
  MaxDepth    \* bound: the innermost of so many nested 68k interrupt handlers
              \* keeps interrupts masked

\* The devices, in the order in which M68K_EMUL_OP_IRQ tests their flags.  The
\* first is the 60Hz thread.
Device == 1..N
SpcFlag == {"STOP", "INT", "DOINT"}

NONE == {"none"}   \* no value of spcflags has been read

ASSUME CountAssumption == N \in Nat \ {0} /\ MaxDepth \in Nat \ {0}
ASSUME BuildAssumption == Exclusive \subseteq BOOLEAN

VARIABLES
  exclusive,       \* is the build's update of spcflags atomic?  It never changes
  data,            \* has the device something that its handler shall see?
  InterruptFlags,  \* the devices whose flag is set
  spcflags,        \* regs.spcflags
  loaded,          \* what a thread has read of spcflags for its update
  erased,          \* has a trap erased SPCFLAG_INT, and none set it since?
  masked,          \* does regs.intmask keep level 1 interrupts off?
  depth,           \* active 68k interrupt handlers
  entered,         \* has the last of them still to execute M68K_EMUL_OP_IRQ?
  epc,             \* control point of the emulator thread
  pos,             \* the flag that M68K_EMUL_OP_IRQ looks at
  dpc              \* control points of the device threads

cpuVars == <<masked, depth, entered>>
spcVars == <<spcflags, loaded, erased>>
vars == <<exclusive, data, InterruptFlags, spcVars, cpuVars, epc, pos, dpc>>

Emulator == 0
Thread == Device \cup {Emulator}

EmulPC == {"run", "idle_check", "idle", "irq", "handle",
           "trap", "sr", "sr_trace", "stop_sr", "stop_trace", "stop",
           "special", "stopped", "stop_clear", "stop_test", "stop_exc",
           "stop_irq", "stop_exit", "doint", "doint_test", "doint_exc",
           "doint_irq", "int", "int_set"}
DevicePC == {"idle", "flag", "resume", "spcflag"}

TypeOK ==
  /\ exclusive \in Exclusive
  /\ data \subseteq Device
  /\ InterruptFlags \subseteq Device
  /\ spcflags \subseteq SpcFlag
  /\ loaded \in [Thread -> (SUBSET SpcFlag) \cup {NONE}]
  /\ erased \in BOOLEAN
  /\ masked \in BOOLEAN
  /\ depth \in 0..MaxDepth
  /\ entered \in BOOLEAN
  /\ epc \in EmulPC
  /\ pos \in 1..(N + 1)
  /\ dpc \in [Device -> DevicePC]

Init ==
  /\ exclusive \in Exclusive
  /\ data = {}
  /\ InterruptFlags = {}
  /\ spcflags = {}
  /\ loaded = [t \in Thread |-> NONE]
  /\ erased = FALSE
  /\ masked = TRUE
  /\ depth = 0
  /\ entered = FALSE
  /\ epc = "run"
  /\ pos = 1
  /\ dpc = [d \in Device |-> "idle"]

-----------------------------------------------------------------------------
(* SPCFLAGS_SET and SPCFLAGS_CLEAR *)

UpdatesSpcflags(t) ==
  IF t = Emulator
  THEN \/ epc \in {"trap", "sr", "sr_trace", "stop_sr", "stop_trace", "stop",
                   "stop_clear", "stop_exc", "stop_irq", "stop_exit",
                   "doint_exc", "doint_irq", "int_set"}
       \/ epc = "doint" /\ "DOINT" \in spcflags
       \/ epc = "int" /\ "INT" \in spcflags
  ELSE dpc[t] = "spcflag"

\* An update that is not atomic reads the word before it writes it.
LoadSpcflags(t) ==
  /\ ~exclusive
  /\ UpdatesSpcflags(t)
  /\ loaded[t] = NONE
  /\ loaded' = [loaded EXCEPT ![t] = spcflags]
  /\ UNCHANGED <<exclusive, data, InterruptFlags, spcflags, erased, cpuVars, epc, pos, dpc>>

\* Thread t writes spcflags: it removes and adds flags.
StoreSpcflags(t, remove, add) ==
  /\ IF exclusive
     THEN spcflags' = (spcflags \ remove) \cup add
     ELSE /\ loaded[t] # NONE
          /\ spcflags' = (loaded[t] \ remove) \cup add
  /\ loaded' = [loaded EXCEPT ![t] = NONE]

Update(t, remove, add) ==
  /\ StoreSpcflags(t, remove, add)
  /\ erased' = (erased /\ "INT" \notin spcflags')

-----------------------------------------------------------------------------
(* The device threads *)

PostData(d) ==
  /\ dpc[d] = "idle"
  /\ data' = data \cup {d}
  /\ dpc' = [dpc EXCEPT ![d] = "flag"]
  /\ UNCHANGED <<exclusive, InterruptFlags, spcVars, cpuVars, epc, pos>>

SetInterruptFlag(d) ==
  /\ dpc[d] = "flag"
  /\ InterruptFlags' = InterruptFlags \cup {d}
  /\ dpc' = [dpc EXCEPT ![d] = "resume"]
  /\ UNCHANGED <<exclusive, data, spcVars, cpuVars, epc, pos>>

\* Fault: the emulator thread is not woken
SkipResume(d) ==
  /\ dpc[d] = "resume"
  /\ dpc' = [dpc EXCEPT ![d] = "spcflag"]
  /\ UNCHANGED <<exclusive, data, InterruptFlags, spcVars, cpuVars, epc, pos>>

\* TriggerInterrupt: idle_resume
IdleResume(d) ==
  /\ dpc[d] = "resume"
  /\ epc' = IF epc = "idle" THEN "sr" ELSE epc
  /\ dpc' = [dpc EXCEPT ![d] = "spcflag"]
  /\ UNCHANGED <<exclusive, data, InterruptFlags, spcVars, cpuVars, pos>>

\* TriggerInterrupt: SPCFLAGS_SET(SPCFLAG_INT)
SetSpcInt(d) ==
  /\ dpc[d] = "spcflag"
  /\ Update(d, {}, {"INT"})
  /\ dpc' = [dpc EXCEPT ![d] = "idle"]
  /\ UNCHANGED <<exclusive, data, InterruptFlags, cpuVars, epc, pos>>

-----------------------------------------------------------------------------
(* 68k instructions *)

\* An instruction that concerns none of this
PlainInstruction ==
  /\ epc = "run"
  /\ ~entered
  /\ epc' = "special"
  /\ UNCHANGED <<exclusive, data, InterruptFlags, spcVars, cpuVars, pos, dpc>>

\* A-line and F-line instructions, which are the Mac's traps, and others that
\* end in Exception
Trap ==
  /\ epc = "run"
  /\ ~entered
  /\ epc' = "trap"
  /\ UNCHANGED <<exclusive, data, InterruptFlags, spcVars, cpuVars, pos, dpc>>

\* Exception ends with SPCFLAGS_CLEAR(SPCFLAG_TRACE | SPCFLAG_DOTRACE).  It
\* changes none of the flags of the model, but writes them all; nothing sets
\* SPCFLAG_INT or looks at the interrupt flags after it.
TrapDone ==
  /\ epc = "trap"
  /\ StoreSpcflags(Emulator, {}, {})
  /\ erased' = ("INT" \notin spcflags' /\ (erased \/ "INT" \in spcflags))
  /\ epc' = "special"
  /\ UNCHANGED <<exclusive, data, InterruptFlags, cpuVars, pos, dpc>>

\* An instruction that writes the status register, and every EMUL_OP, which
\* ends with MakeFromSR; STOP does so too, and stops with the mask open
WriteSR(mask, pc) ==
  /\ epc = "run"
  /\ ~entered
  /\ mask \/ depth < MaxDepth
  /\ pc = "stop_sr" => ~mask
  /\ masked' = mask
  /\ epc' = pc
  /\ UNCHANGED <<exclusive, data, InterruptFlags, spcVars, depth, entered, pos, dpc>>

\* The 68k interrupt handler returns: interrupts are taken with the mask open
Rte ==
  /\ epc = "run"
  /\ ~entered
  /\ depth > 0
  /\ depth' = depth - 1
  /\ masked' = FALSE
  /\ epc' = "sr"
  /\ UNCHANGED <<exclusive, data, InterruptFlags, spcVars, entered, pos, dpc>>

\* Fault: MakeFromSR does not set SPCFLAG_INT
SkipSRDone ==
  /\ epc \in {"sr", "stop_sr"}
  /\ epc' = IF epc = "sr" THEN "sr_trace" ELSE "stop_trace"
  /\ UNCHANGED <<exclusive, data, InterruptFlags, spcVars, cpuVars, pos, dpc>>

\* MakeFromSR: SPCFLAGS_SET(SPCFLAG_INT)
SRDone ==
  /\ epc \in {"sr", "stop_sr"}
  /\ Update(Emulator, {}, {"INT"})
  /\ epc' = IF epc = "sr" THEN "sr_trace" ELSE "stop_trace"
  /\ UNCHANGED <<exclusive, data, InterruptFlags, cpuVars, pos, dpc>>

\* MakeFromSR ends with SPCFLAGS_CLEAR(SPCFLAG_TRACE)
SRTraceDone ==
  /\ epc \in {"sr_trace", "stop_trace"}
  /\ Update(Emulator, {}, {})
  /\ epc' = IF epc = "sr_trace" THEN "special" ELSE "stop"
  /\ UNCHANGED <<exclusive, data, InterruptFlags, cpuVars, pos, dpc>>

\* m68k_setstopped
Stop ==
  /\ epc = "stop"
  /\ Update(Emulator, {}, {"STOP"})
  /\ epc' = "special"
  /\ UNCHANGED <<exclusive, data, InterruptFlags, cpuVars, pos, dpc>>

\* M68K_EMUL_OP_IDLE_TIME finds no event
IdleCheck ==
  /\ epc = "run"
  /\ ~entered
  /\ depth = 0
  /\ epc' = "idle_check"
  /\ UNCHANGED <<exclusive, data, InterruptFlags, spcVars, cpuVars, pos, dpc>>

\* idle_wait: pthread_cond_wait, with nothing tested under idle_lock
IdleWait ==
  /\ epc = "idle_check"
  /\ epc' = "idle"
  /\ UNCHANGED <<exclusive, data, InterruptFlags, spcVars, cpuVars, pos, dpc>>

-----------------------------------------------------------------------------
(* M68K_EMUL_OP_IRQ *)

EmulOpIRQ ==
  /\ epc = "run"
  /\ entered
  /\ entered' = FALSE
  /\ pos' = 1
  /\ epc' = "irq"
  /\ UNCHANGED <<exclusive, data, InterruptFlags, spcVars, masked, depth, dpc>>

\* Fault: clears every flag at once
ClearInterruptFlags ==
  /\ epc = "irq"
  /\ pos \in InterruptFlags
  /\ InterruptFlags' = {}
  /\ epc' = "handle"
  /\ UNCHANGED <<exclusive, data, spcVars, cpuVars, pos, dpc>>

\* The flag is set: it is cleared before the device is looked at
ClearInterruptFlag ==
  /\ epc = "irq"
  /\ pos \in InterruptFlags
  /\ InterruptFlags' = InterruptFlags \ {pos}
  /\ epc' = "handle"
  /\ UNCHANGED <<exclusive, data, spcVars, cpuVars, pos, dpc>>

\* SerialInterrupt, EtherInterrupt, TimerInterrupt and so on: one step here,
\* although they run 68k code, in which other interrupts may be taken
HandleDevice ==
  /\ epc = "handle"
  /\ data' = data \ {pos}
  /\ pos' = pos + 1
  /\ epc' = "irq"
  /\ UNCHANGED <<exclusive, InterruptFlags, spcVars, cpuVars, dpc>>

\* Fault: does not stop after the last flag
SkipPastEnd ==
  /\ epc = "irq"
  /\ pos \notin InterruptFlags
  /\ pos' = pos + 1
  /\ UNCHANGED <<exclusive, data, InterruptFlags, spcVars, cpuVars, epc, dpc>>

SkipDevice ==
  /\ epc = "irq"
  /\ pos \in Device \ InterruptFlags
  /\ pos' = pos + 1
  /\ UNCHANGED <<exclusive, data, InterruptFlags, spcVars, cpuVars, epc, dpc>>

IRQDone ==
  /\ epc = "irq"
  /\ pos = N + 1
  /\ pos' = 1
  /\ epc' = "sr"
  /\ UNCHANGED <<exclusive, data, InterruptFlags, spcVars, cpuVars, dpc>>

-----------------------------------------------------------------------------
(* m68k_do_specialties *)

\* intlev() > regs.intmask
IntlevAboveMask == InterruptFlags # {} /\ ~masked

\* SPCFLAG_STOP, then SPCFLAG_DOINT, is tested
Special ==
  /\ epc = "special"
  /\ epc' = IF "STOP" \in spcflags THEN "stopped" ELSE "doint"
  /\ UNCHANGED <<exclusive, data, InterruptFlags, spcVars, cpuVars, pos, dpc>>

\* The loop of a stopped CPU waits for INT or DOINT
StopLoop ==
  /\ epc = "stopped"
  /\ \/ "STOP" \notin spcflags /\ epc' = "doint"
     \/ /\ "STOP" \in spcflags
        /\ "INT" \in spcflags \/ "DOINT" \in spcflags
        /\ epc' = "stop_clear"
  /\ UNCHANGED <<exclusive, data, InterruptFlags, spcVars, cpuVars, pos, dpc>>

StopClear ==
  /\ epc = "stop_clear"
  /\ Update(Emulator, {"INT", "DOINT"}, {})
  /\ epc' = "stop_test"
  /\ UNCHANGED <<exclusive, data, InterruptFlags, cpuVars, pos, dpc>>

ClearDoint ==
  /\ epc = "doint"
  /\ "DOINT" \in spcflags \/ loaded[Emulator] # NONE
  /\ Update(Emulator, {"DOINT"}, {})
  /\ epc' = "doint_test"
  /\ UNCHANGED <<exclusive, data, InterruptFlags, cpuVars, pos, dpc>>

SkipDoint ==
  /\ epc = "doint"
  /\ "DOINT" \notin spcflags
  /\ loaded[Emulator] = NONE
  /\ epc' = "int"
  /\ UNCHANGED <<exclusive, data, InterruptFlags, spcVars, cpuVars, pos, dpc>>

Interrupt ==
  /\ epc \in {"stop_test", "doint_test"}
  /\ IntlevAboveMask
  /\ epc' = IF epc = "stop_test" THEN "stop_exc" ELSE "doint_exc"
  /\ UNCHANGED <<exclusive, data, InterruptFlags, spcVars, cpuVars, pos, dpc>>

\* Interrupt(1): the end of Exception, then the mask is raised
EnterHandler ==
  /\ epc \in {"stop_exc", "doint_exc"}
  /\ Update(Emulator, {}, {})
  /\ masked' = TRUE
  /\ depth' = depth + 1
  /\ entered' = TRUE
  /\ epc' = IF epc = "stop_exc" THEN "stop_irq" ELSE "doint_irq"
  /\ UNCHANGED <<exclusive, data, InterruptFlags, pos, dpc>>

NoInterrupt ==
  /\ epc \in {"stop_test", "doint_test"}
  /\ ~IntlevAboveMask
  /\ epc' = IF epc = "stop_test" THEN "stopped" ELSE "int"
  /\ UNCHANGED <<exclusive, data, InterruptFlags, spcVars, cpuVars, pos, dpc>>

\* Interrupt ends with SPCFLAGS_SET(SPCFLAG_INT)
InterruptDone ==
  /\ epc \in {"stop_irq", "doint_irq"}
  /\ Update(Emulator, {}, {"INT"})
  /\ epc' = IF epc = "stop_irq" THEN "stop_exit" ELSE "int"
  /\ UNCHANGED <<exclusive, data, InterruptFlags, cpuVars, pos, dpc>>

StopExit ==
  /\ epc = "stop_exit"
  /\ Update(Emulator, {"STOP"}, {})
  /\ epc' = "stopped"
  /\ UNCHANGED <<exclusive, data, InterruptFlags, cpuVars, pos, dpc>>

ClearInt ==
  /\ epc = "int"
  /\ "INT" \in spcflags \/ loaded[Emulator] # NONE
  /\ Update(Emulator, {"INT"}, {})
  /\ epc' = "int_set"
  /\ UNCHANGED <<exclusive, data, InterruptFlags, cpuVars, pos, dpc>>

\* The interrupt is taken after one more instruction
SetDoint ==
  /\ epc = "int_set"
  /\ Update(Emulator, {}, {"DOINT"})
  /\ epc' = "run"
  /\ UNCHANGED <<exclusive, data, InterruptFlags, cpuVars, pos, dpc>>

SpecialDone ==
  /\ epc = "int"
  /\ "INT" \notin spcflags
  /\ loaded[Emulator] = NONE
  /\ epc' = "run"
  /\ UNCHANGED <<exclusive, data, InterruptFlags, spcVars, cpuVars, pos, dpc>>

-----------------------------------------------------------------------------

Trigger(d) == SetInterruptFlag(d) \/ IdleResume(d) \/ SetSpcInt(d)

Instruction ==
  \/ PlainInstruction
  \/ Trap
  \/ \E mask \in BOOLEAN, pc \in {"sr", "stop_sr"} : WriteSR(mask, pc)
  \/ Rte
  \/ IdleCheck

EmulOp == EmulOpIRQ \/ ClearInterruptFlag \/ HandleDevice \/ SkipDevice \/ IRQDone

Specialties ==
  \/ Special \/ StopLoop \/ StopClear \/ ClearDoint \/ SkipDoint \/ Interrupt
  \/ EnterHandler \/ NoInterrupt \/ InterruptDone \/ StopExit \/ ClearInt \/ SetDoint \/ SpecialDone

EmulatorThread ==
  \/ LoadSpcflags(Emulator)
  \/ Instruction \/ TrapDone \/ SRDone \/ SRTraceDone \/ Stop \/ IdleWait
  \/ EmulOp
  \/ Specialties

DeviceThread(d) == LoadSpcflags(d) \/ Trigger(d)

Next == EmulatorThread \/ \E d \in Device : PostData(d) \/ DeviceThread(d)

Spec == Init /\ [][Next]_vars

(***************************************************************************)
(* Fairness.  The threads are scheduled, and the 60Hz thread keeps         *)
(* posting.  68k code does not keep interrupts off for ever: its handlers  *)
(* return, it opens the mask again and again, and does not always close it *)
(* with the very next instruction.                                         *)
(***************************************************************************)
Fairness ==
  /\ WF_vars(EmulatorThread)
  /\ \A d \in Device : WF_vars(DeviceThread(d))
  /\ WF_vars(PostData(1))
  /\ SF_vars(Rte)
  /\ SF_vars(WriteSR(FALSE, "sr"))
  /\ SF_vars(PlainInstruction /\ ~masked /\ "DOINT" \in spcflags)

FairSpec == Spec /\ Fairness

-----------------------------------------------------------------------------

\* A device's data is never forgotten: its flag is set, or about to be, or
\* its handler is about to look.  M68K_EMUL_OP_IRQ clears one flag at a time
\* and before it calls the handler.
NoLostData ==
  \A d \in data :
    d \in InterruptFlags \/ dpc[d] = "flag" \/ (epc = "handle" /\ pos = d)

\* A set interrupt flag is not stranded (TriggerInterrupt, MakeFromSR,
\* m68k_do_specialties): while the mask is open, a special flag calls for
\* attention, or a thread is about to set it, or the CPU is between clearing
\* it and looking at the interrupt flags.  INT and DOINT are consumed while the
\* mask is closed; that MakeFromSR sets INT anew makes up for it.  The one
\* exception: where updates are not atomic, the end of Exception erases an INT
\* that comes while it executes, and the flag waits for the next update that
\* sets INT, of a device, an interrupt or MakeFromSR.  No other update of this
\* model strands a flag, whatever it races with.
NoStrandedFlag ==
  InterruptFlags # {} =>
    \/ masked
    \/ "INT" \in spcflags \/ "DOINT" \in spcflags
    \/ \E d \in Device : dpc[d] \in {"resume", "spcflag"}
    \/ epc \in {"sr", "stop_sr", "stop_test", "stop_exc", "doint_test", "doint_exc",
                "int_set"}
    \/ erased /\ ~exclusive

\* What a device has posted is handled, in a build whose special flags are
\* atomic.  A wakeup that idle_wait misses waits for the next tick of the 60Hz
\* thread.  (Without atomic flags a device thread may undo every SPCFLAG_DOINT,
\* or bring SPCFLAG_STOP back after the CPU has left STOP.)
DataIsHandled == \A d \in Device : (d \in data /\ exclusive) ~> (d \notin data)
=============================================================================
