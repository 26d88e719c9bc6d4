-------------------------- MODULE InterruptsProofs --------------------------
(***************************************************************************)
(* Proofs about Interrupts, for any number of devices and with or without  *)
(* atomic updates of spcflags.                                             *)
(***************************************************************************)
EXTENDS Interrupts, TLAPS

\* Interrupt handlers start with the mask closed, and the innermost one keeps
\* it closed.  Only devices are handled.
HandlerState ==
  /\ epc \in {"stop_irq", "doint_irq", "stop_exit", "irq", "handle"} => masked = TRUE
  /\ epc \in {"stop_exc", "doint_exc"} => masked = FALSE
  /\ entered => masked = TRUE
  /\ depth = MaxDepth => masked = TRUE
  /\ epc = "handle" => pos \in Device

\* MakeFromSR goes on, and STOP executes, after SPCFLAG_INT has been set; no
\* other thread clears it, and the emulator thread has not read spcflags before.
IntAfterSR ==
  epc \in {"sr_trace", "stop_trace", "stop"} =>
    /\ "INT" \in spcflags
    /\ loaded[Emulator] # NONE => "INT" \in loaded[Emulator]

\* An instruction starts with nothing read.  SPCFLAG_DOINT comes up behind the
\* back of Exception only by the write of a device thread, which sets
\* SPCFLAG_INT too.
DointIsLoaded ==
  /\ epc = "run" => loaded[Emulator] = NONE
  /\ epc = "trap" /\ loaded[Emulator] # NONE =>
       "INT" \in spcflags \/ "DOINT" \in loaded[Emulator] \/ "DOINT" \notin spcflags

Inv ==
  TypeOK /\ HandlerState /\ IntAfterSR /\ DointIsLoaded /\ NoLostData /\ NoStrandedFlag

\* An update yields special flags, with those that it adds.
LEMMA UpdateSpcflags ==
  ASSUME TypeOK, NEW t \in Thread, NEW remove, NEW add, add \subseteq SpcFlag,
         StoreSpcflags(t, remove, add)
  PROVE  /\ spcflags' \subseteq SpcFlag
         /\ add \subseteq spcflags'
         /\ loaded' = [loaded EXCEPT ![t] = NONE]
         /\ loaded' \in [Thread -> (SUBSET SpcFlag) \cup {NONE}]
<1>1. loaded[t] # NONE => loaded[t] \subseteq SpcFlag
  BY DEF TypeOK
<1>2. PICK old : old \subseteq SpcFlag /\ spcflags' = (old \ remove) \cup add
  BY <1>1 DEF StoreSpcflags, TypeOK
<1>3. loaded' = [loaded EXCEPT ![t] = NONE]
  BY DEF StoreSpcflags
<1>4. loaded' \in [Thread -> (SUBSET SpcFlag) \cup {NONE}]
  BY <1>3 DEF TypeOK
<1> QED
  BY <1>2, <1>3, <1>4

\* The emulator thread's updates yield special flags.
LEMMA EmulatorUpdate ==
  ASSUME TypeOK,
         \/ TrapDone \/ SRDone \/ SRTraceDone \/ Stop \/ StopClear \/ ClearDoint
         \/ EnterHandler \/ InterruptDone \/ StopExit \/ ClearInt \/ SetDoint
  PROVE  /\ spcflags' \subseteq SpcFlag
         /\ loaded' = [loaded EXCEPT ![Emulator] = NONE]
         /\ loaded' \in [Thread -> (SUBSET SpcFlag) \cup {NONE}]
         /\ SRDone \/ InterruptDone => "INT" \in spcflags'
         /\ SetDoint => "DOINT" \in spcflags'
<1> Emulator \in Thread
  BY DEF Thread
<1> {} \subseteq SpcFlag /\ {"INT"} \subseteq SpcFlag /\ {"DOINT"} \subseteq SpcFlag
    /\ {"STOP"} \subseteq SpcFlag
  BY DEF SpcFlag
<1>1. CASE SRDone \/ InterruptDone
  <2>1. StoreSpcflags(Emulator, {}, {"INT"})
    BY <1>1 DEF SRDone, InterruptDone, Update
  <2>2. ~SetDoint
    BY <1>1 DEF SRDone, InterruptDone, SetDoint
  <2> QED
    BY <2>1, <2>2, UpdateSpcflags
<1>2. CASE Stop
  <2>1. StoreSpcflags(Emulator, {}, {"STOP"}) /\ epc = "stop"
    BY <1>2 DEF Stop, Update
  <2>2. ~SRDone /\ ~InterruptDone /\ ~SetDoint
    BY <2>1 DEF SRDone, InterruptDone, SetDoint
  <2> QED
    BY <2>1, <2>2, UpdateSpcflags
<1>3. CASE SetDoint
  <2>1. StoreSpcflags(Emulator, {}, {"DOINT"}) /\ epc = "int_set"
    BY <1>3 DEF SetDoint, Update
  <2>2. ~SRDone /\ ~InterruptDone
    BY <2>1 DEF SRDone, InterruptDone
  <2> QED
    BY <2>1, <2>2, UpdateSpcflags
<1>4. CASE TrapDone \/ SRTraceDone \/ EnterHandler \/ StopClear \/ ClearDoint
           \/ StopExit \/ ClearInt
  <2>1. \E remove : StoreSpcflags(Emulator, remove, {})
    BY <1>4 DEF TrapDone, SRTraceDone, EnterHandler, StopClear, ClearDoint, StopExit,
                ClearInt, Update
  <2>2. ~SRDone /\ ~InterruptDone /\ ~SetDoint
    BY <1>4 DEF TrapDone, SRTraceDone, EnterHandler, StopClear, ClearDoint, StopExit,
                ClearInt, SRDone, InterruptDone, SetDoint
  <2> QED
    BY <2>1, <2>2, UpdateSpcflags
<1> QED
  BY <1>1, <1>2, <1>3, <1>4

\* The device threads' updates set SPCFLAG_INT.
LEMMA DeviceUpdate ==
  ASSUME TypeOK, NEW d \in Device, SetSpcInt(d)
  PROVE  /\ spcflags' \subseteq SpcFlag
         /\ "INT" \in spcflags'
         /\ loaded' = [loaded EXCEPT ![d] = NONE]
         /\ loaded' \in [Thread -> (SUBSET SpcFlag) \cup {NONE}]
<1>1. StoreSpcflags(d, {}, {"INT"}) /\ {"INT"} \subseteq SpcFlag /\ d \in Thread
  BY DEF SetSpcInt, Update, SpcFlag, Thread
<1> QED
  BY <1>1, UpdateSpcflags

\* Every step keeps the types.
LEMMA TypeStep ==
  ASSUME TypeOK, HandlerState, [Next]_vars
  PROVE  TypeOK'
<1> USE DEF TypeOK, cpuVars, spcVars, EmulPC, DevicePC
<1>1. CASE \E d \in Device : PostData(d)
  BY <1>1 DEF PostData
<1>2. CASE \E d \in Device : SetInterruptFlag(d)
  BY <1>2 DEF SetInterruptFlag
<1>3. CASE \E d \in Device : IdleResume(d)
  BY <1>3 DEF IdleResume
<1>4. CASE \E d \in Device : SetSpcInt(d)
  BY <1>4, DeviceUpdate DEF SetSpcInt, Update
<1>5. CASE \E t \in Thread : LoadSpcflags(t)
  BY <1>5 DEF LoadSpcflags
<1>6. CASE PlainInstruction \/ Trap \/ IdleCheck \/ IdleWait
  BY <1>6 DEF PlainInstruction, Trap, IdleCheck, IdleWait
<1>7. CASE \E mask \in BOOLEAN, pc \in {"sr", "stop_sr"} : WriteSR(mask, pc)
  BY <1>7 DEF WriteSR
<1>8. CASE Rte
  <2>1. masked' \in BOOLEAN
    BY <1>8 DEF Rte
  <2>2. depth' \in 0..MaxDepth
    BY <1>8, CountAssumption DEF Rte
  <2> QED
    BY <1>8, <2>1, <2>2 DEF Rte
<1>9. CASE TrapDone \/ SRDone \/ SRTraceDone \/ Stop \/ StopClear \/ ClearDoint
           \/ InterruptDone \/ StopExit \/ ClearInt \/ SetDoint
  BY <1>9, EmulatorUpdate
     DEF TrapDone, SRDone, SRTraceDone, Stop, StopClear, ClearDoint, InterruptDone,
         StopExit, ClearInt, SetDoint, Update
<1>10. CASE EmulOpIRQ
  <2>1. entered' \in BOOLEAN
    BY <1>10 DEF EmulOpIRQ
  <2>2. pos' \in 1..(N + 1)
    BY <1>10, CountAssumption DEF EmulOpIRQ
  <2> QED
    BY <1>10, <2>1, <2>2 DEF EmulOpIRQ
<1>11. CASE ClearInterruptFlag \/ HandleDevice \/ SkipDevice \/ IRQDone
  <2>1. epc = "handle" => pos \in Device
    BY DEF HandlerState
  <2>2. pos' \in 1..(N + 1)
    BY <1>11, <2>1, CountAssumption
       DEF Device, ClearInterruptFlag, HandleDevice, SkipDevice, IRQDone
  <2> QED
    BY <1>11, <2>2 DEF ClearInterruptFlag, HandleDevice, SkipDevice, IRQDone
<1>12. CASE Special \/ StopLoop \/ SkipDoint \/ Interrupt \/ NoInterrupt \/ SpecialDone
  BY <1>12 DEF Special, StopLoop, SkipDoint, Interrupt, NoInterrupt, SpecialDone
<1>13. CASE EnterHandler
  <2>1. depth' \in 0..MaxDepth
    BY <1>13, CountAssumption DEF EnterHandler, HandlerState
  <2> QED
    BY <1>13, <2>1, EmulatorUpdate DEF EnterHandler, Update
<1>14. CASE UNCHANGED vars
  BY <1>14 DEF vars
<1> QED
  BY <1>1, <1>2, <1>3, <1>4, <1>5, <1>6, <1>7, <1>8, <1>9, <1>10, <1>11, <1>12, <1>13, <1>14
     DEF Next, EmulatorThread, DeviceThread, Trigger, Instruction, Thread, Specialties, EmulOp

\* Every step keeps the mask closed in interrupt handlers.
LEMMA MaskStep ==
  ASSUME TypeOK, HandlerState, [Next]_vars
  PROVE  HandlerState'
<1> USE DEF TypeOK, HandlerState, cpuVars, spcVars
<1>1. CASE \E d \in Device : PostData(d) \/ SetInterruptFlag(d) \/ IdleResume(d) \/ SetSpcInt(d)
  BY <1>1 DEF PostData, SetInterruptFlag, IdleResume, SetSpcInt
<1>2. CASE \E t \in Thread : LoadSpcflags(t)
  BY <1>2 DEF LoadSpcflags
<1>3. CASE PlainInstruction \/ Trap \/ TrapDone \/ IdleCheck \/ IdleWait \/ SRDone
           \/ SRTraceDone \/ Stop
  BY <1>3 DEF PlainInstruction, Trap, TrapDone, IdleCheck, IdleWait, SRDone, SRTraceDone,
              Stop
<1>4. CASE \E mask \in BOOLEAN, pc \in {"sr", "stop_sr"} : WriteSR(mask, pc)
  BY <1>4 DEF WriteSR
<1>5. CASE Rte
  BY <1>5 DEF Rte
<1>6. CASE EmulOp
  BY <1>6 DEF EmulOp, EmulOpIRQ, ClearInterruptFlag, HandleDevice, SkipDevice, IRQDone
<1>7. CASE Specialties
  BY <1>7 DEF Specialties, Special, StopLoop, StopClear, ClearDoint, SkipDoint,
              Interrupt, EnterHandler, NoInterrupt, InterruptDone, StopExit, ClearInt,
              SetDoint, SpecialDone, IntlevAboveMask
<1>8. CASE UNCHANGED vars
  BY <1>8 DEF vars
<1> QED
  BY <1>1, <1>2, <1>3, <1>4, <1>5, <1>6, <1>7, <1>8
     DEF Next, EmulatorThread, DeviceThread, Trigger, Instruction, Thread

\* Every step keeps SPCFLAG_INT until MakeFromSR and STOP have been executed.
LEMMA SRStep ==
  ASSUME TypeOK, IntAfterSR, [Next]_vars
  PROVE  IntAfterSR'
<1> USE DEF TypeOK, IntAfterSR, cpuVars, spcVars
<1>1. CASE \E d \in Device : PostData(d) \/ SetInterruptFlag(d) \/ IdleResume(d)
  BY <1>1 DEF PostData, SetInterruptFlag, IdleResume
<1>2. CASE \E d \in Device : SetSpcInt(d)
  <2>1. PICK d \in Device : SetSpcInt(d)
    BY <1>2
  <2>2. d # Emulator
    BY DEF Device, Emulator
  <2>3. loaded'[Emulator] = loaded[Emulator] /\ "INT" \in spcflags'
    BY <2>1, <2>2, DeviceUpdate DEF Thread
  <2> QED
    BY <2>1, <2>3 DEF SetSpcInt
<1>3. CASE \E t \in Thread : LoadSpcflags(t)
  BY <1>3 DEF LoadSpcflags
<1>4. CASE SRDone
  BY <1>4, EmulatorUpdate DEF Thread
<1>5. CASE SRTraceDone
  <2>1. "INT" \in spcflags'
    BY <1>5 DEF SRTraceDone, Update, StoreSpcflags
  <2> QED
    BY <1>5, <2>1, EmulatorUpdate DEF Thread
<1>6. CASE PlainInstruction \/ Trap \/ TrapDone \/ IdleCheck \/ IdleWait \/ Stop \/ Rte
  BY <1>6 DEF PlainInstruction, Trap, TrapDone, IdleCheck, IdleWait, Stop, Rte
<1>7. CASE \E mask \in BOOLEAN, pc \in {"sr", "stop_sr"} : WriteSR(mask, pc)
  BY <1>7 DEF WriteSR
<1>8. CASE EmulOp
  BY <1>8 DEF EmulOp, EmulOpIRQ, ClearInterruptFlag, HandleDevice, SkipDevice, IRQDone
<1>9. CASE Specialties
  BY <1>9 DEF Specialties, Special, StopLoop, StopClear, ClearDoint, SkipDoint,
              Interrupt, EnterHandler, NoInterrupt, InterruptDone, StopExit, ClearInt,
              SetDoint, SpecialDone
<1>10. CASE UNCHANGED vars
  BY <1>10 DEF vars
<1> QED
  BY <1>1, <1>2, <1>3, <1>4, <1>5, <1>6, <1>7, <1>8, <1>9, <1>10
     DEF Next, EmulatorThread, DeviceThread, Trigger, Instruction, Thread

\* Every step keeps what Exception has read of SPCFLAG_DOINT.
LEMMA DointStep ==
  ASSUME TypeOK, DointIsLoaded, [Next]_vars
  PROVE  DointIsLoaded'
<1> USE DEF TypeOK, DointIsLoaded, cpuVars, spcVars
<1>1. CASE \E d \in Device : PostData(d) \/ SetInterruptFlag(d) \/ IdleResume(d)
  BY <1>1 DEF PostData, SetInterruptFlag, IdleResume
<1>2. CASE \E d \in Device : SetSpcInt(d)
  <2>1. PICK d \in Device : SetSpcInt(d)
    BY <1>2
  <2>2. d # Emulator
    BY DEF Device, Emulator
  <2>3. loaded'[Emulator] = loaded[Emulator] /\ "INT" \in spcflags'
    BY <2>1, <2>2, DeviceUpdate DEF Thread
  <2> QED
    BY <2>1, <2>3 DEF SetSpcInt
<1>3. CASE \E t \in Thread : LoadSpcflags(t)
  BY <1>3 DEF LoadSpcflags, UpdatesSpcflags
<1>4. CASE SetDoint
  BY <1>4, EmulatorUpdate DEF SetDoint, Thread
<1>5. CASE PlainInstruction \/ Trap \/ TrapDone \/ IdleCheck \/ IdleWait \/ Stop \/ Rte \/ SRDone
           \/ SRTraceDone
  BY <1>5 DEF PlainInstruction, Trap, TrapDone, IdleCheck, IdleWait, Stop, Rte, SRDone,
              SRTraceDone
<1>6. CASE \E mask \in BOOLEAN, pc \in {"sr", "stop_sr"} : WriteSR(mask, pc)
  BY <1>6 DEF WriteSR
<1>7. CASE EmulOp
  BY <1>7 DEF EmulOp, EmulOpIRQ, ClearInterruptFlag, HandleDevice, SkipDevice, IRQDone
<1>8. CASE Specialties /\ ~SetDoint
  BY <1>8 DEF Specialties, Special, StopLoop, StopClear, ClearDoint, SkipDoint,
              Interrupt, EnterHandler, NoInterrupt, InterruptDone, StopExit, ClearInt,
              SpecialDone
<1>9. CASE UNCHANGED vars
  BY <1>9 DEF vars
<1> QED
  BY <1>1, <1>2, <1>3, <1>4, <1>5, <1>6, <1>7, <1>8, <1>9
     DEF Next, EmulatorThread, DeviceThread, Trigger, Instruction, Thread

\* Every step keeps track of the devices' data.
LEMMA DataStep ==
  ASSUME TypeOK, NoLostData, [Next]_vars
  PROVE  NoLostData'
<1> USE DEF TypeOK, NoLostData, cpuVars, spcVars
<1>1. CASE \E d \in Device : PostData(d) \/ SetInterruptFlag(d) \/ IdleResume(d) \/ SetSpcInt(d)
  BY <1>1 DEF PostData, SetInterruptFlag, IdleResume, SetSpcInt
<1>2. CASE \E t \in Thread : LoadSpcflags(t)
  BY <1>2 DEF LoadSpcflags
<1>3. CASE PlainInstruction \/ Trap \/ TrapDone \/ IdleCheck \/ IdleWait \/ SRDone
           \/ SRTraceDone \/ Stop \/ Rte
  BY <1>3 DEF PlainInstruction, Trap, TrapDone, IdleCheck, IdleWait, SRDone, SRTraceDone,
              Stop, Rte
<1>4. CASE \E mask \in BOOLEAN, pc \in {"sr", "stop_sr"} : WriteSR(mask, pc)
  BY <1>4 DEF WriteSR
<1>5. CASE EmulOp
  BY <1>5 DEF EmulOp, EmulOpIRQ, ClearInterruptFlag, HandleDevice, SkipDevice, IRQDone
<1>6. CASE Specialties
  BY <1>6 DEF Specialties, Special, StopLoop, StopClear, ClearDoint, SkipDoint,
              Interrupt, EnterHandler, NoInterrupt, InterruptDone, StopExit, ClearInt,
              SetDoint, SpecialDone, IntlevAboveMask
<1>7. CASE UNCHANGED vars
  BY <1>7 DEF vars
<1> QED
  BY <1>1, <1>2, <1>3, <1>4, <1>5, <1>6, <1>7
     DEF Next, EmulatorThread, DeviceThread, Trigger, Instruction, Thread

\* The end of Exception strands no flag without a record of it.
LEMMA TrapStep ==
  ASSUME TypeOK, DointIsLoaded, NoStrandedFlag, TrapDone
  PROVE  NoStrandedFlag'
<1> USE DEF TrapDone, cpuVars
<1>1. epc = "trap" /\ InterruptFlags' = InterruptFlags /\ masked' = masked
      /\ dpc' = dpc /\ exclusive' = exclusive
  OBVIOUS
<1>2. "INT" \in spcflags \/ erased => "INT" \in spcflags' \/ erased'
  OBVIOUS
<1>3. exclusive => spcflags' = spcflags
  BY DEF StoreSpcflags
<1>4. ~exclusive => loaded[Emulator] # NONE /\ spcflags' = loaded[Emulator]
  BY DEF StoreSpcflags, TypeOK
<1>5. "DOINT" \in spcflags /\ ~exclusive =>
        "INT" \in spcflags' \/ "DOINT" \in spcflags' \/ erased'
  BY <1>1, <1>2, <1>4 DEF DointIsLoaded
<1> QED
  BY <1>1, <1>2, <1>3, <1>5 DEF NoStrandedFlag

\* No step strands an interrupt flag, but for the one of Exception.
LEMMA FlagStep ==
  ASSUME Inv, [Next]_vars
  PROVE  NoStrandedFlag'
<1> USE DEF Inv, TypeOK, NoStrandedFlag, cpuVars, spcVars
<1>1. CASE \E d \in Device : PostData(d) \/ SetInterruptFlag(d) \/ IdleResume(d)
  BY <1>1 DEF PostData, SetInterruptFlag, IdleResume
<1>2. CASE \E d \in Device : SetSpcInt(d)
  BY <1>2, DeviceUpdate DEF SetSpcInt
<1>3. CASE \E t \in Thread : LoadSpcflags(t)
  BY <1>3 DEF LoadSpcflags
<1>4. CASE SRDone \/ InterruptDone \/ SetDoint
  BY <1>4, EmulatorUpdate DEF SRDone, InterruptDone, SetDoint
<1>5. CASE Stop \/ SRTraceDone
  <2>1. "INT" \in spcflags'
    BY <1>5 DEF Stop, SRTraceDone, Update, StoreSpcflags, IntAfterSR
  <2> QED
    BY <2>1
<1>6. CASE StopExit
  BY <1>6 DEF StopExit, HandlerState
<1>7. CASE StopClear \/ ClearDoint \/ ClearInt
  BY <1>7 DEF StopClear, ClearDoint, ClearInt
<1>8. CASE PlainInstruction \/ Trap \/ IdleCheck \/ IdleWait \/ Rte
  BY <1>8 DEF PlainInstruction, Trap, IdleCheck, IdleWait, Rte
<1>9. CASE \E mask \in BOOLEAN, pc \in {"sr", "stop_sr"} : WriteSR(mask, pc)
  BY <1>9 DEF WriteSR
<1>10. CASE EmulOp
  BY <1>10 DEF EmulOp, EmulOpIRQ, ClearInterruptFlag, HandleDevice, SkipDevice, IRQDone
<1>11. CASE Special \/ StopLoop \/ SkipDoint \/ SpecialDone
  BY <1>11 DEF Special, StopLoop, SkipDoint, SpecialDone
<1>12. CASE Interrupt \/ NoInterrupt
  BY <1>12 DEF Interrupt, NoInterrupt, IntlevAboveMask
<1>13. CASE TrapDone
  BY <1>13, TrapStep DEF Inv
<1>14. CASE EnterHandler
  BY <1>14 DEF EnterHandler
<1>15. CASE UNCHANGED vars
  BY <1>15 DEF vars
<1> QED
  BY <1>1, <1>2, <1>3, <1>4, <1>5, <1>6, <1>7, <1>8, <1>9, <1>10, <1>11, <1>12, <1>13,
     <1>14, <1>15
     DEF Next, EmulatorThread, DeviceThread, Trigger, Instruction, Thread, Specialties

\* The conjunction is an inductive invariant.
LEMMA Invariance == Spec => []Inv
<1>1. ASSUME Init
      PROVE  Inv
  <2> USE <1>1 DEF Init
  <2>1. masked \in BOOLEAN /\ entered \in BOOLEAN /\ erased \in BOOLEAN
    OBVIOUS
  <2>2. depth \in 0..MaxDepth /\ pos \in 1..(N + 1) /\ depth # MaxDepth
    BY CountAssumption
  <2>3. TypeOK
    BY <2>1, <2>2 DEF TypeOK, EmulPC, DevicePC
  <2>4. HandlerState /\ IntAfterSR /\ DointIsLoaded
    BY <2>2 DEF HandlerState, IntAfterSR, DointIsLoaded, Emulator, Thread
  <2> QED
    BY <2>3, <2>4 DEF Inv, NoLostData, NoStrandedFlag
<1>2. Inv /\ [Next]_vars => Inv'
  BY TypeStep, MaskStep, SRStep, DointStep, DataStep, FlagStep DEF Inv
<1> QED
  BY <1>1, <1>2, PTL DEF Spec

\* Type correctness of the interrupt machinery.
THEOREM TypeCorrect == Spec => []TypeOK
  BY Invariance, PTL DEF Inv

\* No interrupt flag is stranded where updates of spcflags are atomic; where they
\* are not, only the end of Exception strands one, until SPCFLAG_INT is set anew.
THEOREM FlagsAreSeen == Spec => []NoStrandedFlag
  BY Invariance, PTL DEF Inv

\* No data that a device has posted is forgotten.
THEOREM DataIsKept == Spec => []NoLostData
  BY Invariance, PTL DEF Inv

-----------------------------------------------------------------------------
(* The flag of the STOP instruction *)

\* The emulator thread is in the STOP instruction or in m68k_do_specialties'
\* loop for it.
InStop ==
  epc \in {"special", "stopped", "stop_clear", "stop_test", "stop_exc", "stop_irq",
           "stop_exit"}

\* A build with atomic special flags never executes an instruction, nor sleeps
\* or handles an interrupt, with SPCFLAG_STOP set: nothing brings the flag back
\* once an interrupt has ended the STOP instruction.
NoSpuriousStop == exclusive /\ "STOP" \in spcflags => InStop

\* An atomic update by the emulator thread or by a device thread
LEMMA AtomicUpdate ==
  ASSUME exclusive, NEW t \in Thread, NEW remove, NEW add, Update(t, remove, add)
  PROVE  spcflags' = (spcflags \ remove) \cup add
BY DEF Update, StoreSpcflags

\* The threads of the emulator and of the devices keep STOP to the instruction.
THEOREM StopEnds == Spec => []NoSpuriousStop
<1>1. Init => NoSpuriousStop
  BY DEF Init, NoSpuriousStop
<1>2. ASSUME NoSpuriousStop, [Next]_vars PROVE NoSpuriousStop'
  <2> SUFFICES ASSUME exclusive' = exclusive, exclusive, "STOP" \in spcflags'
               PROVE  InStop'
    <3>1. exclusive' = exclusive
      BY <1>2 DEF Next, EmulatorThread, LoadSpcflags, Instruction, PlainInstruction, Trap,
                  TrapDone, WriteSR, SRTraceDone, EnterHandler, Rte, IdleCheck, SRDone, Stop, IdleWait, EmulOp, EmulOpIRQ,
                  ClearInterruptFlag, HandleDevice, SkipDevice, IRQDone, Specialties, Special,
                  StopLoop, StopClear, ClearDoint, SkipDoint, Interrupt, NoInterrupt,
                  InterruptDone, StopExit, ClearInt, SetDoint, SpecialDone, DeviceThread,
                  Trigger, SetInterruptFlag, IdleResume, SetSpcInt, PostData, vars
    <3> QED BY <3>1 DEF NoSpuriousStop
  <2> USE <1>2 DEF NoSpuriousStop, InStop, spcVars
  <2>1. Emulator \in Thread /\ \A d \in Device : d \in Thread
    BY DEF Thread
  <2>2. CASE \E d \in Device : PostData(d) \/ SetInterruptFlag(d) \/ IdleResume(d)
    BY <2>2 DEF PostData, SetInterruptFlag, IdleResume
  <2>3. ASSUME NEW d \in Device, SetSpcInt(d) PROVE InStop'
    <3>1. spcflags' = (spcflags \ {}) \cup {"INT"}
      BY <2>1, <2>3, AtomicUpdate DEF SetSpcInt
    <3> QED BY <2>3, <3>1 DEF SetSpcInt
  <2>4. ~LoadSpcflags(Emulator) /\ \A d \in Device : ~LoadSpcflags(d)
    BY DEF LoadSpcflags
  <2>5. CASE Instruction \/ IdleWait \/ EmulOp
    BY <2>5 DEF Instruction, PlainInstruction, Trap, WriteSR, Rte, IdleCheck, IdleWait, EmulOp,
                EmulOpIRQ, ClearInterruptFlag, HandleDevice, SkipDevice, IRQDone
  <2>6. CASE SRDone \/ InterruptDone
    <3>1. spcflags' = (spcflags \ {}) \cup {"INT"}
      BY <2>1, <2>6, AtomicUpdate DEF SRDone, InterruptDone
    <3> QED BY <2>6, <3>1 DEF SRDone, InterruptDone
  <2>7. CASE Stop
    BY <2>7 DEF Stop
  <2>8. CASE StopClear \/ ClearDoint \/ ClearInt
    <3>1. "STOP" \in spcflags
      BY <2>1, <2>8, AtomicUpdate DEF StopClear, ClearDoint, ClearInt
    <3> QED BY <2>8, <3>1 DEF StopClear, ClearDoint, ClearInt
  <2>9. CASE StopExit
    BY <2>9 DEF StopExit
  <2>10. CASE SetDoint
    <3>1. spcflags' = (spcflags \ {}) \cup {"DOINT"}
      BY <2>1, <2>10, AtomicUpdate DEF SetDoint
    <3> QED BY <2>10, <3>1 DEF SetDoint
  <2>11. CASE Special \/ StopLoop \/ SkipDoint \/ Interrupt \/ NoInterrupt \/ SpecialDone
    BY <2>11 DEF Special, StopLoop, SkipDoint, Interrupt, NoInterrupt, SpecialDone
  <2>12. CASE TrapDone
    <3>1. spcflags' = spcflags
      BY <2>12 DEF TrapDone, StoreSpcflags
    <3> QED BY <2>12, <3>1 DEF TrapDone
  <2>13. CASE SRTraceDone \/ EnterHandler
    <3>1. spcflags' = (spcflags \ {}) \cup {}
      BY <2>1, <2>13, AtomicUpdate DEF SRTraceDone, EnterHandler
    <3> QED BY <2>13, <3>1 DEF SRTraceDone, EnterHandler
  <2>14. CASE UNCHANGED vars
    BY <2>14 DEF vars
  <2> QED
    BY <2>2, <2>3, <2>4, <2>5, <2>6, <2>7, <2>8, <2>9, <2>10, <2>11, <2>12, <2>13, <2>14
       DEF Next, EmulatorThread, DeviceThread, Trigger, Specialties
<1> QED
  BY <1>1, <1>2, PTL DEF Spec
=============================================================================
