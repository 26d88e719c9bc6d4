---------------------------- MODULE AudioProofs ----------------------------
(***************************************************************************)
(* Proofs about Audio, for any number of connections and sources.          *)
(*                                                                         *)
(* The inductive invariant has two parts that the streaming thread and the *)
(* component keep apart: TurnInv says where the one token of the handshake *)
(* is, and BlockInv what audio_data and AudioStatus.mixer are worth at     *)
(* each point of AudioDispatch at which AudioInterrupt may come in.        *)
(***************************************************************************)
EXTENDS Audio, TLAPS

\* Nothing is under way between stream_func and AudioInterrupt
AtRest == sem = 0 /\ intflag = FALSE /\ ipc = "none"

\* The flag, the interrupt or the semaphore: exactly one of them stands for
\* the block that stream_func waits for
Asked ==
  \/ sem = 0 /\ intflag = TRUE /\ ipc = "none"
  \/ sem = 0 /\ intflag = FALSE /\ ipc # "none"
  \/ sem = 1 /\ intflag = FALSE /\ ipc = "none"

TurnInv == IF spc = "wait" THEN Asked ELSE AtRest

\* Control points of AudioDispatch with connections and their block
Steady == {"run", "open_mixer", "delegate", "close_audio"}

BlockInv ==
  /\ epc = "alloc" => open_count < MaxOpen
  /\ epc = "open_mixer" => sessions > 0
  /\ OwnSession =>
       /\ epc \in Steady \cup {"alloc"} /\ open_count = 0 =>
            mixer = "none" /\ audio_data = "none"
       /\ epc \in Steady /\ open_count > 0 => audio_data = "live"
       /\ epc = "alloc" => open_count = 0
       /\ epc \in {"close_mixer", "mixer_closed"} => open_count = 0 /\ audio_data = "live"
       /\ epc \in {"dispose", "disposed"} => open_count = 0 /\ mixer = "none"
       /\ ipc = "fetch" => audio_data = "live"

IInv == TypeOK /\ TurnInv /\ BlockInv

\* The initial states, and every step of either thread, satisfy the invariant.
LEMMA Invariant == Spec => []IInv
<1> USE BoundAssumption DEF IInv, TypeOK, TurnInv, AtRest, Asked, BlockInv, OwnSession, Steady
<1>1. ASSUME Init
      PROVE  IInv
  <2> USE <1>1 DEF Init
  <2>1. TypeOK
    <3>1. intflag \in BOOLEAN /\ sem \in {0, 1} /\ device \in {"open", "closing", "closed"}
      OBVIOUS
    <3>2. /\ open_count \in 0..MaxOpen /\ num_sources \in 0..MaxSources
          /\ sessions \in 0..open_count /\ sources \in 0..num_sources
      OBVIOUS
    <3> QED
      BY <3>1, <3>2
  <2>2. TurnInv
    OBVIOUS
  <2>3. BlockInv
    OBVIOUS
  <2> QED
    BY <2>1, <2>2, <2>3
<1>2. ASSUME IInv, [Next]_vars
      PROVE  IInv'
  <2> USE <1>2 DEF component, mac
  <2>1. CASE BeginCallback
    BY <2>1 DEF BeginCallback
  <2>2. CASE StreamFunc
    BY <2>2 DEF StreamFunc
  <2>3. CASE SetAudioFlag
    BY <2>3 DEF SetAudioFlag
  <2>4. CASE AckReceived
    BY <2>4 DEF AckReceived
  <2>5. CASE PlayBlock
    BY <2>5 DEF PlayBlock
  <2>6. CASE StreamEnds
    BY <2>6 DEF StreamEnds
  <2>7. CASE AudioInterrupt
    <3> USE <2>7 DEF AudioInterrupt, Interruptible
    <3>1. TypeOK'
      <4>1. intflag' \in BOOLEAN /\ ipc' \in {"none", "fetch", "clear", "post"}
        OBVIOUS
      <4>2. UNCHANGED <<component, mac, device, sem, spc, epc>>
        OBVIOUS
      <4> QED
        BY <4>1, <4>2 DEF component, mac
    <3>2. TurnInv'
      OBVIOUS
    <3>3. BlockInv'
      OBVIOUS
    <3> QED
      BY <3>1, <3>2, <3>3
  <2>8. CASE GetSourceData
    BY <2>8 DEF GetSourceData
  <2>9. CASE SignalStream
    BY <2>9 DEF SignalStream
  <2>10. CASE Open
    BY <2>10 DEF Open, Called, Connected
  <2>11. CASE OpenAlloc
    BY <2>11 DEF OpenAlloc, Called
  <2>12. CASE Close
    BY <2>12 DEF Close, Called
  <2>13. CASE InitOutputDevice
    BY <2>13 DEF InitOutputDevice, audio_open, Called
  <2>14. CASE AddSource
    BY <2>14 DEF AddSource, Called
  <2>15. CASE RemoveSource
    BY <2>15 DEF RemoveSource, Called
  <2>16. CASE Delegate
    BY <2>16 DEF Delegate, Called
  <2>17. CASE SetInfo
    BY <2>17 DEF SetInfo, Called
  <2>18. CASE OpenAllocated
    BY <2>18 DEF OpenAllocated, Resumes, Connected
  <2>19. CASE OpenFails
    BY <2>19 DEF OpenFails, Resumes
  <2>20. CASE CloseMixer
    BY <2>20 DEF CloseMixer, Resumes
  <2>21. CASE MixerClosed
    BY <2>21 DEF MixerClosed, Resumes
  <2>22. CASE DisposeBlock
    BY <2>22 DEF DisposeBlock, Resumes
  <2>23. CASE CloseDone
    BY <2>23 DEF CloseDone, Resumes
  <2>24. CASE MixerOpened
    BY <2>24 DEF MixerOpened, Resumes
  <2>25. CASE Delegated
    BY <2>25 DEF Delegated, Resumes
  <2>26. CASE ReopenAudio
    BY <2>26 DEF ReopenAudio
  <2>27. CASE AudioReset
    BY <2>27 DEF AudioReset, Called
  <2>28. CASE ClearStreamInfo
    BY <2>28 DEF ClearStreamInfo
  <2>29. CASE UNCHANGED vars
    BY <2>29 DEF vars, component, mac
  <2> QED
    BY <1>2, <2>1, <2>2, <2>3, <2>4, <2>5, <2>6, <2>7, <2>8, <2>9, <2>10, <2>11,
       <2>12, <2>13, <2>14, <2>15, <2>16, <2>17, <2>18, <2>19, <2>20, <2>21, <2>22,
       <2>23, <2>24, <2>25, <2>26, <2>27, <2>28, <2>29
       DEF Next, StreamThread, Handler, Call, CallGoesOn
<1> QED
  BY <1>1, <1>2, PTL DEF Spec

\* Types, for the control points, the counters and the semaphore of both
\* threads: a count never passes what the Mac has open or added.
THEOREM TypeCorrect == Spec => []TypeOK
<1>1. IInv => TypeOK
  BY DEF IInv
<1> QED
  BY <1>1, Invariant, PTL

\* AudioInterrupt, which may come in at every trap that AudioDispatch calls,
\* executes 68k code in the component's block only while the block exists, and
\* while a connection is open clears adatStreamInfo in a block that exists, as
\* long as no reset has hit an open connection.
THEOREM InterruptRunsOwnCode == Spec => []RunsOwnCode
<1>1. IInv => RunsOwnCode
  <2> SUFFICES ASSUME IInv, OwnSession, ipc = "fetch" \/ (ipc = "clear" /\ open_count > 0)
               PROVE  audio_data = "live"
    BY DEF RunsOwnCode
  <2> QED
    BY DEF IInv, TypeOK, BlockInv, Steady
<1> QED
  BY <1>1, Invariant, PTL

\* stream_func and AudioInterrupt implement the handshake: one interrupt for
\* each block and no acknowledgement left over, across closing, changes of
\* the sampling parameters and resets.
THEOREM Refinement == Spec => HandshakeSpec
<1>1. Init => Handshake!Init
  BY DEF Init, Handshake!Init
<1>2. ASSUME IInv, IInv', [Next]_vars
      PROVE  [Handshake!Next]_(IF sem > 0 THEN "done"
                               ELSE IF ipc # "none" THEN "serving"
                               ELSE IF intflag THEN "raised" ELSE "host")
  <2> USE <1>2 DEF IInv, TypeOK, TurnInv, AtRest, Asked, component, mac,
                   Handshake!Next, Handshake!Raise, Handshake!Serve,
                   Handshake!Acknowledge, Handshake!Proceed
  <2>1. CASE BeginCallback
    BY <2>1 DEF BeginCallback
  <2>2. CASE StreamFunc
    BY <2>2 DEF StreamFunc
  <2>3. CASE SetAudioFlag
    BY <2>3 DEF SetAudioFlag
  <2>4. CASE AckReceived
    BY <2>4 DEF AckReceived
  <2>5. CASE PlayBlock
    BY <2>5 DEF PlayBlock
  <2>6. CASE StreamEnds
    BY <2>6 DEF StreamEnds
  <2>7. CASE AudioInterrupt
    BY <2>7 DEF AudioInterrupt, Interruptible
  <2>8. CASE GetSourceData
    BY <2>8 DEF GetSourceData
  <2>9. CASE SignalStream
    BY <2>9 DEF SignalStream
  <2>10. CASE Open
    BY <2>10 DEF Open, Called, Connected
  <2>11. CASE OpenAlloc
    BY <2>11 DEF OpenAlloc, Called
  <2>12. CASE Close
    BY <2>12 DEF Close, Called
  <2>13. CASE InitOutputDevice
    BY <2>13 DEF InitOutputDevice, audio_open, Called
  <2>14. CASE AddSource
    BY <2>14 DEF AddSource, Called
  <2>15. CASE RemoveSource
    BY <2>15 DEF RemoveSource, Called
  <2>16. CASE Delegate
    BY <2>16 DEF Delegate, Called
  <2>17. CASE SetInfo
    BY <2>17 DEF SetInfo, Called
  <2>18. CASE OpenAllocated
    BY <2>18 DEF OpenAllocated, Resumes, Connected
  <2>19. CASE OpenFails
    BY <2>19 DEF OpenFails, Resumes
  <2>20. CASE CloseMixer
    BY <2>20 DEF CloseMixer, Resumes
  <2>21. CASE MixerClosed
    BY <2>21 DEF MixerClosed, Resumes
  <2>22. CASE DisposeBlock
    BY <2>22 DEF DisposeBlock, Resumes
  <2>23. CASE CloseDone
    BY <2>23 DEF CloseDone, Resumes
  <2>24. CASE MixerOpened
    BY <2>24 DEF MixerOpened, Resumes
  <2>25. CASE Delegated
    BY <2>25 DEF Delegated, Resumes
  <2>26. CASE ReopenAudio
    BY <2>26 DEF ReopenAudio
  <2>27. CASE AudioReset
    BY <2>27 DEF AudioReset, Called
  <2>28. CASE ClearStreamInfo
    BY <2>28 DEF ClearStreamInfo
  <2>29. CASE UNCHANGED vars
    BY <2>29 DEF vars, component, mac
  <2> QED
    BY <1>2, <2>1, <2>2, <2>3, <2>4, <2>5, <2>6, <2>7, <2>8, <2>9, <2>10, <2>11,
       <2>12, <2>13, <2>14, <2>15, <2>16, <2>17, <2>18, <2>19, <2>20, <2>21, <2>22,
       <2>23, <2>24, <2>25, <2>26, <2>27, <2>28, <2>29
       DEF Next, StreamThread, Handler, Call, CallGoesOn
<1> QED
  BY <1>1, <1>2, Invariant, PTL DEF Spec, HandshakeSpec, Handshake!Spec
=============================================================================
