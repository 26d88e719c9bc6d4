-------------------------------- MODULE Audio --------------------------------
(***************************************************************************)
(* Sound output: the sound component that 68k programs call (audio.cpp),   *)
(* and the SDL streaming thread with its interrupt (audio_sdl.cpp).        *)
(*                                                                         *)
(* SDL calls stream_func on a thread of its own for every block of sound.  *)
(* If sources are playing, stream_func sets INTFLAG_AUDIO and waits for    *)
(* AudioInterrupt, which runs on the emulator thread and asks the Apple    *)
(* Mixer for data.  The component is called on the emulator thread too;    *)
(* AudioInterrupt may come in wherever it executes 68k code or a Mac trap, *)
(* but not while host code waits.                                          *)
(*                                                                         *)
(* Two Mac objects matter: the component's data block, whose address is    *)
(* audio_data and which holds the 68k routines that reach the mixer, and   *)
(* the mixer instance AudioStatus.mixer.  They are modelled by what the    *)
(* host variable holds and whether the object behind it still exists.      *)
(* Samples, sample formats and volumes are left out.                       *)
(***************************************************************************)
EXTENDS Naturals

CONSTANTS
  MaxOpen,    \* bound: open connections to the component
  MaxSources  \* bound: sources that the mixer holds

ASSUME BoundAssumption == MaxOpen \in Nat \ {0} /\ MaxSources \in Nat \ {0}

VARIABLES
  open_count,   \* the component's count of open connections
  audio_data,   \* the data block: none, live, or freed
  mixer,        \* AudioStatus.mixer: none, an open or a closed instance
  num_sources,  \* AudioStatus.num_sources
  sessions,     \* connections that the Mac has open since it was started
  sources,      \* sources that the Mac has added since it was started
  device,       \* the SDL device
  intflag,      \* is INTFLAG_AUDIO set?
  sem,          \* audio_irq_done_sem
  spc,          \* control point of the streaming thread
  epc,          \* control point of AudioDispatch on the emulator thread
  ipc           \* control point of AudioInterrupt, which interrupts epc

component == <<open_count, audio_data, mixer, num_sources>>
mac == <<sessions, sources>>
vars == <<component, mac, device, intflag, sem, spc, epc, ipc>>

TypeOK ==
  /\ open_count \in 0..MaxOpen
  /\ audio_data \in {"none", "live", "freed"}
  /\ mixer \in {"none", "open", "closed"}
  /\ num_sources \in 0..MaxSources
  /\ sessions \in 0..open_count
  /\ sources \in 0..num_sources
  /\ device \in {"open", "closing", "closed"}
  /\ intflag \in BOOLEAN
  /\ sem \in {0, 1}
  /\ spc \in {"idle", "begin", "flag", "wait", "play"}
  /\ epc \in {"run", "alloc", "close_mixer", "mixer_closed", "dispose", "disposed",
              "open_mixer", "delegate", "close_audio"}
  /\ ipc \in {"none", "fetch", "clear", "post"}

\* AudioInit: the device may fail to open
Init ==
  /\ open_count = 0
  /\ audio_data = "none"
  /\ mixer = "none"
  /\ num_sources = 0
  /\ sessions = 0
  /\ sources = 0
  /\ device \in {"open", "closed"}
  /\ intflag = FALSE
  /\ sem = 0
  /\ spc = "idle"
  /\ epc = "run"
  /\ ipc = "none"

audio_open == device = "open"

-----------------------------------------------------------------------------
(* The streaming thread *)

\* SDL's thread sees the device open and is about to call stream_func
BeginCallback ==
  /\ spc = "idle"
  /\ device = "open"
  /\ spc' = "begin"
  /\ UNCHANGED <<component, mac, device, intflag, sem, epc, ipc>>

\* stream_func tests num_sources: without sources it plays silence
StreamFunc ==
  /\ spc = "begin"
  /\ spc' = IF num_sources # 0 THEN "flag" ELSE "idle"
  /\ UNCHANGED <<component, mac, device, intflag, sem, epc, ipc>>

\* SetInterruptFlag and TriggerInterrupt
SetAudioFlag ==
  /\ spc = "flag"
  /\ intflag' = TRUE
  /\ spc' = "wait"
  /\ UNCHANGED <<component, mac, device, sem, epc, ipc>>

\* SDL_SemWait
AckReceived ==
  /\ spc = "wait"
  /\ sem > 0
  /\ sem' = sem - 1
  /\ spc' = "play"
  /\ UNCHANGED <<component, mac, device, intflag, epc, ipc>>

\* adatStreamInfo is read through audio_data, whatever that is by now
PlayBlock ==
  /\ spc = "play"
  /\ spc' = "idle"
  /\ UNCHANGED <<component, mac, device, intflag, sem, epc, ipc>>

\* The thread of a device that is being closed ends between two callbacks
StreamEnds ==
  /\ spc = "idle"
  /\ device = "closing"
  /\ device' = "closed"
  /\ UNCHANGED <<component, mac, intflag, sem, spc, epc, ipc>>

StreamThread ==
  \/ BeginCallback \/ StreamFunc \/ SetAudioFlag \/ AckReceived \/ PlayBlock
  \/ StreamEnds

-----------------------------------------------------------------------------
(* AudioInterrupt *)

\* 68k code or a Mac trap is running, with no interrupt handler above it
Interruptible == epc # "close_audio" /\ ipc = "none"

\* M68K_EMUL_OP_IRQ clears the flag and calls AudioInterrupt
AudioInterrupt ==
  /\ Interruptible
  /\ intflag
  /\ intflag' = FALSE
  /\ ipc' = IF mixer # "none" THEN "fetch" ELSE "clear"
  /\ UNCHANGED <<component, mac, device, sem, spc, epc>>

\* Execute68k(audio_data + adatGetSourceData).  Without a live block that is
\* whatever low memory holds, which need not return; here it only returns or not.
GetSourceData ==
  /\ ipc = "fetch"
  /\ ipc' = "post"
  /\ UNCHANGED <<component, mac, device, intflag, sem, spc, epc>>

\* Fault: without a mixer the streaming thread gets no answer
ClearWithoutPost ==
  /\ ipc = "clear"
  /\ ipc' = "none"
  /\ UNCHANGED <<component, mac, device, intflag, sem, spc, epc>>

\* adatStreamInfo is set to 0 through audio_data, whatever that is by now
ClearStreamInfo ==
  /\ ipc = "clear"
  /\ ipc' = "post"
  /\ UNCHANGED <<component, mac, device, intflag, sem, spc, epc>>

\* Fault: one acknowledgement for the data, one at the end
PostTwice ==
  /\ ipc = "post"
  /\ sem' = sem + 2
  /\ ipc' = "none"
  /\ UNCHANGED <<component, mac, device, intflag, spc, epc>>

SignalStream ==
  /\ ipc = "post"
  /\ sem' = sem + 1
  /\ ipc' = "none"
  /\ UNCHANGED <<component, mac, device, intflag, spc, epc>>

-----------------------------------------------------------------------------
(* AudioDispatch *)

\* A call of the component begins
Called == epc = "run" /\ ipc = "none"

\* A component call goes on after the 68k code that it has executed
Resumes(pc) == epc = pc /\ ipc = "none"

Connected == open_count' = open_count + 1 /\ sessions' = sessions + 1

\* kComponentOpenSelect with a data block
Open ==
  /\ Called
  /\ open_count < MaxOpen
  /\ audio_data # "none"
  /\ Connected
  /\ UNCHANGED <<audio_data, mixer, num_sources, sources, device, intflag, sem, spc, epc, ipc>>

\* kComponentOpenSelect without one: ResrvMem, NewPtrClear
OpenAlloc ==
  /\ Called
  /\ open_count < MaxOpen
  /\ audio_data = "none"
  /\ epc' = "alloc"
  /\ UNCHANGED <<component, mac, device, intflag, sem, spc, ipc>>

OpenAllocated ==
  /\ Resumes("alloc")
  /\ audio_data' = "live"
  /\ Connected
  /\ epc' = "run"
  /\ UNCHANGED <<mixer, num_sources, sources, device, intflag, sem, spc, ipc>>

\* memFullErr
OpenFails ==
  /\ Resumes("alloc")
  /\ epc' = "run"
  /\ UNCHANGED <<component, mac, device, intflag, sem, spc, ipc>>

\* kComponentCloseSelect: the last connection closes the mixer, frees the
\* data block and forgets the sources
Close ==
  /\ Called
  /\ sessions > 0
  /\ sessions' = sessions - 1
  /\ open_count' = open_count - 1
  /\ epc' = CASE open_count > 1 \/ audio_data = "none" -> "run"
              [] open_count = 1 /\ audio_data # "none" /\ mixer # "none" -> "close_mixer"
              [] OTHER -> "dispose"
  /\ IF open_count = 1 /\ audio_data = "none"
     THEN num_sources' = 0 /\ sources' = 0
     ELSE UNCHANGED <<num_sources, sources>>
  /\ UNCHANGED <<audio_data, mixer, device, intflag, sem, spc, ipc>>

\* The trap CloseMixer
CloseMixer ==
  /\ Resumes("close_mixer")
  /\ mixer' = "closed"
  /\ epc' = "mixer_closed"
  /\ UNCHANGED <<open_count, audio_data, num_sources, mac, device, intflag, sem, spc, ipc>>

\* Fault: AudioStatus.mixer is not reset
KeepMixer ==
  /\ Resumes("mixer_closed")
  /\ epc' = "dispose"
  /\ UNCHANGED <<component, mac, device, intflag, sem, spc, ipc>>

MixerClosed ==
  /\ Resumes("mixer_closed")
  /\ mixer' = "none"
  /\ epc' = "dispose"
  /\ UNCHANGED <<open_count, audio_data, num_sources, mac, device, intflag, sem, spc, ipc>>

\* The trap DisposePtr
DisposeBlock ==
  /\ Resumes("dispose")
  /\ audio_data' = "freed"
  /\ epc' = "disposed"
  /\ UNCHANGED <<open_count, mixer, num_sources, mac, device, intflag, sem, spc, ipc>>

CloseDone ==
  /\ Resumes("disposed")
  /\ audio_data' = "none"
  /\ num_sources' = 0
  /\ sources' = 0
  /\ epc' = "run"
  /\ UNCHANGED <<open_count, mixer, sessions, device, intflag, sem, spc, ipc>>

\* kSoundComponentInitOutputDeviceSelect opens the mixer, unless there is one
InitOutputDevice ==
  /\ Called
  /\ sessions > 0
  /\ audio_open
  /\ mixer = "none"
  /\ epc' = "open_mixer"
  /\ UNCHANGED <<component, mac, device, intflag, sem, spc, ipc>>

\* OpenMixer may fail
MixerOpened ==
  /\ Resumes("open_mixer")
  /\ mixer' \in {"none", "open"}
  /\ epc' = "run"
  /\ UNCHANGED <<open_count, audio_data, num_sources, mac, device, intflag, sem, spc, ipc>>

\* kSoundComponentAddSourceSelect: the count changes before the mixer is called
AddSource ==
  /\ Called
  /\ sessions > 0
  /\ num_sources < MaxSources
  /\ num_sources' = num_sources + 1
  /\ sources' = sources + 1
  /\ epc' = "delegate"
  /\ UNCHANGED <<open_count, audio_data, mixer, sessions, device, intflag, sem, spc, ipc>>

RemoveSource ==
  /\ Called
  /\ sessions > 0
  /\ sources > 0
  /\ num_sources' = num_sources - 1
  /\ sources' = sources - 1
  /\ epc' = "delegate"
  /\ UNCHANGED <<open_count, audio_data, mixer, sessions, device, intflag, sem, spc, ipc>>

\* Start, Stop, Pause, PlaySourceBuffer and so on are the mixer's, if there is one
Delegate ==
  /\ Called
  /\ sessions > 0
  /\ epc' = "delegate"
  /\ UNCHANGED <<component, mac, device, intflag, sem, spc, ipc>>

Delegated ==
  /\ Resumes("delegate")
  /\ epc' = "run"
  /\ UNCHANGED <<component, mac, device, intflag, sem, spc, ipc>>

\* Fault: the sampling parameters change while sources play
SetInfoBusy ==
  /\ Called
  /\ sessions > 0
  /\ device' = IF device = "open" THEN "closing" ELSE device
  /\ epc' = "close_audio"
  /\ UNCHANGED <<component, mac, intflag, sem, spc, ipc>>

\* AudioSetInfo with a new sample size, rate or number of channels: close_audio
\* waits in SDL_CloseAudio for the streaming thread
SetInfo ==
  /\ Called
  /\ sessions > 0
  /\ num_sources = 0
  /\ device' = IF device = "open" THEN "closing" ELSE device
  /\ epc' = "close_audio"
  /\ UNCHANGED <<component, mac, intflag, sem, spc, ipc>>

\* The thread has ended; open_audio may fail
ReopenAudio ==
  /\ epc = "close_audio"
  /\ device = "closed"
  /\ device' \in {"open", "closed"}
  /\ epc' = "run"
  /\ UNCHANGED <<component, mac, intflag, sem, spc, ipc>>

\* M68K_EMUL_OP_RESET: AudioReset, and the Mac forgets all it had
AudioReset ==
  /\ Called
  /\ audio_data' = "none"
  /\ mixer' = IF mixer = "open" THEN "closed" ELSE mixer
  /\ sessions' = 0
  /\ sources' = 0
  /\ UNCHANGED <<open_count, num_sources, device, intflag, sem, spc, epc, ipc>>

-----------------------------------------------------------------------------

Call ==
  \/ Open \/ OpenAlloc \/ Close \/ InitOutputDevice \/ AddSource \/ RemoveSource
  \/ Delegate \/ SetInfo

CallGoesOn ==
  \/ OpenAllocated \/ OpenFails \/ CloseMixer \/ MixerClosed \/ DisposeBlock
  \/ CloseDone \/ MixerOpened \/ Delegated \/ ReopenAudio

Handler == GetSourceData \/ ClearStreamInfo \/ SignalStream

Next == StreamThread \/ AudioInterrupt \/ Handler \/ Call \/ CallGoesOn \/ AudioReset

Spec == Init /\ [][Next]_vars

(***************************************************************************)
(* Fairness.  Both threads are scheduled; host code goes on.  68k code     *)
(* that a handler or a call executes returns, if it is reached through     *)
(* objects of the Mac's current session: after a reset with an open        *)
(* connection nothing makes it return.  68k code opens its interrupt mask  *)
(* again and again (Interrupts!DataIsHandled), so that a pending interrupt *)
(* is taken.  Nobody has to call the component.                            *)
(***************************************************************************)

\* The Mac has not been reset with a connection open
OwnSession == open_count = sessions

Fairness ==
  /\ WF_vars(StreamThread)
  /\ SF_vars(AudioInterrupt)
  /\ WF_vars(OwnSession /\ GetSourceData)
  /\ WF_vars(ClearStreamInfo \/ SignalStream)
  /\ WF_vars(OwnSession /\ CallGoesOn)
  /\ WF_vars(ReopenAudio)

FairSpec == Spec /\ Fairness

-----------------------------------------------------------------------------

\* stream_func and AudioInterrupt take turns, whatever the component does:
\* across closing and reopening the device no acknowledgement is left over,
\* and AudioInterrupt runs once for each block.
Handshake ==
  INSTANCE IrqHandshake WITH
    turn <- IF sem > 0 THEN "done"
            ELSE IF ipc # "none" THEN "serving"
            ELSE IF intflag THEN "raised" ELSE "host"

HandshakeSpec == Handshake!Spec

\* AudioInterrupt executes code in the component's data block only while the
\* block exists (audio_data, AudioStatus.mixer), the traps that close the mixer
\* and free the block included, and while a connection is open it clears
\* adatStreamInfo in a block that exists.  An interrupt that comes after the last
\* Close has freed the block does clear it in free memory or low memory.  A reset
\* of the Mac with an open connection is excepted: a stale mixer is then called
\* through an address near zero.
RunsOwnCode ==
  OwnSession /\ (ipc = "fetch" \/ (ipc = "clear" /\ open_count > 0))
    => audio_data = "live"

\* The streaming thread waits for an interrupt that has not been handled
WaitsForInterrupt == spc \in {"flag", "wait"} /\ sem = 0

\* Changing a sampling parameter returns (audio_set_sample_rate and others),
\* unless the callback already waits for the emulator thread.  It has seen
\* no source or will see none: AudioSetInfo lets nobody in while there are
\* sources.
CloseReturns ==
  epc = "close_audio" /\ ~WaitsForInterrupt ~> epc # "close_audio"

\* stream_func gets its answer, with or without a mixer and open connections, as
\* long as the emulator thread does not wait for it in turn.  Excepted is an
\* AudioInterrupt that finds the mixer of an earlier session of the Mac, and
\* executes whatever is in its place.
StreamIsServed ==
  spc = "wait"
    ~> spc # "wait" \/ epc = "close_audio" \/ (ipc = "fetch" /\ ~OwnSession)
=============================================================================
