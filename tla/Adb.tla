--------------------------------- MODULE Adb ---------------------------------
(***************************************************************************)
(* Keyboard and mouse (adb.cpp).  The thread that handles the host's       *)
(* events stores key and button events in two rings and adds up the        *)
(* motion of the mouse; ADBInterrupt on the emulator thread takes them     *)
(* out and hands them to the Mac's ADB handlers.  A lock guards the motion *)
(* and nothing guards the rings, whose pointers are each written by one    *)
(* thread.  The user may grab and release the mouse: ADBSetRelMouseMode    *)
(* switches between motion (relative) and positions (absolute).            *)
(*                                                                         *)
(* The mouse has one axis.  Left out are the registers that ADBOp reads    *)
(* and writes, the matrix of pressed keys that it reports, and the layout  *)
(* of the packets, but for the width of a motion in them.  The Mac's ADB   *)
(* handlers are taken to keep interrupts masked: M68K_EMUL_OP_IRQ has no   *)
(* test that would keep a second ADBInterrupt out of one that calls a      *)
(* handler, nor a reset of the Mac out of the handler.                     *)
(***************************************************************************)
EXTENDS Integers, Sequences

CONSTANTS
  Inputs,      \* kinds of input that occur together: sets of "key", "button",
               \* "move" and "switch"
  Key,         \* Mac key codes with their up/down flag
  Button,      \* mouse buttons
  Size,        \* slots of each ring
  MaxMotion,   \* bound: the motion that adds up before ADBInterrupt runs
  Position,    \* absolute positions of the mouse
  PacketRange  \* a packet holds a motion modulo this number (128)

ASSUME SizeAssumption == Size \in Nat \ {0, 1}
ASSUME MotionAssumption ==
  MaxMotion \in Nat /\ PacketRange \in Nat \ {0} /\ Position \subseteq Nat

Ring == {"key", "button"}
NoEvent == <<"none">>

\* What the rings hold: a key, or a button that goes down or up
Event(r) == IF r = "key" THEN Key ELSE Button \X BOOLEAN

VARIABLES
  inputs,            \* the kinds of input of this behaviour; they never change
  buffer,            \* key_buffer and button_buffer
  read_ptr,          \* key_read_ptr, button_read_ptr
  write_ptr,         \* key_write_ptr, button_write_ptr
  mouse_x,           \* position, or motion that the Mac has not been told
  old_mouse_x,       \* position that the Mac has been told
  mouse_button,      \* the buttons that are down, as far as events are handled
  old_mouse_button,  \* the buttons that are down, as the Mac has been told
  relative_mouse,    \* motion or positions?
  mouse_lock,        \* owner of mouse_lock, or "none"
  intflag,           \* is INTFLAG_ADB set?
  started,           \* has the Mac started, and initialised ADB?
  ipc,               \* control point of the input thread
  ring,              \* the ring it writes to
  event,             \* the event it stores
  moved,             \* the argument of ADBMouseMoved, then the new mouse_x
  epc,               \* control point of the emulator thread; in the loops of
                     \* ADBInterrupt over a ring, the loop
  step,              \* what the loop does next
  mx,                \* local variable of ADBInterrupt
  got,               \* local variables button and mac_code of ADBInterrupt
  \* What has happened, for the properties:
  ignored,           \* an interrupt has been ignored, and none taken since
  overrun,           \* rings that were once written to when full
  host_button,       \* the buttons that are down
  untold,            \* number of events posted and not told, until an overrun
  owed               \* motion posted and not told, modulo PacketRange

rings == <<buffer, read_ptr, write_ptr, overrun>>
buttons == <<mouse_button, old_mouse_button>>
mouse == <<mouse_x, old_mouse_x, relative_mouse, mouse_lock, owed>>
inputThread == <<ipc, ring, event, moved, host_button>>
loop == <<step, got>>
emulator == <<started, epc, loop, mx, ignored>>
vars == <<inputs, rings, untold, buttons, mouse, intflag, inputThread, emulator>>

\* The ring of the loop that ADBInterrupt is in
LoopRing == IF epc = "keys" THEN "key" ELSE "button"

\* Types.  What ADBInterrupt takes out of a ring is an event of this ring, and
\* never a slot that nothing was written to, be the ring overrun or not.
TypeOK ==
  /\ inputs \in Inputs
  /\ \A r \in Ring : \A i \in 0..(Size - 1) : buffer[r][i] \in Event(r) \cup {NoEvent}
  /\ read_ptr \in [Ring -> 0..(Size - 1)]
  /\ write_ptr \in [Ring -> 0..(Size - 1)]
  /\ mouse_x \in Int /\ old_mouse_x \in Int /\ mx \in Int /\ moved \in Int
  /\ mouse_button \in [Button -> BOOLEAN]
  /\ old_mouse_button \in [Button -> BOOLEAN]
  /\ relative_mouse \in BOOLEAN
  /\ mouse_lock \in {"none", "input", "emul"}
  /\ intflag \in BOOLEAN /\ started \in BOOLEAN
  /\ ipc \in {"idle", "store", "advance", "move_lock", "move_test", "move_store", "zero",
              "flag"}
  /\ ring \in Ring /\ event \in Event(ring) \cup {NoEvent}
  /\ epc \in {"run", "lock", "sample", "clear", "mode", "rel", "abs", "buttons", "keys", "switch"}
  /\ step \in {"test", "button", "read", "advance", "tell", "motion"}
  /\ IF step \in {"advance", "tell"} THEN got \in Event(LoopRing) ELSE got = NoEvent
  /\ ignored \in BOOLEAN
  /\ overrun \subseteq Ring
  /\ host_button \in [Button -> BOOLEAN]
  /\ untold \in [Ring -> Nat]
  /\ owed \in 0..(PacketRange - 1)

\* The mouse may be grabbed at the start.
Init ==
  /\ inputs \in Inputs
  /\ buffer = [r \in Ring |-> [i \in 0..(Size - 1) |-> NoEvent]]
  /\ read_ptr = [r \in Ring |-> 0]
  /\ write_ptr = [r \in Ring |-> 0]
  /\ mouse_x = 0 /\ old_mouse_x = 0 /\ mx = 0
  /\ mouse_button = [b \in Button |-> FALSE]
  /\ old_mouse_button = [b \in Button |-> FALSE]
  /\ relative_mouse \in BOOLEAN
  /\ mouse_lock = "none"
  /\ intflag = FALSE /\ started = FALSE
  /\ ipc = "idle" /\ ring = "key" /\ event = NoEvent /\ moved = 0
  /\ epc = "run" /\ step = "test" /\ got = NoEvent
  /\ ignored = FALSE
  /\ overrun = {}
  /\ host_button = [b \in Button |-> FALSE]
  /\ untold = [r \in Ring |-> 0]
  /\ owed = 0

-----------------------------------------------------------------------------
(* The rings *)

Succ(ptr) == (ptr + 1) % Size

\* A ring is empty when its pointers are equal; it has no mark of being full.
Empty(r) == read_ptr[r] = write_ptr[r]

\* The events in ring r, oldest first
Pending(r) ==
  [i \in 1..((write_ptr[r] - read_ptr[r]) % Size) |-> buffer[r][(read_ptr[r] + i - 1) % Size]]

Press(down, e) == [down EXCEPT ![e[1]] = e[2]]

-----------------------------------------------------------------------------
(* The input thread *)

\* ADBKeyDown, ADBKeyUp, ADBMouseDown and ADBMouseUp
PostEvent(r, e) ==
  /\ r \in inputs
  /\ ipc = "idle"
  /\ ring' = r
  /\ event' = e
  /\ host_button' = IF r = "button" THEN Press(host_button, e) ELSE host_button
  /\ untold' = IF r \in overrun THEN untold ELSE [untold EXCEPT ![r] = @ + 1]
  /\ ipc' = "store"
  /\ UNCHANGED <<inputs, rings, buttons, mouse, intflag, moved, emulator>>

\* The event is written into the slot
Store ==
  /\ ipc = "store"
  /\ buffer' = [buffer EXCEPT ![ring][write_ptr[ring]] = event]
  /\ ipc' = "advance"
  /\ UNCHANGED <<inputs, read_ptr, write_ptr, overrun, untold, buttons, mouse, intflag, ring,
                 event, moved, host_button, emulator>>

\* The event is given to ADBInterrupt, whether or not there is room for it
Advance ==
  /\ ipc = "advance"
  /\ write_ptr' = [write_ptr EXCEPT ![ring] = Succ(@)]
  /\ overrun' = IF Len(Pending(ring)) = Size - 1 THEN overrun \cup {ring} ELSE overrun
  /\ ring' = "key" /\ event' = NoEvent
  /\ ipc' = "flag"
  /\ UNCHANGED <<inputs, buffer, read_ptr, untold, buttons, mouse, intflag, moved, host_button,
                 emulator>>

\* ADBMouseMoved, with a motion or a position
PostMove(x) ==
  /\ "move" \in inputs
  /\ ipc = "idle"
  /\ x \in IF relative_mouse THEN {-1, 1} ELSE Position
  /\ mouse_x \in (1 - MaxMotion)..(MaxMotion - 1)
  /\ moved' = x
  /\ ipc' = "move_lock"
  /\ UNCHANGED <<inputs, rings, untold, buttons, mouse, intflag, ring, event, host_button,
                 emulator>>

\* Fault: ADBMouseMoved does not lock
MoveWithoutLock ==
  /\ ipc = "move_lock"
  /\ ipc' = "move_test"
  /\ UNCHANGED <<inputs, rings, untold, buttons, mouse, intflag, ring, event, moved, host_button,
                 emulator>>

MoveLock ==
  /\ ipc = "move_lock"
  /\ mouse_lock = "none"
  /\ mouse_lock' = "input"
  /\ ipc' = "move_test"
  /\ UNCHANGED <<inputs, rings, untold, buttons, mouse_x, old_mouse_x, relative_mouse, owed,
                 intflag, ring, event, moved, host_button, emulator>>

\* relative_mouse is tested, and mouse_x read to be added to
MoveTest ==
  /\ ipc = "move_test"
  /\ moved' = IF relative_mouse THEN mouse_x + moved ELSE moved
  /\ owed' = IF relative_mouse THEN (owed + moved) % PacketRange ELSE owed
  /\ ipc' = "move_store"
  /\ UNCHANGED <<inputs, rings, untold, buttons, mouse_x, old_mouse_x, relative_mouse,
                 mouse_lock, intflag, ring, event, host_button, emulator>>

MoveStore ==
  /\ ipc = "move_store"
  /\ mouse_x' = moved
  /\ moved' = 0
  /\ mouse_lock' = "none"
  /\ ipc' = "flag"
  /\ UNCHANGED <<inputs, rings, untold, buttons, old_mouse_x, relative_mouse, owed, intflag, ring,
                 event, host_button, emulator>>

\* SetInterruptFlag, TriggerInterrupt
SetAdbFlag ==
  /\ ipc = "flag"
  /\ intflag' = TRUE
  /\ ipc' = "idle"
  /\ UNCHANGED <<inputs, rings, untold, buttons, mouse, ring, event, moved, host_button, emulator>>

\* ungrab_mouse, called by possibly_ungrab_mouse: ADBSetRelMouseMode(false)
Ungrab ==
  /\ "switch" \in inputs
  /\ ipc = "idle"
  /\ relative_mouse
  /\ relative_mouse' = FALSE
  /\ ipc' = "zero"
  /\ UNCHANGED <<inputs, rings, untold, buttons, mouse_x, old_mouse_x, mouse_lock, owed,
                 intflag, ring, event, moved, host_button, emulator>>

\* The end of ADBSetRelMouseMode, on either thread
ZeroMouse ==
  /\ mouse_x' = 0
  /\ owed' = 0
  /\ \/ ipc = "zero" /\ ipc' = "idle" /\ UNCHANGED epc
     \/ epc = "switch" /\ epc' = "run" /\ UNCHANGED ipc
  /\ UNCHANGED <<inputs, rings, untold, buttons, old_mouse_x, relative_mouse, mouse_lock,
                 intflag, ring, event, moved, host_button, started, loop, mx, ignored>>

InputThread == Store \/ Advance \/ MoveLock \/ MoveTest \/ MoveStore \/ SetAdbFlag

-----------------------------------------------------------------------------
(* The emulator thread *)

Emulates(from, to) ==
  /\ epc = from
  /\ epc' = to
  /\ UNCHANGED <<inputs, inputThread>>

\* The Mac starts, and initialises ADB, and it may be restarted
MacRestarts ==
  /\ epc = "run"
  /\ started' = ~started
  /\ UNCHANGED <<inputs, rings, untold, buttons, mouse, intflag, inputThread, epc, loop, mx,
                 ignored>>

\* toggle_mouse_grab, called when the emulator thread collects the host's events
ToggleGrab ==
  /\ "switch" \in inputs
  /\ Emulates("run", "switch")
  /\ relative_mouse' = ~relative_mouse
  /\ UNCHANGED <<rings, untold, buttons, mouse_x, old_mouse_x, mouse_lock, owed, intflag,
                 started, loop, mx, ignored>>

\* M68K_EMUL_OP_IRQ clears the flag, whatever becomes of the event
ADBInterrupt ==
  /\ intflag
  /\ intflag' = FALSE
  /\ ignored' = ~started
  /\ Emulates("run", IF started THEN "lock" ELSE "run")
  /\ UNCHANGED <<rings, untold, buttons, mouse, started, loop, mx>>

LockMouse ==
  /\ mouse_lock = "none"
  /\ mouse_lock' = "emul"
  /\ Emulates("lock", "sample")
  /\ UNCHANGED <<rings, untold, buttons, mouse_x, old_mouse_x, relative_mouse, owed, intflag,
                 started, loop, mx, ignored>>

SampleMouse ==
  /\ mx' = mouse_x
  /\ Emulates("sample", "clear")
  /\ UNCHANGED <<rings, untold, buttons, mouse, intflag, started, loop, ignored>>

\* The end of the critical section
ClearMotion ==
  /\ mouse_x' = IF relative_mouse THEN 0 ELSE mouse_x
  /\ mouse_lock' = "none"
  /\ Emulates("clear", "mode")
  /\ UNCHANGED <<rings, untold, buttons, old_mouse_x, relative_mouse, owed, intflag, started,
                 loop, mx, ignored>>

\* relative_mouse is read again
TestMode ==
  /\ Emulates("mode", IF relative_mouse THEN "rel" ELSE "abs")
  /\ UNCHANGED <<rings, untold, buttons, mouse, intflag, started, loop, mx, ignored>>

\* The cursor is set if it has moved
TellPosition ==
  /\ old_mouse_x' = mx
  /\ mx' = 0
  /\ Emulates("abs", "buttons")
  /\ UNCHANGED <<rings, untold, buttons, mouse_x, relative_mouse, mouse_lock, owed, intflag,
                 started, loop, ignored>>

-----------------------------------------------------------------------------
(* The loops of ADBInterrupt over a ring.  Their accesses to the ring have *)
(* steps of their own: the input thread may write between any two.         *)

Loops(from, to) ==
  /\ epc \in {"rel", "buttons", "keys"}
  /\ step = from
  /\ step' = to
  /\ UNCHANGED <<inputs, epc, inputThread>>

\* The condition of the loop: in the relative loop a motion is enough
TestRing ==
  /\ ~Empty(LoopRing) \/ (epc = "rel" /\ mx # 0)
  /\ Loops("test", IF epc = "rel" THEN "button" ELSE "read")
  /\ UNCHANGED <<rings, untold, buttons, mouse, intflag, started, mx, got, ignored>>

\* The relative loop tests the ring again.
TestButton ==
  /\ Loops("button", IF Empty("button") THEN "motion" ELSE "read")
  /\ UNCHANGED <<rings, untold, buttons, mouse, intflag, started, mx, got, ignored>>

\* The oldest event of ring r
Oldest(r) == buffer[r][read_ptr[r]]

ReadEvent ==
  /\ got' = Oldest(LoopRing)
  /\ Loops("read", "advance")
  /\ UNCHANGED <<rings, untold, buttons, mouse, intflag, started, mx, ignored>>

\* Fault: the last event of the ring is taken out for all that come before it
TakeLastEvent ==
  /\ Loops("advance", "tell")
  /\ read_ptr' = [read_ptr EXCEPT ![LoopRing] = write_ptr[LoopRing]]
  /\ mouse_button' = IF LoopRing = "button" THEN Press(mouse_button, got) ELSE mouse_button
  /\ UNCHANGED <<buffer, write_ptr, overrun, untold, old_mouse_button, mouse, intflag, started,
                 mx, got, ignored>>

\* The event is taken out
TakeEvent ==
  /\ Loops("advance", "tell")
  /\ read_ptr' = [read_ptr EXCEPT ![LoopRing] = Succ(@)]
  /\ mouse_button' = IF LoopRing = "button" THEN Press(mouse_button, got) ELSE mouse_button
  /\ UNCHANGED <<buffer, write_ptr, overrun, untold, old_mouse_button, mouse, intflag, started,
                 mx, got, ignored>>

\* The Mac's handler is called.  A packet of the mouse tells the motion, as far
\* as there is room for its low bits, and the buttons; in the absolute loop
\* there is one only if a button has changed.
Tell ==
  /\ step \in {"tell", "motion"} /\ Loops(step, "test")
  /\ old_mouse_button' = IF LoopRing = "button" THEN mouse_button ELSE old_mouse_button
  /\ IF epc = "rel"
       THEN owed' = (owed - mx) % PacketRange /\ mx' = 0
       ELSE UNCHANGED <<owed, mx>>
  /\ untold' = IF step = "motion" \/ LoopRing \in overrun
                 THEN untold ELSE [untold EXCEPT ![LoopRing] = @ - 1]
  /\ got' = NoEvent
  /\ UNCHANGED <<rings, mouse_button, mouse_x, old_mouse_x, relative_mouse, mouse_lock, intflag,
                 started, ignored>>

\* The end of a loop over the buttons
ButtonsTold ==
  /\ step = "test" /\ Empty("button")
  /\ epc = "rel" => mx = 0
  /\ epc \in {"rel", "buttons"} /\ Emulates(epc, "keys")
  /\ UNCHANGED <<rings, untold, buttons, mouse, intflag, started, loop, mx, ignored>>

\* Fault: M68K_EMUL_OP_IRQ clears the flag after the call of ADBInterrupt
ClearFlagLate ==
  /\ step = "test" /\ Empty("key")
  /\ intflag' = FALSE
  /\ Emulates("keys", "run")
  /\ UNCHANGED <<rings, untold, buttons, mouse, started, loop, mx, ignored>>

ADBInterruptReturns ==
  /\ step = "test" /\ Empty("key")
  /\ Emulates("keys", "run")
  /\ UNCHANGED <<rings, untold, buttons, mouse, intflag, started, loop, mx, ignored>>

Interrupt ==
  \/ LockMouse \/ SampleMouse \/ ClearMotion \/ TestMode \/ TellPosition
  \/ TestRing \/ TestButton \/ ReadEvent \/ TakeEvent \/ Tell
  \/ ButtonsTold \/ ADBInterruptReturns

-----------------------------------------------------------------------------

User ==
  \/ \E r \in Ring : \E e \in Event(r) : PostEvent(r, e)
  \/ \E x \in {-1, 1} \cup Position : PostMove(x)
  \/ Ungrab \/ ToggleGrab

Next ==
  \/ User \/ InputThread \/ ZeroMouse
  \/ MacRestarts \/ ADBInterrupt \/ Interrupt

Spec == Init /\ [][Next]_vars

-----------------------------------------------------------------------------

\* Until a ring is once overrun, presses, releases and taps reach the Mac one
\* by one and in order, although no lock guards the ring: an event enters as it
\* was posted, and what ADBInterrupt takes out is what it has read, the oldest
\* one.  ("avoid to loose tap on a trackpad", adb.cpp:60.)  It is overrun when
\* the input thread is a whole ring ahead of ADBInterrupt.  Then it looks empty,
\* and what is told may no longer be what is taken out.
EventsKept ==
  [][\A r \in Ring \ overrun' :
       \/ Pending(r)' = Pending(r)
       \/ ring = r /\ Pending(r)' = Append(Pending(r), event)
       \/ /\ Len(Pending(r)) > 0 /\ Pending(r)' = Tail(Pending(r))
          /\ got = Head(Pending(r))]_vars

\* Motion is neither lost nor told twice: what ADBMouseMoved has added up and
\* the Mac has not been told is in mouse_x or under way in ADBInterrupt, as far
\* as a packet can hold it.  (ADBSetRelMouseMode takes no lock, and a user who
\* releases the mouse may lose a motion.)
MotionConserved ==
  relative_mouse /\ "switch" \notin inputs =>
    LET stored == IF ipc = "move_store" THEN moved ELSE mouse_x
        taken == IF epc \in {"mode", "rel"} THEN mx ELSE 0
    IN owed = (stored + taken) % PacketRange

\* No input is stranded: when both threads are at rest and no interrupt is
\* pending, nothing waits in the rings, the Mac has been told every event of
\* the rings that were never overrun, and with them the buttons as they are,
\* and the position or the motion of the mouse.  Three cases are excepted.
\* After an overrun what was in the ring is lost for good, until the same
\* button is used again.  Input whose interrupt came before the Mac had started
\* waits for the next interrupt.  And where the user switches between motion
\* and positions, the motion may be lost or the position left untold.
NoInputStranded ==
  ipc = "idle" /\ epc = "run" /\ ~intflag /\ ~ignored =>
    /\ \A r \in Ring : Empty(r)
    /\ \A r \in Ring \ overrun : untold[r] = 0
    /\ old_mouse_button = mouse_button
    /\ "button" \notin overrun => mouse_button = host_button
    /\ "switch" \notin inputs => mouse_x = IF relative_mouse THEN 0 ELSE old_mouse_x
=============================================================================
