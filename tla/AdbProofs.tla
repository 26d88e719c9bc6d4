------------------------------ MODULE AdbProofs ------------------------------
(***************************************************************************)
(* Proofs about Adb, for rings of any size, any number of keys and buttons *)
(* and any amount of motion.                                               *)
(*                                                                         *)
(* The motion: MouseInv says who owns mouse_lock, so that what             *)
(* ADBInterrupt has sampled is what it clears.  The rings: Pending is a    *)
(* window of the ring between its two pointers (arithmetic modulo Size),   *)
(* and until the ring is overrun each step of either thread leaves the     *)
(* window, adds at one end, or takes from the other (EventStep).  The loops*)
(* of ADBInterrupt test, read and take out in steps of their own: ReadInv  *)
(* says that what they have seen still holds when they act on it.  The     *)
(* buttons: ButtonInv relates the buttons that are down to those that the  *)
(* Mac knows of and the events in between; UntoldInv counts the events.    *)
(* WakeInv says that whatever has been posted has an interrupt ahead of it.*)
(***************************************************************************)
EXTENDS Adb, TLAPS

-----------------------------------------------------------------------------
(* Remainders *)

\* Division with remainder, as the definitions of \div and % give it
LEMMA Remainder ==
  ASSUME NEW a \in Int, NEW n \in Nat \ {0}
  PROVE  /\ a % n \in 0..(n - 1)
         /\ a \div n \in Int
         /\ a = n * (a \div n) + (a % n)
BY Z3

\* The remainder is the only number of its range that leaves a multiple.
LEMMA RemainderIs ==
  ASSUME NEW a \in Int, NEW n \in Nat \ {0}, NEW q \in Int, NEW r \in 0..(n - 1), a = n * q + r
  PROVE  a % n = r
<1> DEFINE d == a \div n
           m == a % n
<1>1. d \in Int /\ m \in 0..(n - 1) /\ a = n * d + m
  BY Remainder
<1> HIDE DEF d, m
<1>2. n * (d - q) = r - m
  <2>1. n * (d - q) = n * d - n * q
    BY <1>1
  <2> QED BY <1>1, <2>1
<1>3. CASE d - q >= 1
  <2>1. n * (d - q) >= n
    BY <1>1, <1>3
  <2> QED BY <1>1, <1>2, <2>1
<1>4. CASE d - q <= -1
  <2>1. n * (d - q) <= -n
    BY <1>1, <1>4
  <2> QED BY <1>1, <1>2, <2>1
<1>5. CASE d = q
  BY <1>1, <1>5 DEF m
<1> QED
  BY <1>1, <1>3, <1>4, <1>5

\* Remainders may be taken before a sum or a difference, or after it.
LEMMA AddRemainder ==
  ASSUME NEW a \in Int, NEW b \in Int, NEW n \in Nat \ {0}
  PROVE  /\ ((a % n) + b) % n = (a + b) % n
         /\ ((a % n) - b) % n = (a - b) % n
<1>1. ASSUME NEW c \in Int
      PROVE  ((a % n) + c) % n = (a + c) % n
  <2> DEFINE d == a \div n
             m == a % n
             e == (a + c) \div n
             r == (a + c) % n
  <2>1. d \in Int /\ m \in 0..(n - 1) /\ a = n * d + m
    BY Remainder
  <2>2. e \in Int /\ r \in 0..(n - 1) /\ a + c = n * e + r
    <3>1. a + c \in Int
      OBVIOUS
    <3> QED BY <3>1, Remainder
  <2> HIDE DEF d, e, r, m
  <2>3. m + c = n * (e - d) + r
    <3>1. n * (e - d) = n * e - n * d
      BY <2>1, <2>2
    <3>2. n * d \in Int /\ n * e \in Int
      BY <2>1, <2>2
    <3> QED BY <2>1, <2>2, <3>1, <3>2
  <2>4. (m + c) % n = r
    <3>1. m + c \in Int /\ e - d \in Int
      BY <2>1, <2>2
    <3> QED BY <2>2, <2>3, <3>1, RemainderIs
  <2> QED BY <2>4 DEF r, m
<1>2. -b \in Int
  OBVIOUS
<1>3. ((a % n) + (-b)) % n = (a + (-b)) % n
  BY <1>1, <1>2
<1>4. a % n \in Int
  BY Remainder
<1> QED
  BY <1>1, <1>3, <1>4

-----------------------------------------------------------------------------
(* The motion of the mouse *)

\* What the steps of the motion rely on of TypeOK
MouseOK ==
  /\ mouse_x \in Int /\ old_mouse_x \in Int /\ mx \in Int /\ moved \in Int
  /\ relative_mouse \in BOOLEAN
  /\ owed \in 0..(PacketRange - 1)
  /\ ipc \in {"idle", "store", "advance", "move_lock", "move_test", "move_store", "zero",
              "flag"}
  /\ epc \in {"run", "lock", "sample", "clear", "mode", "rel", "abs", "buttons", "keys", "switch"}

\* mouse_lock is owned by who is in a critical section
LockInv ==
  /\ mouse_lock \in {"none", "input", "emul"}
  /\ ipc \in {"move_test", "move_store"} <=> mouse_lock = "input"
  /\ epc \in {"sample", "clear"} <=> mouse_lock = "emul"

\* ADBSetRelMouseMode is called only where the user switches modes
SwitchInv == ipc = "zero" \/ epc = "switch" => "switch" \in inputs

\* What has been sampled stays in mouse_x until the lock is released
SampleInv == epc = "clear" /\ "switch" \notin inputs => mx = mouse_x

MouseInv == MouseOK /\ LockInv /\ SwitchInv /\ SampleInv /\ MotionConserved

\* Every step keeps the sum of what is stored and what is on its way to the Mac.
LEMMA MouseInvariant == Spec => []MouseInv
<1> USE MotionAssumption
    DEF MouseInv, MouseOK, LockInv, SwitchInv, SampleInv, MotionConserved
<1>1. ASSUME Init
      PROVE  MouseInv
  BY <1>1 DEF Init
<1>2. ASSUME MouseInv, [Next]_vars
      PROVE  MouseInv'
  <2> USE <1>2 DEF rings, buttons, mouse, inputThread, emulator, loop
  <2>1. ASSUME NEW r \in Ring, NEW e \in Event(r), PostEvent(r, e)
         PROVE  MouseInv'
    BY <2>1 DEF PostEvent
  <2>2. ASSUME NEW x \in {-1, 1} \cup Position, PostMove(x)
         PROVE  MouseInv'
    BY <2>2 DEF PostMove
  <2>3. CASE Ungrab
    BY <2>3 DEF Ungrab
  <2>4. CASE ToggleGrab
    BY <2>4 DEF ToggleGrab, Emulates
  <2>5. CASE Store
    BY <2>5 DEF Store
  <2>6. CASE Advance
    BY <2>6 DEF Advance
  <2>7. CASE MoveLock
    BY <2>7 DEF MoveLock
  <2>8. CASE MoveTest
    <3> DEFINE taken == IF epc \in {"mode", "rel"} THEN mx ELSE 0
    <3>1. ASSUME relative_mouse, "switch" \notin inputs
          PROVE  owed' = (moved' + taken) % PacketRange
      <4>1. owed = (mouse_x + taken) % PacketRange
        BY <2>8, <3>1 DEF MoveTest
      <4>2. owed' = (((mouse_x + taken) % PacketRange) + moved) % PacketRange
        BY <2>8, <3>1, <4>1 DEF MoveTest
      <4> DEFINE sum == mouse_x + taken
      <4>3. sum \in Int /\ owed' = ((sum % PacketRange) + moved) % PacketRange
        BY <4>2
      <4> HIDE DEF sum
      <4>4. owed' = (sum + moved) % PacketRange
        BY <4>3, AddRemainder
      <4>5. sum + moved = moved' + taken
        BY <2>8, <3>1 DEF MoveTest, sum
      <4> QED
        BY <4>4, <4>5
    <3>2. MotionConserved'
      BY <2>8, <3>1 DEF MoveTest
    <3>3. owed' \in 0..(PacketRange - 1)
      <4>1. owed + moved \in Int
        OBVIOUS
      <4> QED
        BY <2>8, <4>1, Remainder DEF MoveTest
    <3>4. MouseOK'
      BY <2>8, <3>3 DEF MoveTest
    <3> QED
      BY <2>8, <3>2, <3>4 DEF MoveTest
  <2>9. CASE MoveStore
    BY <2>9 DEF MoveStore
  <2>10. CASE SetAdbFlag
    BY <2>10 DEF SetAdbFlag
  <2>11. CASE ZeroMouse
    BY <2>11 DEF ZeroMouse
  <2>12. CASE MacRestarts
    BY <2>12 DEF MacRestarts
  <2>13. CASE ADBInterrupt
    BY <2>13 DEF ADBInterrupt, Emulates
  <2>14. CASE LockMouse
    BY <2>14 DEF LockMouse, Emulates
  <2>15. CASE SampleMouse
    BY <2>15 DEF SampleMouse, Emulates
  <2>16. CASE ClearMotion
    BY <2>16 DEF ClearMotion, Emulates
  <2>17. CASE TestMode
    BY <2>17 DEF TestMode, Emulates
  <2>18. CASE TellPosition
    BY <2>18 DEF TellPosition, Emulates
  <2>19. CASE TestRing
    BY <2>19 DEF TestRing, Loops
  <2>20. CASE TestButton
    BY <2>20 DEF TestButton, Loops
  <2>21. CASE ReadEvent
    BY <2>21 DEF ReadEvent, Loops
  <2>22. CASE TakeEvent
    BY <2>22 DEF TakeEvent, Loops
  <2>23. CASE Tell
    <3> DEFINE stored == IF ipc = "move_store" THEN moved ELSE mouse_x
    <3>0. CASE epc # "rel"
      BY <2>23, <3>0 DEF Tell, Loops
    <3>1. ASSUME relative_mouse, "switch" \notin inputs, epc = "rel"
          PROVE  owed' = stored % PacketRange
      <4>1. owed = (stored + mx) % PacketRange
        BY <2>23, <3>1 DEF Tell, Loops
      <4> DEFINE sum == stored + mx
      <4>2. sum \in Int /\ owed' = ((sum % PacketRange) - mx) % PacketRange
        BY <2>23, <3>1, <4>1 DEF Tell, Loops
      <4>3. sum - mx = stored
        OBVIOUS
      <4> HIDE DEF sum, stored
      <4>4. owed' = (sum - mx) % PacketRange
        BY <4>2, AddRemainder
      <4> QED
        BY <4>3, <4>4
    <3>2. ASSUME epc = "rel"
          PROVE  MotionConserved'
      BY <2>23, <3>1, <3>2 DEF Tell, Loops
    <3>3. ASSUME epc = "rel"
          PROVE  owed' \in 0..(PacketRange - 1)
      <4>1. owed - mx \in Int
        OBVIOUS
      <4> QED
        BY <2>23, <3>3, <4>1, Remainder DEF Tell, Loops
    <3>4. ASSUME epc = "rel"
          PROVE  MouseOK'
      BY <2>23, <3>3, <3>4 DEF Tell, Loops
    <3> QED
      BY <2>23, <3>0, <3>2, <3>4 DEF Tell, Loops
  <2>24. CASE ButtonsTold
    BY <2>24 DEF ButtonsTold, Emulates
  <2>25. CASE ADBInterruptReturns
    BY <2>25 DEF ADBInterruptReturns, Emulates
  <2>26. CASE UNCHANGED vars
    BY <2>26 DEF vars
  <2> QED
    BY <1>2, <2>1, <2>2, <2>3, <2>4, <2>5, <2>6, <2>7, <2>8, <2>9, <2>10, <2>11,
       <2>12, <2>13, <2>14, <2>15, <2>16, <2>17, <2>18, <2>19, <2>20, <2>21, <2>22,
       <2>23, <2>24, <2>25, <2>26
       DEF Next, User, InputThread, Interrupt
<1> QED
  BY <1>1, <1>2, PTL DEF Spec

\* The motions that ADBMouseMoved adds up under the lock are told to the Mac
\* once each, as far as the 7 bits of a packet hold them.
THEOREM MotionIsConserved == Spec => []MotionConserved
<1>1. MouseInv => MotionConserved
  BY DEF MouseInv
<1> QED
  BY <1>1, MouseInvariant, PTL

-----------------------------------------------------------------------------
(* The rings.  Window is what Pending reads of one ring. *)

Slots == 0..(Size - 1)

\* The number of events between the pointers of a ring
Count(rp, wp) == IF rp <= wp THEN wp - rp ELSE wp - rp + Size

\* The slot that follows the last one is the first one.
Slot(a) == IF a < Size THEN a ELSE a - Size

\* The events between the pointers, oldest first
Window(buf, rp, wp) == [i \in 1..Count(rp, wp) |-> buf[Slot(rp + i - 1)]]

\* The code's and the model's arithmetic modulo Size is that of Slot and Count.
LEMMA Wraps ==
  /\ \A p \in Slots : Succ(p) = Slot(p + 1)
  /\ \A p, q \in Slots : (q - p) % Size = Count(p, q)
  /\ \A p, q \in Slots : \A i \in 1..Count(p, q) : (p + i - 1) % Size = Slot(p + i - 1)
<1> USE SizeAssumption DEF Slots, Slot, Count
<1>1. ASSUME NEW a \in 0..(2 * Size - 1)
      PROVE  a % Size = Slot(a)
  <2>1. CASE a < Size
    <3>1. a = Size * 0 + a
      OBVIOUS
    <3> QED BY <2>1, <3>1, RemainderIs
  <2>2. CASE a >= Size
    <3>1. a = Size * 1 + (a - Size) /\ a - Size \in 0..(Size - 1)
      BY <2>2
    <3> QED BY <2>2, <3>1, RemainderIs
  <2> QED BY <2>1, <2>2
<1>2. ASSUME NEW p \in Slots
      PROVE  Succ(p) = Slot(p + 1)
  <2>1. p + 1 \in 0..(2 * Size - 1)
    OBVIOUS
  <2> QED BY <1>1, <2>1 DEF Succ
<1>3. ASSUME NEW p \in Slots, NEW q \in Slots
      PROVE  (q - p) % Size = Count(p, q)
  <2>1. CASE p <= q
    <3>1. q - p \in 0..(2 * Size - 1) /\ q - p < Size
      BY <2>1
    <3> QED BY <1>1, <2>1, <3>1
  <2>2. CASE ~(p <= q)
    <3>1. q - p = Size * (-1) + (q - p + Size) /\ q - p + Size \in 0..(Size - 1)
      BY <2>2
    <3>2. q - p \in Int /\ -1 \in Int
      OBVIOUS
    <3> QED BY <2>2, <3>1, <3>2, RemainderIs
  <2> QED BY <2>1, <2>2
<1>4. ASSUME NEW p \in Slots, NEW q \in Slots, NEW i \in 1..Count(p, q)
      PROVE  (p + i - 1) % Size = Slot(p + i - 1)
  <2>1. p + i - 1 \in 0..(2 * Size - 1)
    OBVIOUS
  <2> QED BY <1>1, <2>1
<1> QED
  BY <1>2, <1>3, <1>4

\* A window is a sequence that is shorter than the ring.
LEMMA WindowIsSeq ==
  ASSUME NEW S, NEW buf \in [Slots -> S], NEW rp \in Slots, NEW wp \in Slots
  PROVE  /\ Window(buf, rp, wp) \in Seq(S)
         /\ Len(Window(buf, rp, wp)) = Count(rp, wp)
         /\ Count(rp, wp) \in Slots
<1> USE SizeAssumption DEF Slots
<1>1. Count(rp, wp) \in Slots
  BY DEF Count
<1>2. ASSUME NEW i \in 1..Count(rp, wp)
      PROVE  Slot(rp + i - 1) \in Slots
  BY <1>1 DEF Count, Slot
<1>3. Window(buf, rp, wp) \in [1..Count(rp, wp) -> S]
  BY <1>2 DEF Window
<1> QED
  BY <1>1, <1>3

\* An event is stored in a slot outside of the window.
LEMMA WindowStore ==
  ASSUME NEW S, NEW buf \in [Slots -> S], NEW rp \in Slots, NEW wp \in Slots, NEW e \in S
  PROVE  Window([buf EXCEPT ![wp] = e], rp, wp) = Window(buf, rp, wp)
<1> USE SizeAssumption DEF Slots
<1>1. ASSUME NEW i \in 1..Count(rp, wp)
      PROVE  /\ Slot(rp + i - 1) \in Slots
             /\ Slot(rp + i - 1) # wp
  BY DEF Count, Slot
<1> QED
  BY <1>1 DEF Window

\* The window grows by the event that has been stored,
LEMMA WindowAdvance ==
  ASSUME NEW S, NEW buf \in [Slots -> S], NEW rp \in Slots, NEW wp \in Slots,
         Count(rp, wp) # Size - 1
  PROVE  Window(buf, rp, Slot(wp + 1)) = Append(Window(buf, rp, wp), buf[wp])
<1> USE SizeAssumption DEF Slots
<1> DEFINE n == Count(rp, wp)
           s == Window(buf, rp, wp)
           t == Window(buf, rp, Slot(wp + 1))
<1>1. s \in Seq(S) /\ Len(s) = n /\ n \in Nat
  BY WindowIsSeq
<1>2. Slot(wp + 1) \in Slots /\ Count(rp, Slot(wp + 1)) = n + 1
  BY DEF Count, Slot
<1>3. t \in Seq(S) /\ Len(t) = n + 1
  BY <1>2, WindowIsSeq
<1>4. ASSUME NEW i \in 1..n
      PROVE  t[i] = s[i]
  BY <1>1, <1>2 DEF Window
<1>5. t[n + 1] = buf[wp]
  <2>1. Slot(rp + (n + 1) - 1) = wp
    BY DEF Count, Slot
  <2> QED
    BY <1>1, <1>2, <2>1 DEF Window
<1> HIDE DEF n, s, t
<1>6. buf[wp] \in S
  OBVIOUS
<1>7. t = Append(s, buf[wp])
  BY <1>1, <1>3, <1>4, <1>5, <1>6
<1> QED
  BY <1>7 DEF s, t

\* unless it then seems to be empty,
LEMMA WindowOverrun ==
  ASSUME NEW buf, NEW rp \in Slots, NEW wp \in Slots, Count(rp, wp) = Size - 1
  PROVE  Window(buf, rp, Slot(wp + 1)) = <<>>
<1>1. Count(rp, Slot(wp + 1)) = 0
  BY SizeAssumption DEF Slots, Count, Slot
<1> QED
  BY <1>1 DEF Window

\* and loses its oldest event.
LEMMA WindowTake ==
  ASSUME NEW S, NEW buf \in [Slots -> S], NEW rp \in Slots, NEW wp \in Slots, rp # wp
  PROVE  Window(buf, Slot(rp + 1), wp) = Tail(Window(buf, rp, wp))
<1> USE SizeAssumption DEF Slots
<1> DEFINE n == Count(rp, wp)
           s == Window(buf, rp, wp)
           t == Window(buf, Slot(rp + 1), wp)
<1>1. s \in Seq(S) /\ Len(s) = n /\ n \in Nat
  BY WindowIsSeq
<1>2. Slot(rp + 1) \in Slots /\ Count(Slot(rp + 1), wp) = n - 1 /\ n > 0
  BY DEF Count, Slot
<1>3. t \in Seq(S) /\ Len(t) = n - 1
  <2> DEFINE p == Slot(rp + 1)
  <2>1. p \in Slots /\ Count(p, wp) = n - 1
    BY <1>2
  <2> HIDE DEF p, n
  <2>2. Window(buf, p, wp) \in Seq(S) /\ Len(Window(buf, p, wp)) = n - 1
    BY <2>1, WindowIsSeq
  <2> QED
    BY <2>2 DEF p
<1>4. ASSUME NEW i \in 1..(n - 1)
      PROVE  t[i] = s[i + 1]
  <2>1. Slot(Slot(rp + 1) + i - 1) = Slot(rp + (i + 1) - 1)
    BY DEF Count, Slot
  <2>2. i \in 1..Count(Slot(rp + 1), wp) /\ i + 1 \in 1..Count(rp, wp)
    BY <1>1, <1>2
  <2> QED
    BY <2>1, <2>2 DEF Window
<1> HIDE DEF n, s, t
<1>5. t = Tail(s)
  BY <1>1, <1>2, <1>3, <1>4
<1> QED
  BY <1>5 DEF s, t

\* The place in the window of a full ring of any slot but the next one
LEMMA PlaceOfSlot ==
  ASSUME NEW rp \in Slots, NEW wp \in Slots, NEW i \in Slots, i # wp,
         Count(rp, wp) = Size - 1
  PROVE  /\ Count(rp, i) + 1 \in 1..Count(rp, wp)
         /\ Slot(rp + (Count(rp, i) + 1) - 1) = i
BY SizeAssumption DEF Slots, Count, Slot

\* The slots of a full ring, and the one that is stored next, are all of them.
LEMMA WindowFull ==
  ASSUME NEW S, NEW T, NEW buf \in [Slots -> T], NEW rp \in Slots, NEW wp \in Slots,
         Count(rp, wp) = Size - 1, buf[wp] \in S,
         \A k \in 1..Count(rp, wp) : Window(buf, rp, wp)[k] \in S
  PROVE  buf \in [Slots -> S]
<1>1. ASSUME NEW i \in Slots, i # wp
      PROVE  buf[i] \in S
  <2> DEFINE k == Count(rp, i) + 1
  <2>1. k \in 1..Count(rp, wp) /\ Slot(rp + k - 1) = i
    BY <1>1, PlaceOfSlot
  <2> HIDE DEF k
  <2>2. Window(buf, rp, wp)[k] = buf[i]
    BY <2>1 DEF Window
  <2> QED
    BY <2>1, <2>2
<1> QED
  BY <1>1

\* What a slot may hold
Entry == Key \cup (Button \X BOOLEAN) \cup {NoEvent}

\* The rings are well formed, and an event is in its slot before the other
\* thread can see it.
RingOK ==
  /\ buffer \in [Ring -> [Slots -> Entry]]
  /\ read_ptr \in [Ring -> Slots]
  /\ write_ptr \in [Ring -> Slots]
  /\ ring \in Ring
  /\ event \in Entry
  /\ ipc \in {"store", "advance"} => event \in Event(ring)
  /\ ipc = "advance" => buffer[ring][write_ptr[ring]] = event

\* A pointer that advances stays in the ring.
LEMMA SuccIsSlot == \A p \in Slots : Succ(p) \in Slots /\ Succ(p) = Slot(p + 1)
<1>1. ASSUME NEW p \in Slots
      PROVE  Slot(p + 1) \in Slots
  BY SizeAssumption DEF Slots, Slot
<1> QED
  BY <1>1, Wraps

\* Each pointer and each slot is written by one thread, at one point of it.
LEMMA RingsAreWellFormed == Spec => []RingOK
<1> USE SizeAssumption DEF RingOK, Ring, Event, Entry
<1>1. ASSUME Init
      PROVE  RingOK
  <2>1. 0 \in Slots
    BY DEF Slots
  <2> QED
    BY <1>1, <2>1 DEF Init, Slots
<1>2. ASSUME RingOK, [Next]_vars
      PROVE  RingOK'
  <2> USE <1>2 DEF rings, buttons, mouse, inputThread, emulator, loop
  <2>1. ASSUME NEW r \in Ring, NEW e \in Event(r), PostEvent(r, e)
         PROVE  RingOK'
    BY <2>1 DEF PostEvent
  <2>2. ASSUME NEW x \in {-1, 1} \cup Position, PostMove(x)
         PROVE  RingOK'
    BY <2>2 DEF PostMove
  <2>3. CASE Ungrab
    BY <2>3 DEF Ungrab
  <2>4. CASE ToggleGrab
    BY <2>4 DEF ToggleGrab, Emulates
  <2>5. CASE Store
    BY <2>5 DEF Store
  <2>6. CASE Advance
    <3>1. write_ptr' \in [Ring -> Slots]
      BY <2>6, SuccIsSlot DEF Advance
    <3> QED
      BY <2>6, <3>1 DEF Advance
  <2>7. CASE MoveLock
    BY <2>7 DEF MoveLock
  <2>8. CASE MoveTest
    BY <2>8 DEF MoveTest
  <2>9. CASE MoveStore
    BY <2>9 DEF MoveStore
  <2>10. CASE SetAdbFlag
    BY <2>10 DEF SetAdbFlag
  <2>11. CASE ZeroMouse
    BY <2>11 DEF ZeroMouse
  <2>12. CASE MacRestarts
    BY <2>12 DEF MacRestarts
  <2>13. CASE ADBInterrupt
    BY <2>13 DEF ADBInterrupt, Emulates
  <2>14. CASE LockMouse
    BY <2>14 DEF LockMouse, Emulates
  <2>15. CASE SampleMouse
    BY <2>15 DEF SampleMouse, Emulates
  <2>16. CASE ClearMotion
    BY <2>16 DEF ClearMotion, Emulates
  <2>17. CASE TestMode
    BY <2>17 DEF TestMode, Emulates
  <2>18. CASE TellPosition
    BY <2>18 DEF TellPosition, Emulates
  <2>19. CASE TestRing
    BY <2>19 DEF TestRing, Loops
  <2>20. CASE TestButton
    BY <2>20 DEF TestButton, Loops
  <2>21. CASE ReadEvent
    BY <2>21 DEF ReadEvent, Loops
  <2>22. CASE TakeEvent
    <3>1. read_ptr' \in [Ring -> Slots]
      BY <2>22, SuccIsSlot DEF TakeEvent, LoopRing
    <3> QED
      BY <2>22, <3>1 DEF TakeEvent, Loops
  <2>23. CASE Tell
    BY <2>23 DEF Tell, Loops
  <2>24. CASE ButtonsTold
    BY <2>24 DEF ButtonsTold, Emulates
  <2>25. CASE ADBInterruptReturns
    BY <2>25 DEF ADBInterruptReturns, Emulates
  <2>26. CASE UNCHANGED vars
    BY <2>26 DEF vars
  <2> QED
    BY <1>2, <2>1, <2>2, <2>3, <2>4, <2>5, <2>6, <2>7, <2>8, <2>9, <2>10, <2>11,
       <2>12, <2>13, <2>14, <2>15, <2>16, <2>17, <2>18, <2>19, <2>20, <2>21, <2>22,
       <2>23, <2>24, <2>25, <2>26
       DEF Next, User, InputThread, Interrupt
<1> QED
  BY <1>1, <1>2, PTL DEF Spec

\* Pending is a window of the ring.
LEMMA PendingIsWindow ==
  ASSUME RingOK, NEW r \in Ring
  PROVE  Pending(r) = Window(buffer[r], read_ptr[r], write_ptr[r])
<1>1. read_ptr[r] \in Slots /\ write_ptr[r] \in Slots
  BY DEF RingOK
<1> QED
  BY <1>1, Wraps DEF Pending, Window

\* How many events a ring holds
LEMMA LengthOfPending ==
  ASSUME RingOK, NEW r \in Ring
  PROVE  Pending(r) \in Seq(Entry) /\ Len(Pending(r)) = Count(read_ptr[r], write_ptr[r])
<1> DEFINE b == buffer[r]
           p == read_ptr[r]
           q == write_ptr[r]
<1>1. b \in [Slots -> Entry] /\ p \in Slots /\ q \in Slots
  BY DEF RingOK
<1>2. Pending(r) = Window(b, p, q)
  BY PendingIsWindow
<1> HIDE DEF b, p, q
<1>3. Window(b, p, q) \in Seq(Entry) /\ Len(Window(b, p, q)) = Count(p, q)
  BY <1>1, WindowIsSeq
<1> QED
  BY <1>2, <1>3 DEF b, p, q

\* The same of the state after a step
LEMMA PendingIsWindowPrimed ==
  ASSUME RingOK', NEW r \in Ring
  PROVE  Pending(r)' = Window(buffer'[r], read_ptr'[r], write_ptr'[r])
<1>1. read_ptr'[r] \in Slots /\ write_ptr'[r] \in Slots
  BY DEF RingOK
<1> QED
  BY <1>1, Wraps DEF Pending, Window

-----------------------------------------------------------------------------
(* The loops over the rings *)

\* step is of use in the loops only, and so is got, between the reading of an
\* event and the call of the Mac's handler.
LoopOK ==
  /\ step \in {"test", "button", "read", "advance", "tell", "motion"}
  /\ epc \notin {"rel", "buttons", "keys"} => step = "test"
  /\ step \in {"button", "motion"} => epc = "rel"
  /\ step \notin {"advance", "tell"} => got = NoEvent

\* The control points of the loops
LEMMA LoopsAreWellFormed == Spec => []LoopOK
<1> USE DEF LoopOK
<1>1. ASSUME Init
      PROVE  LoopOK
  BY <1>1 DEF Init
<1>2. ASSUME LoopOK, [Next]_vars
      PROVE  LoopOK'
  <2> USE <1>2 DEF rings, buttons, mouse, inputThread, emulator, loop
  <2>1. ASSUME NEW r \in Ring, NEW e \in Event(r), PostEvent(r, e)
         PROVE  LoopOK'
    BY <2>1 DEF PostEvent
  <2>2. ASSUME NEW x \in {-1, 1} \cup Position, PostMove(x)
         PROVE  LoopOK'
    BY <2>2 DEF PostMove
  <2>3. CASE Ungrab
    BY <2>3 DEF Ungrab
  <2>4. CASE ToggleGrab
    BY <2>4 DEF ToggleGrab, Emulates
  <2>5. CASE Store
    BY <2>5 DEF Store
  <2>6. CASE Advance
    BY <2>6 DEF Advance
  <2>7. CASE MoveLock
    BY <2>7 DEF MoveLock
  <2>8. CASE MoveTest
    BY <2>8 DEF MoveTest
  <2>9. CASE MoveStore
    BY <2>9 DEF MoveStore
  <2>10. CASE SetAdbFlag
    BY <2>10 DEF SetAdbFlag
  <2>11. CASE ZeroMouse
    BY <2>11 DEF ZeroMouse
  <2>12. CASE MacRestarts
    BY <2>12 DEF MacRestarts
  <2>13. CASE ADBInterrupt
    BY <2>13 DEF ADBInterrupt, Emulates
  <2>14. CASE LockMouse
    BY <2>14 DEF LockMouse, Emulates
  <2>15. CASE SampleMouse
    BY <2>15 DEF SampleMouse, Emulates
  <2>16. CASE ClearMotion
    BY <2>16 DEF ClearMotion, Emulates
  <2>17. CASE TestMode
    BY <2>17 DEF TestMode, Emulates
  <2>18. CASE TellPosition
    BY <2>18 DEF TellPosition, Emulates
  <2>19. CASE TestRing
    BY <2>19 DEF TestRing, Loops
  <2>20. CASE TestButton
    BY <2>20 DEF TestButton, Loops
  <2>21. CASE ReadEvent
    BY <2>21 DEF ReadEvent, Loops
  <2>22. CASE TakeEvent
    BY <2>22 DEF TakeEvent, Loops
  <2>23. CASE Tell
    BY <2>23 DEF Tell, Loops
  <2>24. CASE ButtonsTold
    BY <2>24 DEF ButtonsTold, Emulates
  <2>25. CASE ADBInterruptReturns
    BY <2>25 DEF ADBInterruptReturns, Emulates
  <2>26. CASE UNCHANGED vars
    BY <2>26 DEF vars
  <2> QED
    BY <1>2, <2>1, <2>2, <2>3, <2>4, <2>5, <2>6, <2>7, <2>8, <2>9, <2>10, <2>11,
       <2>12, <2>13, <2>14, <2>15, <2>16, <2>17, <2>18, <2>19, <2>20, <2>21, <2>22,
       <2>23, <2>24, <2>25, <2>26
       DEF Next, User, InputThread, Interrupt
<1> QED
  BY <1>1, <1>2, PTL DEF Spec

\* A step that neither posts an event nor is one of a loop
Still ==
  /\ UNCHANGED <<rings, untold, buttons, host_button, ring, event, loop>>
  /\ step = "test" \/ epc' = epc
  /\ ipc' = ipc \/ (ipc \notin {"store", "advance"} /\ ipc' \notin {"store", "advance"})

StepKind ==
  \/ \E r \in Ring : \E e \in Event(r) : PostEvent(r, e)
  \/ Store \/ Advance
  \/ TestRing \/ TestButton \/ ReadEvent \/ TakeEvent \/ Tell
  \/ Still

\* Only these steps concern the rings.
LEMMA StepKinds ==
  ASSUME LoopOK, [Next]_vars
  PROVE  StepKind
<1> USE DEF StepKind
<1>1. StepKind
  <2> USE DEF LoopOK, Still, rings, buttons, mouse, inputThread, emulator, loop
  <2>1. ASSUME NEW r \in Ring, NEW e \in Event(r), PostEvent(r, e)
         PROVE  StepKind
    BY <2>1
  <2>2. ASSUME NEW x \in {-1, 1} \cup Position, PostMove(x)
         PROVE  StepKind
    BY <2>2 DEF PostMove
  <2>3. CASE Ungrab
    BY <2>3 DEF Ungrab
  <2>4. CASE ToggleGrab
    BY <2>4 DEF ToggleGrab, Emulates
  <2>5. CASE Store
    BY <2>5
  <2>6. CASE Advance
    BY <2>6
  <2>7. CASE MoveLock
    BY <2>7 DEF MoveLock
  <2>8. CASE MoveTest
    BY <2>8 DEF MoveTest
  <2>9. CASE MoveStore
    BY <2>9 DEF MoveStore
  <2>10. CASE SetAdbFlag
    BY <2>10 DEF SetAdbFlag
  <2>11. CASE ZeroMouse
    BY <2>11 DEF ZeroMouse
  <2>12. CASE MacRestarts
    BY <2>12 DEF MacRestarts
  <2>13. CASE ADBInterrupt
    BY <2>13 DEF ADBInterrupt, Emulates
  <2>14. CASE LockMouse
    BY <2>14 DEF LockMouse, Emulates
  <2>15. CASE SampleMouse
    BY <2>15 DEF SampleMouse, Emulates
  <2>16. CASE ClearMotion
    BY <2>16 DEF ClearMotion, Emulates
  <2>17. CASE TestMode
    BY <2>17 DEF TestMode, Emulates
  <2>18. CASE TellPosition
    BY <2>18 DEF TellPosition, Emulates
  <2>19. CASE TestRing
    BY <2>19
  <2>20. CASE TestButton
    BY <2>20
  <2>21. CASE ReadEvent
    BY <2>21
  <2>22. CASE TakeEvent
    BY <2>22
  <2>23. CASE Tell
    BY <2>23
  <2>24. CASE ButtonsTold
    BY <2>24 DEF ButtonsTold, Emulates
  <2>25. CASE ADBInterruptReturns
    BY <2>25 DEF ADBInterruptReturns, Emulates
  <2>26. CASE UNCHANGED vars
    BY <2>26 DEF vars
  <2> QED
    BY <2>1, <2>2, <2>3, <2>4, <2>5, <2>6, <2>7, <2>8, <2>9, <2>10, <2>11,
       <2>12, <2>13, <2>14, <2>15, <2>16, <2>17, <2>18, <2>19, <2>20, <2>21, <2>22,
       <2>23, <2>24, <2>25, <2>26
       DEF Next, User, InputThread, Interrupt
<1> QED
  BY <1>1

-----------------------------------------------------------------------------
(* Until a ring is overrun, a step keeps its events, adds the event that   *)
(* has been posted, or takes out the oldest one.                           *)

Kept(r) == Pending(r)' = Pending(r)
Added(r) ==
  /\ ipc = "advance" /\ ring = r /\ Len(Pending(r)) # Size - 1
  /\ Pending(r)' = Append(Pending(r), event)
Taken(r) ==
  /\ LoopRing = r /\ Len(Pending(r)) > 0 /\ got = Pending(r)[1]
  /\ Pending(r)' = Tail(Pending(r))
Overrun(r) ==
  /\ ipc = "advance" /\ ring = r /\ Len(Pending(r)) = Size - 1
  /\ Pending(r)' = <<>> /\ r \in overrun'

\* The slot that is written is outside of both windows.
LEMMA StoreKeeps ==
  ASSUME RingOK, RingOK', Store, NEW r \in Ring
  PROVE  Kept(r)
<1>1. /\ Pending(r) = Window(buffer[r], read_ptr[r], write_ptr[r])
      /\ Pending(r)' = Window(buffer'[r], read_ptr'[r], write_ptr'[r])
  BY PendingIsWindow, PendingIsWindowPrimed
<1>2. CASE r = ring
  <2>1. buffer'[r] = [buffer[r] EXCEPT ![write_ptr[r]] = event]
    BY <1>2 DEF Store, RingOK
  <2>2. /\ buffer[r] \in [Slots -> Entry] /\ event \in Entry
        /\ read_ptr[r] \in Slots /\ write_ptr[r] \in Slots
        /\ read_ptr' = read_ptr /\ write_ptr' = write_ptr
    BY DEF Store, RingOK
  <2> QED
    BY <1>1, <2>1, <2>2, WindowStore DEF Kept
<1>3. CASE r # ring
  <2>1. buffer'[r] = buffer[r] /\ read_ptr' = read_ptr /\ write_ptr' = write_ptr
    BY <1>3 DEF Store, RingOK
  <2> QED
    BY <1>1, <2>1 DEF Kept
<1> QED
  BY <1>2, <1>3

\* write_ptr adds the event to its ring, and to no other one.
LEMMA AdvanceAddsOrOverruns ==
  ASSUME RingOK, RingOK', Advance, NEW r \in Ring
  PROVE  IF r = ring THEN Added(r) \/ Overrun(r) ELSE Kept(r)
<1>1. /\ Pending(r) = Window(buffer[r], read_ptr[r], write_ptr[r])
      /\ Pending(r)' = Window(buffer'[r], read_ptr'[r], write_ptr'[r])
  BY PendingIsWindow, PendingIsWindowPrimed
<1>2. /\ buffer[r] \in [Slots -> Entry] /\ read_ptr[r] \in Slots /\ write_ptr[r] \in Slots
      /\ buffer' = buffer /\ read_ptr' = read_ptr /\ ipc = "advance"
  BY DEF Advance, RingOK
<1>3. Len(Pending(r)) = Count(read_ptr[r], write_ptr[r])
  BY <1>2, LengthOfPending
<1>4. CASE r = ring
  <2>1. write_ptr'[r] = Slot(write_ptr[r] + 1) /\ buffer[r][write_ptr[r]] = event
    BY <1>2, <1>4, SuccIsSlot DEF Advance, RingOK
  <2>2. CASE Len(Pending(r)) = Size - 1
    <3>1. Pending(r)' = <<>>
      BY <1>1, <1>2, <1>3, <2>1, <2>2, WindowOverrun
    <3> QED
      BY <1>2, <1>4, <2>2, <3>1 DEF Overrun, Advance
  <2>3. CASE Len(Pending(r)) # Size - 1
    <3>1. Pending(r)' = Append(Pending(r), event)
      BY <1>1, <1>2, <1>3, <2>1, <2>3, WindowAdvance
    <3> QED
      BY <1>2, <1>4, <2>3, <3>1 DEF Added
  <2> QED
    BY <1>4, <2>2, <2>3
<1>5. CASE r # ring
  <2>1. write_ptr'[r] = write_ptr[r]
    BY <1>5 DEF Advance, RingOK
  <2> QED
    BY <1>1, <1>2, <1>5, <2>1 DEF Kept
<1> QED
  BY <1>4, <1>5

\* While a ring is not overrun, what ADBInterrupt has seen of it stays: the input
\* thread does not write to the slot of the oldest event, nor past it.
ReadInv ==
  LoopRing \notin overrun =>
    /\ step \in {"read", "advance"} => ~Empty(LoopRing)
    /\ step = "advance" => got = Oldest(LoopRing)

\* The slot of the oldest event is not the one that is stored.
LEMMA StoreSparesOldest ==
  ASSUME RingOK, Store, NEW r \in Ring, ~Empty(r)
  PROVE  Oldest(r)' = Oldest(r)
<1>1. /\ buffer \in [Ring -> [Slots -> Entry]] /\ ring \in Ring
      /\ read_ptr[r] \in Slots /\ write_ptr[r] \in Slots /\ read_ptr[r] # write_ptr[r]
  BY DEF RingOK, Empty
<1>2. /\ buffer' = [buffer EXCEPT ![ring] = [buffer[ring] EXCEPT ![write_ptr[ring]] = event]]
      /\ read_ptr' = read_ptr
  BY DEF Store
<1>3. CASE r = ring
  BY <1>1, <1>2, <1>3 DEF Oldest
<1>4. CASE r # ring
  BY <1>1, <1>2, <1>4 DEF Oldest
<1> QED
  BY <1>3, <1>4

\* A ring that is not empty does not become empty without an overrun.
LEMMA AdvanceSparesRing ==
  ASSUME RingOK, Advance, NEW r \in Ring, ~Empty(r), r \notin overrun'
  PROVE  ~Empty(r)' /\ r \notin overrun
<1>1. read_ptr[r] \in Slots /\ write_ptr[r] \in Slots /\ read_ptr[r] # write_ptr[r]
  BY DEF RingOK, Empty
<1>2. read_ptr' = read_ptr /\ write_ptr' = [write_ptr EXCEPT ![ring] = Succ(@)]
  BY DEF Advance
<1>3. overrun' = IF Len(Pending(ring)) = Size - 1 THEN overrun \cup {ring} ELSE overrun
  BY DEF Advance
<1>4. CASE r = ring
  <2>1. Len(Pending(r)) # Size - 1
    BY <1>3, <1>4
  <2>2. Count(read_ptr[r], write_ptr[r]) # Size - 1
    BY <2>1, LengthOfPending
  <2>3. write_ptr'[r] = Slot(write_ptr[r] + 1)
    BY <1>1, <1>2, <1>4, SuccIsSlot DEF RingOK
  <2>4. read_ptr[r] # Slot(write_ptr[r] + 1)
    BY <1>1, <2>2, SizeAssumption DEF Slots, Slot, Count
  <2> QED
    BY <1>2, <1>3, <1>4, <2>3, <2>4 DEF Empty
<1>5. CASE r # ring
  BY <1>1, <1>2, <1>3, <1>5 DEF Empty, RingOK
<1> QED
  BY <1>4, <1>5

\* ADBInterrupt may test, read and take out in three steps.
LEMMA ReadingIsSafe == Spec => []ReadInv
<1>1. ASSUME Init
      PROVE  ReadInv
  BY <1>1 DEF Init, ReadInv
<1>2. ASSUME ReadInv, RingOK, LoopOK, [Next]_vars
      PROVE  ReadInv'
  <2> USE <1>2
  <2>0. LoopRing \in Ring
    BY DEF LoopRing, Ring
  <2>1. ASSUME NEW r \in Ring, NEW e \in Event(r), PostEvent(r, e)
        PROVE  ReadInv'
    BY <2>1 DEF PostEvent, ReadInv, LoopRing, Empty, Oldest, rings, emulator, loop
  <2>2. CASE Store
    <3>1. /\ LoopRing' = LoopRing /\ step' = step /\ got' = got /\ overrun' = overrun
          /\ Empty(LoopRing)' = Empty(LoopRing)
      BY <2>2 DEF Store, LoopRing, Empty, emulator, loop
    <3>2. ~Empty(LoopRing) => Oldest(LoopRing)' = Oldest(LoopRing)
      <4> DEFINE r == LoopRing
      <4>1. r \in Ring
        BY <2>0
      <4>2. r' = r
        BY <3>1
      <4> HIDE DEF r
      <4>3. ~Empty(r) => buffer'[r][read_ptr'[r]] = buffer[r][read_ptr[r]]
        BY <2>2, <4>1, StoreSparesOldest DEF Oldest
      <4> QED
        BY <3>1, <4>2, <4>3 DEF Oldest, r
    <3> QED
      BY <3>1, <3>2 DEF ReadInv
  <2>3. CASE Advance
    <3>1. /\ LoopRing' = LoopRing /\ step' = step /\ got' = got
          /\ Oldest(LoopRing)' = Oldest(LoopRing)
      BY <2>3 DEF Advance, LoopRing, Oldest, emulator, loop
    <3>2. ASSUME LoopRing \notin overrun', ~Empty(LoopRing)
          PROVE  ~Empty(LoopRing)' /\ LoopRing \notin overrun
      <4> DEFINE r == LoopRing
      <4>1. r \in Ring /\ r \notin overrun' /\ ~Empty(r)
        BY <2>0, <3>2
      <4>2. r' = r
        BY <3>1
      <4> HIDE DEF r
      <4>3. read_ptr'[r] # write_ptr'[r] /\ r \notin overrun
        BY <2>3, <4>1, AdvanceSparesRing DEF Empty
      <4> QED
        BY <3>1, <4>2, <4>3 DEF Empty, r
    <3>3. LoopRing \notin overrun' => LoopRing \notin overrun
      BY <2>3 DEF Advance
    <3> QED
      BY <3>1, <3>2, <3>3 DEF ReadInv
  <2>4. CASE TestRing
    BY <2>4 DEF TestRing, Loops, ReadInv, LoopRing, Empty, rings, LoopOK
  <2>5. CASE TestButton
    BY <2>5 DEF TestButton, Loops, ReadInv, LoopRing, Empty, rings, LoopOK
  <2>6. CASE ReadEvent
    BY <2>6 DEF ReadEvent, Loops, ReadInv, LoopRing, Empty, Oldest, rings
  <2>7. CASE TakeEvent
    BY <2>7 DEF TakeEvent, Loops, ReadInv
  <2>8. CASE Tell
    BY <2>8 DEF Tell, Loops, ReadInv
  <2>9. CASE Still
    BY <2>9 DEF Still, ReadInv, LoopRing, Empty, Oldest, rings, loop
  <2> QED
    BY <2>1, <2>2, <2>3, <2>4, <2>5, <2>6, <2>7, <2>8, <2>9, StepKinds DEF StepKind
<1> QED
  BY <1>1, <1>2, RingsAreWellFormed, LoopsAreWellFormed, PTL DEF Spec

\* read_ptr takes out the oldest event, which is the one that has been read.
LEMMA TakeTakes ==
  ASSUME RingOK, RingOK', ReadInv, TakeEvent, NEW r \in Ring
  PROVE  IF r = LoopRing THEN r \in overrun \/ Taken(r) ELSE Kept(r)
<1>1. /\ Pending(r) = Window(buffer[r], read_ptr[r], write_ptr[r])
      /\ Pending(r)' = Window(buffer'[r], read_ptr'[r], write_ptr'[r])
  BY PendingIsWindow, PendingIsWindowPrimed
<1>2. /\ buffer[r] \in [Slots -> Entry] /\ read_ptr[r] \in Slots /\ write_ptr[r] \in Slots
      /\ buffer' = buffer /\ write_ptr' = write_ptr
  BY DEF TakeEvent, RingOK
<1>3. CASE r = LoopRing /\ r \notin overrun
  <2>1. read_ptr'[r] = Slot(read_ptr[r] + 1) /\ read_ptr[r] # write_ptr[r]
    BY <1>2, <1>3, SuccIsSlot DEF TakeEvent, Loops, ReadInv, Empty, RingOK
  <2>2. Pending(r)' = Tail(Pending(r))
    BY <1>1, <1>2, <2>1, WindowTake
  <2>3. Count(read_ptr[r], write_ptr[r]) \in Nat /\ Count(read_ptr[r], write_ptr[r]) > 0
    BY <1>2, <2>1, SizeAssumption DEF Count, Slots
  <2>4. Len(Pending(r)) > 0
    BY <2>3, LengthOfPending
  <2>5. Slot(read_ptr[r] + 1 - 1) = read_ptr[r]
    BY <1>2, SizeAssumption DEF Slot, Slots
  <2>6. Pending(r)[1] = buffer[r][read_ptr[r]]
    BY <1>1, <2>3, <2>5 DEF Window
  <2>7. got = buffer[r][read_ptr[r]]
    BY <1>3 DEF TakeEvent, Loops, ReadInv, Oldest
  <2> QED
    BY <1>3, <2>2, <2>4, <2>6, <2>7 DEF Taken
<1>4. CASE r # LoopRing
  <2>1. read_ptr'[r] = read_ptr[r]
    BY <1>4 DEF TakeEvent, RingOK
  <2> QED
    BY <1>1, <1>2, <1>4, <2>1 DEF Kept
<1> QED
  BY <1>3, <1>4

EventStep(r) == Kept(r) \/ Added(r) \/ Taken(r) \/ r \in overrun'

\* The names of the rings
LEMMA ButtonIsRing == "button" \in Ring /\ "key" \in Ring
BY DEF Ring

\* A step that leaves the pointers and the slots alone keeps the events.
LEMMA SameRings ==
  ASSUME UNCHANGED <<buffer, read_ptr, write_ptr>>, NEW r \in Ring
  PROVE  Kept(r)
BY DEF Kept, Pending

\* Every step of the two threads does one of these things to each ring.
LEMMA EveryStep ==
  ASSUME RingOK, RingOK', LoopOK, ReadInv, [Next]_vars, NEW r \in Ring
  PROVE  EventStep(r)
<1> USE DEF EventStep, rings
<1>1. ASSUME NEW s \in Ring, NEW e \in Event(s), PostEvent(s, e)
      PROVE  EventStep(r)
  BY <1>1, SameRings DEF PostEvent
<1>2. CASE Store
  BY <1>2, StoreKeeps
<1>3. CASE Advance
  BY <1>3, AdvanceAddsOrOverruns DEF Overrun
<1>4. CASE TestRing
  BY <1>4, SameRings DEF TestRing
<1>5. CASE TestButton
  BY <1>5, SameRings DEF TestButton
<1>6. CASE ReadEvent
  BY <1>6, SameRings DEF ReadEvent
<1>7. CASE TakeEvent
  BY <1>7, TakeTakes DEF TakeEvent
<1>8. CASE Tell
  BY <1>8, SameRings DEF Tell
<1>9. CASE Still
  BY <1>9, SameRings DEF Still
<1> QED
  BY <1>1, <1>2, <1>3, <1>4, <1>5, <1>6, <1>7, <1>8, <1>9, StepKinds DEF StepKind

\* Without a lock on the rings, an event enters at the end of its ring, is read
\* at the front and leaves there, until the ring is overrun.
THEOREM EventsAreKept == Spec => EventsKept
<1>1. ASSUME RingOK, RingOK', LoopOK, ReadInv, [Next]_vars
      PROVE  [\A r \in Ring \ overrun' :
                \/ Pending(r)' = Pending(r)
                \/ ring = r /\ Pending(r)' = Append(Pending(r), event)
                \/ /\ Len(Pending(r)) > 0 /\ Pending(r)' = Tail(Pending(r))
                   /\ got = Head(Pending(r))]_vars
  BY <1>1, EveryStep DEF EventStep, Kept, Added, Taken
<1> QED
  BY <1>1, RingsAreWellFormed, LoopsAreWellFormed, ReadingIsSafe, PTL DEF Spec, EventsKept

-----------------------------------------------------------------------------
(* What wakes ADBInterrupt *)

\* An interrupt will come, or one has been ignored
Coming == intflag \/ ignored \/ ipc = "flag"

\* Input that the Mac has not been told waits for an interrupt or is being told.
WakeInv ==
  /\ ~Empty("key") =>
       \/ Coming
       \/ epc \in {"lock", "sample", "clear", "mode", "rel", "abs", "buttons", "keys"}
  /\ ~Empty("button") =>
       \/ Coming
       \/ epc \in {"lock", "sample", "clear", "mode", "rel", "abs", "buttons"}
  /\ "switch" \notin inputs /\ relative_mouse /\ mouse_x # 0 =>
       Coming \/ epc \in {"lock", "sample", "clear"}
  /\ "switch" \notin inputs /\ ~relative_mouse /\ mouse_x # old_mouse_x =>
       Coming \/ epc \in {"lock", "sample", "clear", "mode", "abs"}
  /\ "switch" \notin inputs /\ ~relative_mouse /\ epc \in {"clear", "mode", "abs"} =>
       Coming \/ mx = mouse_x

\* Whatever is in the rings or in mouse_x has an interrupt ahead of it that
\* will look at it.
LEMMA InputWakes == Spec => []WakeInv
<1>1. ASSUME Init
      PROVE  WakeInv
  BY <1>1, ButtonIsRing DEF Init, WakeInv, Coming, Empty
<1>2. ASSUME WakeInv, MouseInv, RingOK, [Next]_vars
      PROVE  WakeInv'
  <2> USE <1>2, ButtonIsRing DEF rings, buttons, mouse, inputThread, emulator, loop,
          MouseInv, MouseOK, LockInv, SwitchInv, WakeInv, Coming, Empty
  <2>1. ASSUME NEW r \in Ring, NEW e \in Event(r), PostEvent(r, e)
         PROVE  WakeInv'
    BY <2>1 DEF PostEvent
  <2>2. ASSUME NEW x \in {-1, 1} \cup Position, PostMove(x)
         PROVE  WakeInv'
    BY <2>2 DEF PostMove
  <2>3. CASE Ungrab
    BY <2>3 DEF Ungrab
  <2>4. CASE ToggleGrab
    BY <2>4 DEF ToggleGrab, Emulates
  <2>5. CASE Store
    BY <2>5 DEF Store
  <2>6. CASE Advance
    BY <2>6 DEF Advance
  <2>7. CASE MoveLock
    BY <2>7 DEF MoveLock
  <2>8. CASE MoveTest
    BY <2>8 DEF MoveTest
  <2>9. CASE MoveStore
    BY <2>9 DEF MoveStore
  <2>10. CASE SetAdbFlag
    BY <2>10 DEF SetAdbFlag
  <2>11. CASE ZeroMouse
    BY <2>11 DEF ZeroMouse
  <2>12. CASE MacRestarts
    BY <2>12 DEF MacRestarts
  <2>13. CASE ADBInterrupt
    BY <2>13 DEF ADBInterrupt, Emulates
  <2>14. CASE LockMouse
    BY <2>14 DEF LockMouse, Emulates
  <2>15. CASE SampleMouse
    BY <2>15 DEF SampleMouse, Emulates
  <2>16. CASE ClearMotion
    BY <2>16 DEF ClearMotion, Emulates
  <2>17. CASE TestMode
    BY <2>17 DEF TestMode, Emulates
  <2>18. CASE TellPosition
    BY <2>18 DEF TellPosition, Emulates
  <2>19. CASE TestRing
    BY <2>19 DEF TestRing, Loops, LoopRing
  <2>20. CASE TestButton
    BY <2>20 DEF TestButton, Loops
  <2>21. CASE ReadEvent
    BY <2>21 DEF ReadEvent, Loops
  <2>22. CASE TakeEvent
    BY <2>22 DEF TakeEvent, Loops, LoopRing
  <2>23. CASE Tell
    BY <2>23 DEF Tell, Loops
  <2>24. CASE ButtonsTold
    BY <2>24 DEF ButtonsTold, Emulates
  <2>25. CASE ADBInterruptReturns
    BY <2>25 DEF ADBInterruptReturns, Emulates
  <2>26. CASE UNCHANGED vars
    BY <2>26 DEF vars
  <2> QED
    BY <1>2, <2>1, <2>2, <2>3, <2>4, <2>5, <2>6, <2>7, <2>8, <2>9, <2>10, <2>11,
       <2>12, <2>13, <2>14, <2>15, <2>16, <2>17, <2>18, <2>19, <2>20, <2>21, <2>22,
       <2>23, <2>24, <2>25, <2>26
       DEF Next, User, InputThread, Interrupt
<1> QED
  BY <1>1, <1>2, MouseInvariant, RingsAreWellFormed, PTL DEF Spec

-----------------------------------------------------------------------------
(* The buttons *)

\* v is the state of button b after the events in s, when it was down[b] before
Ends(s, down, b, v) ==
  \/ \E i \in 1..Len(s) :
       s[i][1] = b /\ s[i][2] = v /\ \A j \in (i + 1)..Len(s) : s[j][1] # b
  \/ (\A i \in 1..Len(s) : s[i][1] # b) /\ down[b] = v

ButtonEvent == Button \X BOOLEAN

\* A new event decides on the state of its button and on no other one.
LEMMA EndsAppend ==
  ASSUME NEW s \in Seq(ButtonEvent), NEW e \in ButtonEvent, NEW down, NEW b, NEW v,
         Ends(s, down, b, v)
  PROVE  Ends(Append(s, e), down, b, IF e[1] = b THEN e[2] ELSE v)
<1> DEFINE t == Append(s, e)
<1>1. /\ Len(s) \in Nat /\ Len(t) = Len(s) + 1 /\ t[Len(s) + 1] = e
      /\ \A i \in 1..Len(s) : t[i] = s[i]
  OBVIOUS
<1> HIDE DEF t
<1>2. CASE e[1] = b
  BY <1>1, <1>2 DEF Ends
<1>3. CASE e[1] # b
  BY <1>1, <1>3 DEF Ends
<1> QED
  BY <1>2, <1>3 DEF t

\* The oldest event may be handled before the others.
LEMMA EndsTail ==
  ASSUME NEW s \in Seq(ButtonEvent), Len(s) > 0, NEW down \in [Button -> BOOLEAN],
         NEW b \in Button, NEW v, Ends(s, down, b, v)
  PROVE  Ends(Tail(s), Press(down, s[1]), b, v)
<1> DEFINE t == Tail(s)
<1>1. /\ Len(s) \in Nat /\ Len(t) = Len(s) - 1
      /\ \A i \in 1..Len(t) : t[i] = s[i + 1]
      /\ s[1] \in ButtonEvent
  OBVIOUS
<1> HIDE DEF t
<1>2. ASSUME NEW i \in 1..Len(s), s[i][1] = b, s[i][2] = v,
             \A j \in (i + 1)..Len(s) : s[j][1] # b
      PROVE  Ends(t, Press(down, s[1]), b, v)
  <2>1. CASE i = 1
    <3>1. \A j \in 1..Len(t) : t[j][1] # b
      <4>1. \A j \in 1..Len(t) : j + 1 \in 2..Len(s)
        BY <1>1
      <4> QED
        BY <1>1, <1>2, <2>1, <4>1
    <3>2. Press(down, s[1])[b] = v
      BY <1>1, <1>2, <2>1 DEF Press, ButtonEvent
    <3> QED
      BY <3>1, <3>2 DEF Ends
  <2>2. CASE i > 1
    <3>1. i - 1 \in 1..Len(t) /\ t[i - 1] = s[i]
      BY <1>1, <2>2
    <3>2. \A j \in i..Len(t) : t[j][1] # b
      <4>1. \A j \in i..Len(t) : j \in 1..Len(t) /\ j + 1 \in (i + 1)..Len(s)
        BY <1>1, <2>2
      <4> QED
        BY <1>1, <1>2, <4>1
    <3>3. \A j \in ((i - 1) + 1)..Len(t) : t[j][1] # b
      BY <3>2
    <3> QED
      BY <1>2, <3>1, <3>3 DEF Ends
  <2> QED
    BY <2>1, <2>2
<1>3. ASSUME \A i \in 1..Len(s) : s[i][1] # b, down[b] = v
      PROVE  Ends(t, Press(down, s[1]), b, v)
  <2>1. s[1][1] # b
    BY <1>1, <1>3
  <2>2. Press(down, s[1])[b] = v
    BY <1>1, <1>3, <2>1 DEF Press, ButtonEvent
  <2>3. \A i \in 1..Len(t) : t[i][1] # b
    <3>1. \A i \in 1..Len(t) : i + 1 \in 1..Len(s)
      BY <1>1
    <3> QED
      BY <1>1, <1>3, <3>1
  <2> QED
    BY <2>2, <2>3 DEF Ends
<1> QED
  BY <1>2, <1>3 DEF Ends, t

-----------------------------------------------------------------------------
(* What the rings hold *)

\* The events of a ring are of its own kind, and once it is overrun every slot
\* holds one.
EventsOK ==
  /\ \A r \in Ring : Pending(r) \in Seq(Event(r))
  /\ \A r \in Ring \cap overrun : buffer[r] \in [Slots -> Event(r)]

\* An overrun ring has had an event written to each slot.
LEMMA OverrunRingIsFull ==
  ASSUME RingOK, Advance, NEW r \in Ring, Pending(r) \in Seq(Event(r)),
         r \in overrun', r \notin overrun
  PROVE  buffer[r] \in [Slots -> Event(r)]
<1> DEFINE S == Event(r)
           b == buffer[r]
           p == read_ptr[r]
           q == write_ptr[r]
<1>1. r = ring /\ Len(Pending(r)) = Size - 1
  BY DEF Advance
<1>2. b \in [Slots -> Entry] /\ p \in Slots /\ q \in Slots /\ b[q] \in S
  BY <1>1 DEF RingOK, Advance
<1>3. Pending(r) = Window(b, p, q) /\ Len(Pending(r)) = Count(p, q) /\ Pending(r) \in Seq(S)
  BY PendingIsWindow, LengthOfPending
<1> HIDE DEF S, b, p, q
<1>4. \A k \in 1..Count(p, q) : Window(b, p, q)[k] \in S
  BY <1>3
<1>5. Count(p, q) = Size - 1
  BY <1>1, <1>3
<1>6. b \in [Slots -> S]
  BY <1>2, <1>4, <1>5, WindowFull
<1> QED
  BY <1>6 DEF S, b

\* A slot is what it was, or holds the event that is being posted.
LEMMA StoreChangesASlot ==
  ASSUME RingOK, Store, NEW r \in Ring
  PROVE  buffer'[r] = IF r = ring THEN [buffer[r] EXCEPT ![write_ptr[r]] = event] ELSE buffer[r]
<1>1. buffer \in [Ring -> [Slots -> Entry]] /\ ring \in Ring
  BY DEF RingOK
<1>2. buffer' = [buffer EXCEPT ![ring] = [buffer[ring] EXCEPT ![write_ptr[ring]] = event]]
  BY DEF Store
<1> QED
  BY <1>1, <1>2

\* What is in a ring is what was put into this ring.
LEMMA RingsHoldEvents == Spec => []EventsOK
<1>1. ASSUME Init, RingOK
      PROVE  EventsOK
  <2>1. ASSUME NEW r \in Ring
        PROVE  Pending(r) \in Seq(Event(r))
    <3>1. read_ptr[r] = write_ptr[r] /\ read_ptr[r] \in Slots
      BY <1>1, <2>1 DEF Init, RingOK
    <3>2. Len(Pending(r)) = 0 /\ Pending(r) \in Seq(Entry)
      BY <1>1, <3>1, LengthOfPending, SizeAssumption DEF Count, Slots
    <3> QED
      BY <3>2
  <2> QED
    BY <1>1, <2>1 DEF Init, EventsOK
<1>2. ASSUME EventsOK, RingOK, RingOK', LoopOK, ReadInv, [Next]_vars
      PROVE  EventsOK'
  <2> USE <1>2
  <2>1. ASSUME NEW r \in Ring, r \in overrun'
        PROVE  buffer'[r] \in [Slots -> Event(r)]
    <3>1. CASE Store
      <4>1. r \in overrun /\ buffer[r] \in [Slots -> Event(r)]
        BY <2>1, <3>1 DEF Store, EventsOK
      <4>2. write_ptr[r] \in Slots /\ (r = ring => event \in Event(r))
        BY <3>1 DEF Store, RingOK
      <4> DEFINE S == Event(r)
      <4> HIDE DEF S
      <4>3. buffer[r] \in [Slots -> S] /\ (r = ring => event \in S)
        BY <4>1, <4>2 DEF S
      <4>4. buffer'[r] \in [Slots -> S]
        BY <3>1, <4>2, <4>3, StoreChangesASlot
      <4> QED
        BY <4>4 DEF S
    <3>2. CASE Advance
      <4>1. buffer' = buffer
        BY <3>2 DEF Advance
      <4>2. CASE r \in overrun
        BY <2>1, <4>1, <4>2 DEF EventsOK
      <4>3. CASE r \notin overrun
        BY <2>1, <3>2, <4>1, <4>3, OverrunRingIsFull DEF EventsOK
      <4> QED
        BY <4>2, <4>3
    <3>3. CASE UNCHANGED <<buffer, overrun>>
      BY <2>1, <3>3 DEF EventsOK
    <3> QED
      <4>1. StepKind
        BY StepKinds
      <4>2. Store \/ Advance \/ UNCHANGED <<buffer, overrun>>
        BY <4>1 DEF StepKind, PostEvent, TestRing, TestButton, ReadEvent, TakeEvent, Tell, Still,
           rings
      <4> QED
        BY <3>1, <3>2, <3>3, <4>2
  <2>2. ASSUME NEW r \in Ring
        PROVE  Pending(r)' \in Seq(Event(r))
    <3>1. Pending(r) \in Seq(Event(r))
      BY <2>2 DEF EventsOK
    <3>2. EventStep(r)
      BY <2>2, EveryStep
    <3>3. ipc = "advance" /\ ring = r => event \in Event(r)
      BY DEF RingOK
    <3>4. CASE Kept(r)
      BY <3>1, <3>4 DEF Kept
    <3>5. CASE Added(r)
      BY <3>1, <3>3, <3>5 DEF Added
    <3>6. CASE Taken(r)
      BY <3>1, <3>6 DEF Taken
    <3>7. CASE r \in overrun'
      <4> DEFINE S == Event(r)
                 b == buffer'[r]
                 p == read_ptr'[r]
                 q == write_ptr'[r]
      <4>1. b \in [Slots -> S] /\ p \in Slots /\ q \in Slots
        BY <2>1, <2>2, <3>7 DEF RingOK
      <4>2. Pending(r)' = Window(b, p, q)
        BY <2>2, PendingIsWindowPrimed
      <4> HIDE DEF S, b, p, q
      <4>3. Window(b, p, q) \in Seq(S)
        BY <4>1, WindowIsSeq
      <4> QED
        BY <4>2, <4>3 DEF S
    <3> QED
      BY <3>2, <3>4, <3>5, <3>6, <3>7 DEF EventStep
  <2> QED
    BY <2>1, <2>2 DEF EventsOK
<1> QED
  BY <1>1, <1>2, RingsAreWellFormed, LoopsAreWellFormed, ReadingIsSafe, PTL DEF Spec

\* What ADBInterrupt has read is an event of the ring that it reads.
GotOK == step \in {"advance", "tell"} => got \in Event(LoopRing)

\* The slot that is read was written to, be the ring overrun or not.
LEMMA ReadIsEvent ==
  ASSUME RingOK, EventsOK, ReadInv, ReadEvent
  PROVE  Oldest(LoopRing) \in Event(LoopRing)
<1> DEFINE r == LoopRing
<1>1. r \in Ring
  BY DEF LoopRing, Ring
<1>2. buffer[r] \in [Slots -> Entry] /\ read_ptr[r] \in Slots /\ write_ptr[r] \in Slots
  BY <1>1 DEF RingOK
<1>3. Pending(r) \in Seq(Event(r)) /\ (r \in overrun => buffer[r] \in [Slots -> Event(r)])
  BY <1>1 DEF EventsOK
<1>4. r \notin overrun => read_ptr[r] # write_ptr[r]
  BY DEF ReadInv, ReadEvent, Loops, Empty
<1> HIDE DEF r
<1>5. CASE r \in overrun
  BY <1>2, <1>3, <1>5 DEF Oldest, r
<1>6. CASE r \notin overrun
  <2>1. Count(read_ptr[r], write_ptr[r]) \in Nat /\ Count(read_ptr[r], write_ptr[r]) > 0
    BY <1>2, <1>4, <1>6, SizeAssumption DEF Count, Slots
  <2>2. Slot(read_ptr[r] + 1 - 1) = read_ptr[r]
    BY <1>2, SizeAssumption DEF Slot, Slots
  <2>3. Pending(r)[1] = buffer[r][read_ptr[r]]
    BY <1>1, <2>1, <2>2, PendingIsWindow DEF Window
  <2>4. Len(Pending(r)) > 0
    BY <1>1, <2>1, LengthOfPending
  <2> DEFINE w == Pending(r)
             S == Event(r)
  <2>5. w \in Seq(S) /\ Len(w) > 0
    BY <1>3, <2>4
  <2> HIDE DEF w, S
  <2>6. w[1] \in S
    BY <2>5
  <2> QED
    BY <2>3, <2>6 DEF w, S, Oldest, r
<1> QED
  BY <1>5, <1>6

\* No step of ADBInterrupt works on a slot that nothing was written to.
LEMMA EventsAreRead == Spec => []GotOK
<1>1. ASSUME Init
      PROVE  GotOK
  BY <1>1 DEF Init, GotOK
<1>2. ASSUME GotOK, RingOK, LoopOK, ReadInv, EventsOK, [Next]_vars
      PROVE  GotOK'
  <2> USE <1>2 DEF GotOK, LoopRing
  <2>1. ASSUME NEW r \in Ring, NEW e \in Event(r), PostEvent(r, e)
        PROVE  GotOK'
    BY <2>1 DEF PostEvent, emulator, loop, Event
  <2>2. CASE Store
    BY <2>2 DEF Store, emulator, loop, Event
  <2>3. CASE Advance
    BY <2>3 DEF Advance, emulator, loop, Event
  <2>4. CASE TestRing
    BY <2>4 DEF TestRing, Loops
  <2>5. CASE TestButton
    BY <2>5 DEF TestButton, Loops
  <2>6. CASE ReadEvent
    BY <2>6, ReadIsEvent DEF ReadEvent, Loops, Event
  <2>7. CASE TakeEvent
    BY <2>7 DEF TakeEvent, Loops, Event
  <2>8. CASE Tell
    BY <2>8 DEF Tell, Loops
  <2>9. CASE Still
    BY <2>9 DEF Still, loop, Event
  <2> QED
    BY <2>1, <2>2, <2>3, <2>4, <2>5, <2>6, <2>7, <2>8, <2>9, StepKinds DEF StepKind
<1> QED
  BY <1>1, <1>2, RingsAreWellFormed, LoopsAreWellFormed, ReadingIsSafe, RingsHoldEvents,
     PTL DEF Spec

\* A button event that is on its way into its ring
InFlight == ipc \in {"store", "advance"} /\ ring = "button"

\* The events that ADBInterrupt has not handled, oldest first
Posted == IF InFlight THEN Append(Pending("button"), event) ELSE Pending("button")

\* The buttons are those that ADBInterrupt has handled, after the events it has
\* not, and the Mac is told before the next event.
ButtonInv ==
  /\ mouse_button \in [Button -> BOOLEAN]
  /\ host_button \in [Button -> BOOLEAN]
  /\ old_mouse_button \in [Button -> BOOLEAN]
  /\ old_mouse_button = mouse_button \/ (step = "tell" /\ LoopRing = "button")
  /\ "button" \notin overrun =>
       \A b \in Button : Ends(Posted, mouse_button, b, host_button[b])

\* Posted holds events of buttons.
LEMMA PostedEvents ==
  ASSUME RingOK, EventsOK
  PROVE  Posted \in Seq(ButtonEvent) /\ Pending("button") \in Seq(ButtonEvent)
<1>1. Pending("button") \in Seq(ButtonEvent)
  BY ButtonIsRing DEF EventsOK, Event, ButtonEvent
<1>2. InFlight => event \in ButtonEvent
  BY DEF InFlight, RingOK, Event, ButtonEvent
<1> QED
  BY <1>1, <1>2 DEF Posted

\* Steps that concern no button keep ButtonInv,
LEMMA SamePosted ==
  ASSUME ButtonInv, Posted' = Posted, UNCHANGED <<buttons, host_button>>,
         step = "tell" => step' = "tell" /\ LoopRing' = LoopRing,
         "button" \notin overrun' => "button" \notin overrun
  PROVE  ButtonInv'
BY DEF ButtonInv, buttons

\* and so does a new event of a button,
LEMMA ButtonPosted ==
  ASSUME ButtonInv, RingOK, EventsOK, NEW e \in ButtonEvent, Posted' = Append(Posted, e),
         UNCHANGED <<buttons, overrun, step, epc>>, host_button' = Press(host_button, e)
  PROVE  ButtonInv'
<1>1. host_button' \in [Button -> BOOLEAN]
  BY DEF ButtonInv, Press, ButtonEvent
<1>2. ASSUME "button" \notin overrun', NEW b \in Button
      PROVE  Ends(Posted', mouse_button', b, host_button'[b])
  <2>1. Ends(Posted, mouse_button, b, host_button[b])
    BY <1>2 DEF ButtonInv
  <2>2. host_button'[b] = IF e[1] = b THEN e[2] ELSE host_button[b]
    BY DEF ButtonInv, Press, ButtonEvent
  <2>3. Posted \in Seq(ButtonEvent)
    BY PostedEvents
  <2>4. Ends(Append(Posted, e), mouse_button, b, IF e[1] = b THEN e[2] ELSE host_button[b])
    BY <2>1, <2>3, EndsAppend
  <2> QED
    BY <2>2, <2>4 DEF buttons
<1> QED
  BY <1>1, <1>2 DEF ButtonInv, buttons, LoopRing

\* and ADBInterrupt when it handles the oldest one.
LEMMA ButtonTaken ==
  ASSUME ButtonInv, RingOK, RingOK', LoopOK, EventsOK, ReadInv, GotOK, TakeEvent,
         LoopRing = "button"
  PROVE  ButtonInv'
<1> DEFINE s == Pending("button")
<1>0. /\ overrun' = overrun /\ host_button' = host_button /\ event' = event
      /\ (InFlight' <=> InFlight) /\ mouse_button' = Press(mouse_button, got)
      /\ old_mouse_button' = old_mouse_button /\ step' = "tell" /\ LoopRing' = "button"
  BY DEF TakeEvent, Loops, inputThread, InFlight, LoopRing
<1>1. mouse_button' \in [Button -> BOOLEAN]
  <2>1. got \in ButtonEvent
    BY DEF GotOK, TakeEvent, Loops, Event, ButtonEvent
  <2> QED
    BY <1>0, <2>1 DEF ButtonInv, Press, ButtonEvent
<1>2. ASSUME "button" \notin overrun
      PROVE  \A b \in Button : Ends(Posted', mouse_button', b, host_button'[b])
  <2>1. Pending("button")' = Tail(s) /\ Len(s) > 0 /\ got = s[1]
    BY <1>2, TakeTakes, ButtonIsRing DEF Taken
  <2>2. s \in Seq(ButtonEvent) /\ Posted \in Seq(ButtonEvent)
    BY PostedEvents
  <2>3. InFlight => event \in ButtonEvent
    BY DEF InFlight, RingOK, Event, ButtonEvent
  <2>4. Posted' = Tail(Posted) /\ Len(Posted) > 0 /\ Posted[1] = s[1]
    <3>1. CASE InFlight
      <4>1. Posted = Append(s, event) /\ Posted' = Append(Tail(s), event)
        BY <1>0, <2>1, <3>1 DEF Posted
      <4> HIDE DEF s
      <4>2. Tail(Append(s, event)) = Append(Tail(s), event)
        BY <2>1, <2>2, <2>3, <3>1
      <4> QED
        BY <2>1, <2>2, <2>3, <3>1, <4>1, <4>2
    <3>2. CASE ~InFlight
      BY <1>0, <2>1, <3>2 DEF Posted
    <3> QED
      BY <3>1, <3>2
  <2>5. mouse_button' = Press(mouse_button, Posted[1])
    BY <1>0, <2>1, <2>4
  <2>6. ASSUME NEW b \in Button
        PROVE  Ends(Posted', mouse_button', b, host_button'[b])
    <3>1. Ends(Posted, mouse_button, b, host_button[b])
      BY <1>2, <2>6 DEF ButtonInv
    <3>2. Ends(Tail(Posted), Press(mouse_button, Posted[1]), b, host_button[b])
      BY <2>2, <2>4, <3>1, EndsTail DEF ButtonInv
    <3> QED
      BY <1>0, <2>4, <2>5, <3>2
  <2> QED
    BY <2>6
<1> QED
  BY <1>0, <1>1, <1>2 DEF ButtonInv

\* At every moment the buttons that ADBInterrupt has handled, and the events on
\* their way, add up to the buttons that are down.
LEMMA ButtonsFollowEvents == Spec => []ButtonInv
<1>1. ASSUME Init, RingOK, EventsOK
      PROVE  ButtonInv
  <2>1. Posted \in Seq(ButtonEvent) /\ Len(Posted) = 0
    <3>1. read_ptr["button"] = write_ptr["button"] /\ read_ptr["button"] \in Slots
      BY <1>1, ButtonIsRing DEF Init, RingOK
    <3>2. Len(Pending("button")) = 0
      BY <1>1, <3>1, ButtonIsRing, LengthOfPending, SizeAssumption DEF Count, Slots
    <3>3. Posted = Pending("button")
      BY <1>1 DEF Init, Posted, InFlight
    <3> QED
      BY <1>1, <3>2, <3>3, PostedEvents
  <2>2. ASSUME NEW b \in Button
        PROVE  Ends(Posted, mouse_button, b, host_button[b])
    BY <1>1, <2>1 DEF Init, Ends
  <2> QED
    BY <1>1, <2>2 DEF Init, ButtonInv
<1>2. ASSUME ButtonInv, EventsOK, RingOK, RingOK', LoopOK, ReadInv, GotOK, [Next]_vars
      PROVE  ButtonInv'
  <2> USE <1>2
  <2>1. ASSUME NEW r \in Ring, NEW e \in Event(r), PostEvent(r, e)
         PROVE  ButtonInv'
    <3>1. Pending("button")' = Pending("button") /\ ~InFlight /\ mouse_button' = mouse_button
      BY <2>1 DEF PostEvent, rings, buttons, Pending, InFlight
    <3>2. CASE r = "button"
      <4>1. InFlight' /\ event' = e /\ overrun' = overrun
        BY <2>1, <3>2 DEF PostEvent, InFlight, rings
      <4>2. Posted' = Append(Posted, e)
        BY <3>1, <4>1 DEF Posted
      <4>3. e \in Button \X BOOLEAN /\ host_button' = Press(host_button, e)
        BY <2>1, <3>2 DEF PostEvent, Event
      <4>4. e \in ButtonEvent /\ UNCHANGED <<buttons, overrun, step, epc>>
        BY <2>1, <4>1, <4>3 DEF PostEvent, ButtonEvent, emulator, loop
      <4> QED
        BY <4>2, <4>3, <4>4, ButtonPosted
    <3>3. CASE r # "button"
      <4>1. ~InFlight' /\ overrun' = overrun /\ host_button' = host_button
        BY <2>1, <3>3 DEF PostEvent, InFlight, rings
      <4>2. Posted' = Posted
        BY <3>1, <4>1 DEF Posted
      <4>3. UNCHANGED <<buttons, host_button, step, epc>>
        BY <2>1, <4>1 DEF PostEvent, emulator, loop
      <4> QED
        BY <4>1, <4>2, <4>3, SamePosted DEF LoopRing
    <3> QED
      BY <3>2, <3>3
  <2>2. CASE Store
    <3>1. Pending("button")' = Pending("button")
      BY <2>2, StoreKeeps, ButtonIsRing DEF Kept
    <3>2. Posted' = Posted
      BY <2>2, <3>1 DEF Store, Posted, InFlight
    <3> QED
      BY <2>2, <3>2, SamePosted DEF Store, buttons, emulator, loop, LoopRing
  <2>3. CASE Advance
    <3>0. ipc = "advance" /\ ~InFlight' /\ ring \in Ring
      BY <2>3 DEF Advance, InFlight, RingOK
    <3>1. CASE ring = "button" /\ Len(Pending("button")) # Size - 1
      <4>1. Pending("button")' = Append(Pending("button"), event)
        BY <2>3, <3>1, AdvanceAddsOrOverruns, ButtonIsRing DEF Added, Overrun
      <4>2. Posted' = Posted
        BY <3>0, <3>1, <4>1 DEF Posted, InFlight
      <4> QED
        BY <2>3, <3>1, <4>2, SamePosted DEF Advance, buttons, emulator, loop, LoopRing
    <3>2. CASE ring = "button" /\ Len(Pending("button")) = Size - 1
      BY <2>3, <3>2 DEF Advance, buttons, ButtonInv, emulator, loop, LoopRing
    <3>3. CASE ring # "button"
      <4>1. Pending("button")' = Pending("button")
        BY <2>3, <3>3, AdvanceAddsOrOverruns, ButtonIsRing DEF Kept
      <4>2. Posted' = Posted
        BY <3>0, <3>3, <4>1 DEF Posted, InFlight
      <4>3. overrun' = overrun \/ overrun' = overrun \cup {ring}
        BY <2>3 DEF Advance
      <4>4. "button" \notin overrun' => "button" \notin overrun
        BY <4>3
      <4> QED
        BY <2>3, <4>2, <4>4, SamePosted DEF Advance, buttons, emulator, loop, LoopRing
    <3> QED
      BY <3>1, <3>2, <3>3
  <2>4. CASE TestRing
    <3>1. Posted' = Posted
      BY <2>4 DEF TestRing, Loops, rings, inputThread, Posted, InFlight, Pending
    <3> QED
      BY <2>4, <3>1, SamePosted
         DEF TestRing, Loops, rings, buttons, inputThread, loop, LoopRing
  <2>5. CASE TestButton
    <3>1. Posted' = Posted
      BY <2>5 DEF TestButton, Loops, rings, inputThread, Posted, InFlight, Pending
    <3> QED
      BY <2>5, <3>1, SamePosted
         DEF TestButton, Loops, rings, buttons, inputThread, loop, LoopRing
  <2>6. CASE ReadEvent
    <3>1. Posted' = Posted
      BY <2>6 DEF ReadEvent, Loops, rings, inputThread, Posted, InFlight, Pending
    <3> QED
      BY <2>6, <3>1, SamePosted
         DEF ReadEvent, Loops, rings, buttons, inputThread, loop, LoopRing
  <2>7. CASE TakeEvent
    <3>1. CASE LoopRing = "button"
      BY <2>7, <3>1, ButtonTaken
    <3>2. CASE LoopRing # "button"
      <4>1. Pending("button")' = Pending("button")
        BY <2>7, <3>2, TakeTakes, ButtonIsRing DEF Kept
      <4>2. Posted' = Posted
        BY <2>7, <4>1 DEF TakeEvent, Loops, inputThread, Posted, InFlight
      <4>3. UNCHANGED <<buttons, overrun, host_button>> /\ step # "tell"
        BY <2>7, <3>2 DEF TakeEvent, Loops, inputThread, buttons
      <4> QED
        BY <4>2, <4>3, SamePosted
    <3> QED
      BY <3>1, <3>2
  <2>8. CASE Tell
    <3>1. Posted' = Posted
      BY <2>8 DEF Tell, Loops, rings, inputThread, Posted, InFlight, Pending
    <3>2. mouse_button' = mouse_button /\ host_button' = host_button /\ overrun' = overrun
      BY <2>8 DEF Tell, Loops, rings, inputThread
    <3>3. old_mouse_button' = mouse_button
      BY <2>8 DEF Tell, ButtonInv
    <3> QED
      BY <3>1, <3>2, <3>3 DEF ButtonInv
  <2>9. CASE Still
    <3>1. Posted' = Posted
      BY <2>9 DEF Still, rings, Posted, InFlight, Pending
    <3> QED
      BY <2>9, <3>1, SamePosted DEF Still, rings, loop, LoopRing
  <2> QED
    BY <2>1, <2>2, <2>3, <2>4, <2>5, <2>6, <2>7, <2>8, <2>9, StepKinds DEF StepKind
<1> QED
  BY <1>1, <1>2, RingsHoldEvents, RingsAreWellFormed, LoopsAreWellFormed, ReadingIsSafe,
     EventsAreRead, PTL DEF Spec

-----------------------------------------------------------------------------
(* The number of events that the Mac has not been told *)

\* A posted event is on its way into its ring, in it, or being told.
OnItsWay(r) == IF ipc \in {"store", "advance"} /\ ring = r THEN 1 ELSE 0
BeingTold(r) == IF step = "tell" /\ LoopRing = r THEN 1 ELSE 0

UntoldInv ==
  /\ untold \in [Ring -> Nat]
  /\ \A r \in Ring \ overrun : untold[r] = Len(Pending(r)) + OnItsWay(r) + BeingTold(r)

\* A pending event more or less
LEMMA PendingLengths ==
  ASSUME RingOK, NEW r \in Ring
  PROVE  /\ Len(Pending(r)) \in Nat
         /\ Added(r) => Len(Pending(r)') = Len(Pending(r)) + 1
         /\ Taken(r) => Len(Pending(r)') = Len(Pending(r)) - 1
<1> DEFINE s == Pending(r)
<1>1. s \in Seq(Entry) /\ event \in Entry
  BY LengthOfPending DEF RingOK
<1> HIDE DEF s
<1>2. /\ Len(s) \in Nat /\ Len(Append(s, event)) = Len(s) + 1
      /\ Len(s) > 0 => Len(Tail(s)) = Len(s) - 1
  BY <1>1
<1> QED
  BY <1>2 DEF s, Added, Taken

\* No event gets lost, or is told twice, before an overrun.
LEMMA EventsAreCounted == Spec => []UntoldInv
<1>1. ASSUME Init, RingOK
      PROVE  UntoldInv
  <2>1. ASSUME NEW r \in Ring
        PROVE  Len(Pending(r)) = 0 /\ OnItsWay(r) = 0 /\ BeingTold(r) = 0
    <3>1. read_ptr[r] = write_ptr[r] /\ read_ptr[r] \in Slots
      BY <1>1, <2>1 DEF Init, RingOK
    <3>2. Len(Pending(r)) = 0
      BY <1>1, <3>1, LengthOfPending, SizeAssumption DEF Count, Slots
    <3> QED
      BY <1>1, <3>2 DEF Init, OnItsWay, BeingTold
  <2> QED
    BY <1>1, <2>1 DEF Init, UntoldInv
<1>2. ASSUME UntoldInv, RingOK, RingOK', LoopOK, ReadInv, [Next]_vars
      PROVE  UntoldInv'
  <2> USE <1>2 DEF rings, inputThread, emulator, loop
  <2>0. ASSUME NEW r \in Ring
        PROVE  Len(Pending(r)) \in Nat /\ OnItsWay(r) \in {0, 1} /\ BeingTold(r) \in {0, 1}
    BY <2>0, PendingLengths DEF OnItsWay, BeingTold
  <2>1. ASSUME NEW s \in Ring, NEW e \in Event(s), PostEvent(s, e)
        PROVE  UntoldInv'
    <3>1. ASSUME NEW r \in Ring
          PROVE  /\ Pending(r)' = Pending(r) /\ BeingTold(r)' = BeingTold(r)
                 /\ OnItsWay(r) = 0 /\ OnItsWay(r)' = IF r = s THEN 1 ELSE 0
      BY <2>1, <3>1, SameRings DEF PostEvent, Kept, OnItsWay, BeingTold, LoopRing
    <3> QED
      BY <2>0, <2>1, <3>1 DEF PostEvent, UntoldInv
  <2>2. CASE Store
    <3>1. ASSUME NEW r \in Ring
          PROVE  /\ Pending(r)' = Pending(r) /\ BeingTold(r)' = BeingTold(r)
                 /\ OnItsWay(r)' = OnItsWay(r)
      BY <2>2, <3>1, StoreKeeps DEF Store, Kept, OnItsWay, BeingTold, LoopRing
    <3> QED
      BY <2>0, <2>2, <3>1 DEF Store, UntoldInv
  <2>3. CASE Advance
    <3>1. ASSUME NEW r \in Ring, r \notin overrun'
          PROVE  untold'[r] = Len(Pending(r)') + OnItsWay(r)' + BeingTold(r)'
      <4>1. r \notin overrun /\ untold' = untold /\ BeingTold(r)' = BeingTold(r)
            /\ OnItsWay(r)' = 0 /\ OnItsWay(r) = IF r = ring THEN 1 ELSE 0
        BY <2>3, <3>1 DEF Advance, OnItsWay, BeingTold, LoopRing
      <4>2. IF r = ring THEN Added(r) ELSE Kept(r)
        BY <2>3, <3>1, AdvanceAddsOrOverruns DEF Overrun
      <4> QED
        BY <2>0, <4>1, <4>2, <3>1, PendingLengths DEF UntoldInv, Kept
    <3> QED
      BY <2>3, <3>1 DEF Advance, UntoldInv
  <2>4. CASE TestRing
    <3>1. ASSUME NEW r \in Ring
          PROVE  /\ Pending(r)' = Pending(r) /\ BeingTold(r)' = BeingTold(r)
                 /\ OnItsWay(r)' = OnItsWay(r)
      BY <2>4, <3>1, SameRings DEF TestRing, Loops, Kept, OnItsWay, BeingTold, LoopRing
    <3> QED
      BY <2>0, <2>4, <3>1 DEF TestRing, UntoldInv
  <2>5. CASE TestButton
    <3>1. ASSUME NEW r \in Ring
          PROVE  /\ Pending(r)' = Pending(r) /\ BeingTold(r)' = BeingTold(r)
                 /\ OnItsWay(r)' = OnItsWay(r)
      BY <2>5, <3>1, SameRings DEF TestButton, Loops, Kept, OnItsWay, BeingTold, LoopRing
    <3> QED
      BY <2>0, <2>5, <3>1 DEF TestButton, UntoldInv
  <2>6. CASE ReadEvent
    <3>1. ASSUME NEW r \in Ring
          PROVE  /\ Pending(r)' = Pending(r) /\ BeingTold(r)' = BeingTold(r)
                 /\ OnItsWay(r)' = OnItsWay(r)
      BY <2>6, <3>1, SameRings DEF ReadEvent, Loops, Kept, OnItsWay, BeingTold, LoopRing
    <3> QED
      BY <2>0, <2>6, <3>1 DEF ReadEvent, UntoldInv
  <2>7. CASE TakeEvent
    <3>1. ASSUME NEW r \in Ring, r \notin overrun'
          PROVE  untold'[r] = Len(Pending(r)') + OnItsWay(r)' + BeingTold(r)'
      <4>1. /\ r \notin overrun /\ untold' = untold /\ OnItsWay(r)' = OnItsWay(r)
            /\ BeingTold(r) = 0 /\ BeingTold(r)' = IF r = LoopRing THEN 1 ELSE 0
        BY <2>7, <3>1 DEF TakeEvent, Loops, OnItsWay, BeingTold, LoopRing
      <4>2. IF r = LoopRing THEN Taken(r) ELSE Kept(r)
        BY <2>7, <3>1, <4>1, TakeTakes
      <4> QED
        BY <2>0, <4>1, <4>2, <3>1, PendingLengths DEF UntoldInv, Kept
    <3> QED
      BY <2>7, <3>1 DEF TakeEvent, UntoldInv
  <2>8. CASE Tell
    <3>1. ASSUME NEW r \in Ring
          PROVE  /\ Pending(r)' = Pending(r) /\ OnItsWay(r)' = OnItsWay(r)
                 /\ BeingTold(r) = (IF r = LoopRing /\ step = "tell" THEN 1 ELSE 0)
                 /\ BeingTold(r)' = 0
      BY <2>8, <3>1, SameRings DEF Tell, Loops, Kept, OnItsWay, BeingTold, LoopRing
    <3>2. untold' = IF step = "motion" \/ LoopRing \in overrun
                     THEN untold ELSE [untold EXCEPT ![LoopRing] = @ - 1]
      BY <2>8 DEF Tell
    <3>3. LoopRing \in Ring /\ overrun' = overrun /\ step \in {"tell", "motion"}
      BY <2>8 DEF Tell, LoopRing, Ring
    <3>4. step = "tell" /\ LoopRing \notin overrun => untold[LoopRing] - 1 \in Nat
      <4>1. untold[LoopRing] \in Nat
        BY <3>3 DEF UntoldInv
      <4>2. ASSUME step = "tell", LoopRing \notin overrun
            PROVE  untold[LoopRing] > 0
        <5> DEFINE r == LoopRing
        <5>1. r \in Ring /\ BeingTold(r) = 1
          BY <3>1, <3>3, <4>2
        <5> HIDE DEF r
        <5>2. untold[r] = Len(Pending(r)) + OnItsWay(r) + BeingTold(r)
          BY <4>2, <5>1 DEF UntoldInv, r
        <5> QED
          BY <2>0, <5>1, <5>2 DEF r
      <4> QED
        BY <4>1, <4>2
    <3>5. untold' \in [Ring -> Nat]
      BY <3>2, <3>3, <3>4 DEF UntoldInv
    <3>6. ASSUME NEW r \in Ring, r \notin overrun'
          PROVE  untold'[r] = Len(Pending(r)') + OnItsWay(r)' + BeingTold(r)'
      <4>1. untold[r] = Len(Pending(r)) + OnItsWay(r) + BeingTold(r) /\ untold[r] \in Nat
        BY <3>3, <3>6 DEF UntoldInv
      <4>2. untold'[r] = untold[r] - BeingTold(r)
        BY <3>1, <3>2, <3>3, <3>6, <4>1 DEF UntoldInv
      <4> QED
        BY <2>0, <3>1, <3>6, <4>1, <4>2
    <3> QED
      BY <3>5, <3>6 DEF UntoldInv
  <2>9. CASE Still
    <3>1. ASSUME NEW r \in Ring
          PROVE  /\ Pending(r)' = Pending(r) /\ BeingTold(r)' = BeingTold(r)
                 /\ OnItsWay(r)' = OnItsWay(r)
      BY <2>9, <3>1, SameRings DEF Still, Kept, OnItsWay, BeingTold, LoopRing
    <3> QED
      BY <2>0, <2>9, <3>1 DEF Still, UntoldInv
  <2> QED
    BY <2>1, <2>2, <2>3, <2>4, <2>5, <2>6, <2>7, <2>8, <2>9, StepKinds DEF StepKind
<1> QED
  BY <1>1, <1>2, RingsAreWellFormed, LoopsAreWellFormed, ReadingIsSafe, PTL DEF Spec

-----------------------------------------------------------------------------

\* When both threads are at rest, no interrupt is pending and none was ignored
\* because the Mac had not started, the Mac has been told of every event of a
\* ring that was never overrun, and, unless the user switches modes, of the
\* position and the motion, whatever the order in which input and ADBInterrupt
\* have run.
THEOREM NoInputIsStranded == Spec => []NoInputStranded
<1>1. ASSUME ButtonInv, WakeInv, UntoldInv, LoopOK, RingOK
      PROVE  NoInputStranded
  <2> SUFFICES ASSUME ipc = "idle", epc = "run", ~intflag, ~ignored
               PROVE  /\ \A r \in Ring : Empty(r)
                      /\ \A r \in Ring \ overrun : untold[r] = 0
                      /\ old_mouse_button = mouse_button
                      /\ "button" \notin overrun => mouse_button = host_button
                      /\ "switch" \notin inputs =>
                           mouse_x = IF relative_mouse THEN 0 ELSE old_mouse_x
    BY DEF NoInputStranded
  <2>1. \A r \in Ring : Empty(r)
    BY <1>1 DEF WakeInv, Coming, Ring
  <2>2. ASSUME NEW r \in Ring
        PROVE  Len(Pending(r)) = 0
    <3>1. read_ptr[r] = write_ptr[r] /\ read_ptr[r] \in Slots
      BY <1>1, <2>1, <2>2 DEF Empty, RingOK
    <3> QED
      BY <1>1, <2>2, <3>1, LengthOfPending, SizeAssumption DEF Count, Slots
  <2>3. step = "test"
    BY <1>1 DEF LoopOK
  <2>4. ASSUME NEW r \in Ring \ overrun
        PROVE  untold[r] = 0
    BY <1>1, <2>2, <2>3, <2>4 DEF UntoldInv, OnItsWay, BeingTold
  <2>5. ASSUME "button" \notin overrun
        PROVE  mouse_button = host_button
    <3>1. Posted = Pending("button")
      BY DEF Posted, InFlight
    <3>2. \A b \in Button : mouse_button[b] = host_button[b]
      BY <1>1, <2>2, <2>5, <3>1, ButtonIsRing DEF ButtonInv, Ends
    <3> QED
      BY <1>1, <3>2 DEF ButtonInv
  <2>6. "switch" \notin inputs => mouse_x = IF relative_mouse THEN 0 ELSE old_mouse_x
    BY <1>1 DEF WakeInv, Coming
  <2> QED
    BY <1>1, <2>1, <2>3, <2>4, <2>5, <2>6 DEF ButtonInv
<1> QED
  BY <1>1, ButtonsFollowEvents, InputWakes, EventsAreCounted, LoopsAreWellFormed,
     RingsAreWellFormed, PTL

-----------------------------------------------------------------------------
(* Types *)

\* What TypeOK says beyond the invariants above
FlagsOK ==
  /\ inputs \in Inputs
  /\ \A r \in Ring : \A i \in 0..(Size - 1) : buffer[r][i] \in Event(r) \cup {NoEvent}
  /\ event \in Event(ring) \cup {NoEvent}
  /\ intflag \in BOOLEAN /\ started \in BOOLEAN /\ ignored \in BOOLEAN
  /\ overrun \subseteq Ring

\* A slot holds an event of its ring, or what it held at first.
LEMMA FlagsAreTyped == Spec => []FlagsOK
<1>1. ASSUME Init
      PROVE  FlagsOK
  BY <1>1 DEF Init, FlagsOK
<1>2. ASSUME FlagsOK, RingOK, [Next]_vars
      PROVE  FlagsOK'
  <2> USE <1>2 DEF FlagsOK, rings, buttons, mouse, inputThread, emulator, loop
  <2>1. ASSUME NEW r \in Ring, NEW e \in Event(r), PostEvent(r, e)
         PROVE  FlagsOK'
    BY <2>1 DEF PostEvent
  <2>2. ASSUME NEW x \in {-1, 1} \cup Position, PostMove(x)
         PROVE  FlagsOK'
    BY <2>2 DEF PostMove
  <2>3. CASE Ungrab
    BY <2>3 DEF Ungrab
  <2>4. CASE ToggleGrab
    BY <2>4 DEF ToggleGrab, Emulates
  <2>5. CASE Store
    <3>1. ASSUME NEW r \in Ring, NEW i \in 0..(Size - 1)
          PROVE  buffer'[r][i] \in Event(r) \cup {NoEvent}
      <4>1. buffer[r] \in [0..(Size - 1) -> Entry] /\ (r = ring => event \in Event(r))
        BY <2>5, <3>1 DEF Store, RingOK, Slots
      <4>2. buffer'[r] = IF r = ring THEN [buffer[r] EXCEPT ![write_ptr[r]] = event]
                                     ELSE buffer[r]
        BY <2>5, <3>1, StoreChangesASlot
      <4>3. buffer'[r][i] = buffer[r][i] \/ (r = ring /\ buffer'[r][i] = event)
        BY <3>1, <4>1, <4>2
      <4> QED
        BY <3>1, <4>1, <4>3
    <3> QED
      BY <2>5, <3>1 DEF Store
  <2>6. CASE Advance
    BY <2>6 DEF Advance, RingOK, Ring
  <2>7. CASE MoveLock
    BY <2>7 DEF MoveLock
  <2>8. CASE MoveTest
    BY <2>8 DEF MoveTest
  <2>9. CASE MoveStore
    BY <2>9 DEF MoveStore
  <2>10. CASE SetAdbFlag
    BY <2>10 DEF SetAdbFlag
  <2>11. CASE ZeroMouse
    BY <2>11 DEF ZeroMouse
  <2>12. CASE MacRestarts
    BY <2>12 DEF MacRestarts
  <2>13. CASE ADBInterrupt
    BY <2>13 DEF ADBInterrupt, Emulates
  <2>14. CASE LockMouse
    BY <2>14 DEF LockMouse, Emulates
  <2>15. CASE SampleMouse
    BY <2>15 DEF SampleMouse, Emulates
  <2>16. CASE ClearMotion
    BY <2>16 DEF ClearMotion, Emulates
  <2>17. CASE TestMode
    BY <2>17 DEF TestMode, Emulates
  <2>18. CASE TellPosition
    BY <2>18 DEF TellPosition, Emulates
  <2>19. CASE TestRing
    BY <2>19 DEF TestRing, Loops
  <2>20. CASE TestButton
    BY <2>20 DEF TestButton, Loops
  <2>21. CASE ReadEvent
    BY <2>21 DEF ReadEvent, Loops
  <2>22. CASE TakeEvent
    BY <2>22 DEF TakeEvent, Loops
  <2>23. CASE Tell
    BY <2>23 DEF Tell, Loops
  <2>24. CASE ButtonsTold
    BY <2>24 DEF ButtonsTold, Emulates
  <2>25. CASE ADBInterruptReturns
    BY <2>25 DEF ADBInterruptReturns, Emulates
  <2>26. CASE UNCHANGED vars
    BY <2>26 DEF vars
  <2> QED
    BY <1>2, <2>1, <2>2, <2>3, <2>4, <2>5, <2>6, <2>7, <2>8, <2>9, <2>10, <2>11,
       <2>12, <2>13, <2>14, <2>15, <2>16, <2>17, <2>18, <2>19, <2>20, <2>21, <2>22,
       <2>23, <2>24, <2>25, <2>26
       DEF Next, User, InputThread, Interrupt
<1> QED
  BY <1>1, <1>2, RingsAreWellFormed, PTL DEF Spec

\* Type correctness, and with it what ADBInterrupt takes out of a ring without a
\* lock: an event of this ring that was written to the slot, even where the ring
\* is overrun between the test, the reading of the slot and the advance.
THEOREM TypeCorrect == Spec => []TypeOK
<1>1. RingOK /\ MouseInv /\ ButtonInv /\ LoopOK /\ GotOK /\ UntoldInv /\ FlagsOK => TypeOK
  <2>1. RingOK => read_ptr \in [Ring -> 0..(Size - 1)] /\ write_ptr \in [Ring -> 0..(Size - 1)]
                  /\ ring \in Ring
    BY DEF RingOK, Slots
  <2>2. LoopOK /\ GotOK => step \in {"test", "button", "read", "advance", "tell", "motion"}
          /\ IF step \in {"advance", "tell"} THEN got \in Event(LoopRing) ELSE got = NoEvent
    BY DEF LoopOK, GotOK
  <2> QED
    BY <2>1, <2>2 DEF MouseInv, MouseOK, LockInv, ButtonInv, UntoldInv, FlagsOK, TypeOK
<1> QED
  BY <1>1, RingsAreWellFormed, MouseInvariant, ButtonsFollowEvents, LoopsAreWellFormed,
     EventsAreRead, EventsAreCounted, FlagsAreTyped, PTL
=============================================================================
