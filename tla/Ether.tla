-------------------------------- MODULE Ether --------------------------------
(***************************************************************************)
(* The Ethernet driver of Basilisk II (ether.cpp, ether_unix.cpp): the     *)
(* reception thread, EtherInterrupt on the emulator thread, and, if the    *)
(* user has chosen slirp, the slirp thread with its two pipes.             *)
(*                                                                         *)
(* The reception thread waits until fd is readable, sets INTFLAG_ETHER and *)
(* waits for EtherInterrupt, which reads and dispatches packets until fd   *)
(* is empty.  fd is a network device (TUN/TAP, sheep_net, a UDP socket),   *)
(* whose read returns one packet, or the read end of a pipe into which     *)
(* slirp_output writes.  A pipe does not keep packets apart: read returns  *)
(* what there is, up to 1514 bytes.                                        *)
(*                                                                         *)
(* A packet is one or two units of data, its head and a tail.  Contents    *)
(* are left out; slirp answers with any number of packets.  The threads    *)
(* are those of a running emulator: starting and stopping them, multicast  *)
(* addresses and the contents of the Mac's packets are left out.  The Mac  *)
(* is not reset inside a protocol handler: EtherReset neither sets         *)
(* n_ether_packets back nor posts int_ack, which EtherInterrupt, were it   *)
(* abandoned there, would leave to it.                                     *)
(***************************************************************************)
EXTENDS Naturals, Sequences

CONSTANTS
  Devices,   \* kinds of device: "network" and "slirp"
  Protocol,  \* protocol types
  RxSize,    \* units that fd holds
  ReadSize,  \* units that one read of the pipe returns
  TxSize     \* entries that the pipe to slirp holds

ASSUME DeviceAssumption == Devices \subseteq {"network", "slirp"}
ASSUME SizeAssumption ==
  RxSize \in Nat \ {0, 1} /\ ReadSize \in Nat \ {0, 1} /\ TxSize \in Nat \ {0}

VARIABLES
  device,           \* the kind of device; it never changes
  rx,               \* the units in fd
  tx,               \* slirp input pipe: lengths and packets, written in turn
  intflag,          \* is INTFLAG_ETHER set?
  int_ack,          \* the semaphore
  n_ether_packets,  \* EthernetPacket objects that exist
  net_protocols,    \* attached protocols
  block,            \* what ether_do_interrupt has read
  rpc,              \* control point of the reception thread
  epc,              \* control point of the emulator thread
  caller,           \* the 68k code that called ether_do_write
  spc,              \* control point of the slirp thread
  reply             \* size of the packet that slirp_output writes

emulVars == <<n_ether_packets, net_protocols, block, epc, caller>>
slirpVars == <<spc, reply>>
vars == <<device, rx, tx, intflag, int_ack, emulVars, rpc, slirpVars>>

Packets == {<<"head">>, <<"head", "tail">>}

TypeOK ==
  /\ device \in Devices
  /\ rx \in Seq({"head", "tail"}) /\ Len(rx) \in 0..RxSize
  /\ tx \in Seq({"len", "packet"}) /\ Len(tx) \in 0..TxSize
  /\ intflag \in BOOLEAN
  /\ int_ack \in {0, 1}
  /\ n_ether_packets \in {0, 1}
  /\ net_protocols \subseteq Protocol
  /\ block \in Seq({"head", "tail"})
  /\ rpc \in {"poll", "flag", "wait"}
  /\ epc \in {"run", "read", "dispatch", "handler", "ack", "write_len", "write_packet"}
  /\ caller \in {"run", "handler"}
  /\ spc \in {"poll", "read_packet", "input", "sockets", "output"}
  /\ reply \in Packets \cup {<<>>}

Init ==
  /\ device \in Devices
  /\ rx = <<>>
  /\ tx = <<>>
  /\ intflag = FALSE
  /\ int_ack = 0
  /\ n_ether_packets = 0
  /\ net_protocols = {}
  /\ block = <<>>
  /\ rpc = "poll"
  /\ epc = "run"
  /\ caller = "run"
  /\ spc = "poll"
  /\ reply = <<>>

-----------------------------------------------------------------------------
(* The device and the reception thread *)

\* A network device drops what it has no room for
PacketArrives(packet) ==
  /\ device = "network"
  /\ Len(rx) + Len(packet) <= RxSize
  /\ rx' = rx \o packet
  /\ UNCHANGED <<device, tx, intflag, int_ack, emulVars, rpc, slirpVars>>

\* poll or select returns
Readable ==
  /\ rpc = "poll"
  /\ rx # <<>>
  /\ rpc' = "flag"
  /\ UNCHANGED <<device, rx, tx, intflag, int_ack, emulVars, slirpVars>>

\* SetInterruptFlag, TriggerInterrupt
SetEtherFlag ==
  /\ rpc = "flag"
  /\ intflag' = TRUE
  /\ rpc' = "wait"
  /\ UNCHANGED <<device, rx, tx, int_ack, emulVars, slirpVars>>

AckReceived ==
  /\ rpc = "wait"
  /\ int_ack > 0
  /\ int_ack' = int_ack - 1
  /\ rpc' = "poll"
  /\ UNCHANGED <<device, rx, tx, intflag, emulVars, slirpVars>>

ReceptionThread == Readable \/ SetEtherFlag \/ AckReceived

-----------------------------------------------------------------------------
(* EtherInterrupt *)

\* M68K_EMUL_OP_IRQ clears the flag and calls EtherInterrupt.  A protocol
\* handler is 68k code and may have opened the interrupt mask.
EtherInterrupt ==
  /\ epc \in {"run", "handler"}
  /\ intflag
  /\ intflag' = FALSE
  /\ n_ether_packets' = n_ether_packets + 1
  /\ epc' = "read"
  /\ UNCHANGED <<device, rx, tx, int_ack, net_protocols, block, rpc, caller, slirpVars>>

\* How many units a read returns: one packet, or what the pipe holds
ReadLength ==
  IF device = "slirp"
  THEN IF Len(rx) < ReadSize THEN Len(rx) ELSE ReadSize
  ELSE IF Len(rx) > 1 /\ rx[2] = "tail" THEN 2 ELSE 1

ReadPacket ==
  /\ epc = "read"
  /\ rx # <<>>
  /\ block' = SubSeq(rx, 1, ReadLength)
  /\ rx' = SubSeq(rx, ReadLength + 1, Len(rx))
  /\ epc' = "dispatch"
  /\ UNCHANGED <<device, tx, intflag, int_ack, n_ether_packets, net_protocols, rpc, caller,
                 slirpVars>>

\* There is no more to read, or less than 14 bytes: the loop ends and the
\* EthernetPacket is destroyed.  The rest of a packet may be that short.
EndReading ==
  /\ \/ epc = "read" /\ rx = <<>>
     \/ epc = "dispatch" /\ block = <<"tail">>
  /\ n_ether_packets' = n_ether_packets - 1
  /\ block' = <<>>
  /\ epc' = "ack"
  /\ UNCHANGED <<device, rx, tx, intflag, int_ack, net_protocols, rpc, caller, slirpVars>>

\* ether_dispatch_packet: the type is found where the head of a packet should be
Dispatch(type) ==
  /\ epc = "dispatch"
  /\ block' = <<>>
  /\ epc' = IF type \in net_protocols THEN "handler" ELSE "read"
  /\ UNCHANGED <<device, rx, tx, intflag, int_ack, n_ether_packets, net_protocols, rpc, caller,
                 slirpVars>>

\* The 68k protocol handler returns
HandlerReturns ==
  /\ epc = "handler"
  /\ epc' = "read"
  /\ UNCHANGED <<device, rx, tx, intflag, int_ack, n_ether_packets, net_protocols, block, rpc,
                 caller, slirpVars>>

\* Where the emulator thread goes on after EtherInterrupt
Interrupted == IF n_ether_packets > 0 THEN "handler" ELSE "run"

\* Fault: the reception thread is told before the packets are handled
AckFirst ==
  /\ epc \in {"read", "ack"}
  /\ epc' = IF epc = "read" THEN "handler" ELSE Interrupted
  /\ int_ack' = IF epc = "read" THEN int_ack + 1 ELSE int_ack
  /\ UNCHANGED <<device, rx, tx, intflag, n_ether_packets, net_protocols, block, rpc, caller,
                 slirpVars>>

\* Fault: no sem_post
NoAck ==
  /\ epc = "ack"
  /\ epc' = Interrupted
  /\ UNCHANGED <<device, rx, tx, intflag, int_ack, n_ether_packets, net_protocols, block, rpc,
                 caller, slirpVars>>

\* sem_post
Acknowledge ==
  /\ epc = "ack"
  /\ int_ack' = int_ack + 1
  /\ epc' = Interrupted
  /\ UNCHANGED <<device, rx, tx, intflag, n_ether_packets, net_protocols, block, rpc, caller,
                 slirpVars>>

-----------------------------------------------------------------------------
(* EtherControl, called by 68k code outside and inside of a protocol handler *)

In68k == epc \in {"run", "handler"}

\* kENetAttachPH; lapProtErr if the protocol has a handler
AttachPH(type) ==
  /\ In68k
  /\ type \notin net_protocols
  /\ net_protocols' = net_protocols \cup {type}
  /\ UNCHANGED <<device, rx, tx, intflag, int_ack, n_ether_packets, block, rpc, epc, caller,
                 slirpVars>>

\* kENetDetachPH; lapProtErr if it has none
DetachPH(type) ==
  /\ In68k
  /\ type \in net_protocols
  /\ net_protocols' = net_protocols \ {type}
  /\ UNCHANGED <<device, rx, tx, intflag, int_ack, n_ether_packets, block, rpc, epc, caller,
                 slirpVars>>

\* kENetWrite: writing to a network device changes nothing here; for slirp the
\* length and the packet are written one after the other
Write ==
  /\ device = "slirp"
  /\ In68k
  /\ caller' = epc
  /\ epc' = "write_len"
  /\ UNCHANGED <<device, rx, tx, intflag, int_ack, n_ether_packets, net_protocols, block, rpc,
                 slirpVars>>

\* write blocks while the pipe is full
WritePipe ==
  /\ epc \in {"write_len", "write_packet"}
  /\ Len(tx) < TxSize
  /\ tx' = Append(tx, IF epc = "write_len" THEN "len" ELSE "packet")
  /\ epc' = IF epc = "write_len" THEN "write_packet" ELSE caller
  /\ UNCHANGED <<device, rx, intflag, int_ack, n_ether_packets, net_protocols, block, rpc,
                 caller, slirpVars>>

\* EtherReset, when the Mac is reset
EtherReset ==
  /\ epc = "run"
  /\ net_protocols' = {}
  /\ UNCHANGED <<device, rx, tx, intflag, int_ack, n_ether_packets, block, rpc, epc, caller,
                 slirpVars>>

-----------------------------------------------------------------------------
(* slirp_receive_func *)

SlirpStep(from, to) ==
  /\ device = "slirp"
  /\ spc = from
  /\ spc' = to
  /\ UNCHANGED <<device, intflag, int_ack, emulVars, rpc>>

\* select finds the input pipe empty
SlirpNoInput == tx = <<>> /\ SlirpStep("poll", "sockets") /\ UNCHANGED <<rx, tx, reply>>

\* Fault: no input is taken before the Mac has read all output
SlirpReadLenWhenIdle ==
  /\ tx # <<>> /\ rx = <<>>
  /\ tx' = Tail(tx) /\ SlirpStep("poll", "read_packet") /\ UNCHANGED <<rx, reply>>

\* The length is read, then the packet, which may still have to be written
SlirpReadLen ==
  tx # <<>> /\ tx' = Tail(tx) /\ SlirpStep("poll", "read_packet") /\ UNCHANGED <<rx, reply>>

SlirpReadPacket ==
  tx # <<>> /\ tx' = Tail(tx) /\ SlirpStep("read_packet", "input") /\ UNCHANGED <<rx, reply>>

\* slirp_input and slirp_select_poll may have packets for the Mac
SlirpHasPacket(packet) ==
  /\ reply' = packet
  /\ \E from \in {"input", "sockets"} : SlirpStep(from, "output")
  /\ UNCHANGED <<rx, tx>>

\* slirp_output: write blocks while the pipe is full
SlirpOutput ==
  /\ Len(rx) + Len(reply) <= RxSize
  /\ rx' = rx \o reply
  /\ reply' = <<>>
  /\ SlirpStep("output", "sockets")
  /\ UNCHANGED tx

SlirpInputDone == SlirpStep("input", "sockets") /\ UNCHANGED <<rx, tx, reply>>

SlirpSocketsDone == SlirpStep("sockets", "poll") /\ UNCHANGED <<rx, tx, reply>>

SlirpThread ==
  \/ SlirpNoInput \/ SlirpReadLen \/ SlirpReadPacket
  \/ \E packet \in Packets : SlirpHasPacket(packet)
  \/ SlirpOutput \/ SlirpInputDone \/ SlirpSocketsDone

-----------------------------------------------------------------------------

Interrupt == ReadPacket \/ EndReading \/ Acknowledge \/ \E type \in Protocol : Dispatch(type)

Control ==
  \/ \E type \in Protocol : AttachPH(type) \/ DetachPH(type)
  \/ Write
  \/ EtherReset

Next ==
  \/ \E packet \in Packets : PacketArrives(packet)
  \/ ReceptionThread
  \/ EtherInterrupt \/ Interrupt \/ HandlerReturns
  \/ Control \/ WritePipe
  \/ SlirpThread

Spec == Init /\ [][Next]_vars

(***************************************************************************)
(* Fairness.  The threads are scheduled.  68k code opens its interrupt     *)
(* mask again and again (Interrupts!DataIsHandled) and protocol handlers   *)
(* return, however often they write.  slirp_select_poll comes to the end   *)
(* of its sockets.  No packet has to arrive and nothing has to be sent.    *)
(***************************************************************************)
Fairness ==
  /\ WF_vars(ReceptionThread)
  /\ SF_vars(EtherInterrupt)
  /\ WF_vars(Interrupt)
  /\ SF_vars(HandlerReturns)
  /\ WF_vars(WritePipe)
  /\ WF_vars(SlirpThread)
  /\ SF_vars(SlirpSocketsDone)

FairSpec == Spec /\ Fairness

-----------------------------------------------------------------------------

\* receive_func and EtherInterrupt take turns: no acknowledgement is left over.
Handshake ==
  INSTANCE IrqHandshake WITH
    turn <- IF int_ack > 0 THEN "done"
            ELSE IF n_ether_packets > 0 \/ epc = "ack" THEN "serving"
            ELSE IF intflag THEN "raised" ELSE "host"

HandshakeSpec == Handshake!Spec

\* EtherInterrupt is not nested, although protocol handlers may be interrupted:
\* the single packet buffer is not in use twice (n_ether_packets "should be at
\* most 1", ether.cpp:462).
OneBuffer == n_ether_packets <= 1

\* Both ends of the two pipes are full: the emulator thread waits for slirp and
\* slirp for the emulator thread, for ever
CircularWait ==
  /\ epc \in {"write_len", "write_packet"} /\ Len(tx) = TxSize
  /\ spc = "output" /\ Len(rx) + Len(reply) > RxSize

\* A packet that arrives is read, at whatever point of the reception thread and
\* of EtherInterrupt it arrives.
PacketIsRead == rx # <<>> ~> epc = "dispatch" \/ CircularWait

\* kENetWrite returns, and length and packet reach slirp in pairs: nothing but
\* full pipes in both directions keeps it.
WriteReturns ==
  epc \in {"write_len", "write_packet"} ~> epc \in {"run", "handler"} \/ CircularWait

\* A block that is dispatched is one packet (read, ether_dispatch_packet).
DispatchesPackets == epc = "dispatch" => block \in Packets
=============================================================================
