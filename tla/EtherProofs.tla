---------------------------- MODULE EtherProofs ----------------------------
(***************************************************************************)
(* Proofs about Ether, for every size of the pipes and any number of       *)
(* protocols.  The invariant Turns says where the one token of the         *)
(* handshake is; Serving is EtherInterrupt with all that it calls, the     *)
(* writing of a packet by a protocol handler included.                     *)
(***************************************************************************)
EXTENDS Ether, TLAPS

\* Control points at which the packet buffer is in use
HasBuffer ==
  \/ epc \in {"read", "dispatch", "handler"}
  \/ epc \in {"write_len", "write_packet"} /\ caller = "handler"

Serving == HasBuffer \/ epc = "ack"

ControlOK ==
  /\ intflag \in BOOLEAN
  /\ int_ack \in {0, 1}
  /\ rpc \in {"poll", "flag", "wait"}
  /\ epc \in {"run", "read", "dispatch", "handler", "ack", "write_len", "write_packet"}
  /\ caller \in {"run", "handler"}
  /\ n_ether_packets = IF HasBuffer THEN 1 ELSE 0

\* While the reception thread waits, exactly one of the flag, the interrupt and
\* the semaphore stands for what it waits for; otherwise none does.
Token ==
  IF rpc = "wait"
  THEN \/ intflag = TRUE /\ ~Serving /\ int_ack = 0
       \/ intflag = FALSE /\ Serving /\ int_ack = 0
       \/ intflag = FALSE /\ ~Serving /\ int_ack = 1
  ELSE intflag = FALSE /\ ~Serving /\ int_ack = 0

Turns == ControlOK /\ Token

\* Every step of the three threads keeps the token.
LEMMA TurnsInvariant == Spec => []Turns
<1> USE DEF Turns, ControlOK, Token, Serving, HasBuffer
<1>1. ASSUME Init
      PROVE  Turns
  <2>1. intflag \in BOOLEAN
    BY <1>1 DEF Init
  <2> QED
    BY <1>1, <2>1 DEF Init
<1>2. ASSUME Turns, [Next]_vars
      PROVE  Turns'
  <2> USE <1>2 DEF emulVars, slirpVars
  <2>1. ASSUME NEW packet \in Packets, PacketArrives(packet)
        PROVE  Turns'
    BY <2>1 DEF PacketArrives
  <2>2. CASE Readable
    BY <2>2 DEF Readable
  <2>3. CASE SetEtherFlag
    BY <2>3 DEF SetEtherFlag
  <2>4. CASE AckReceived
    BY <2>4 DEF AckReceived
  <2>5. CASE EtherInterrupt
    <3>1. intflag' = FALSE /\ ~Serving /\ int_ack = 0 /\ rpc = "wait"
      BY <2>5 DEF EtherInterrupt
    <3>2. n_ether_packets = 0
      BY <3>1
    <3>3. n_ether_packets' = 1 /\ HasBuffer'
      BY <2>5, <3>2 DEF EtherInterrupt
    <3>4. intflag' \in BOOLEAN
      BY <3>1
    <3> QED
      BY <2>5, <3>1, <3>3, <3>4 DEF EtherInterrupt
  <2>6. CASE ReadPacket
    BY <2>6 DEF ReadPacket
  <2>7. CASE EndReading
    BY <2>7 DEF EndReading
  <2>8. ASSUME NEW type \in Protocol, Dispatch(type)
        PROVE  Turns'
    BY <2>8 DEF Dispatch
  <2>9. CASE HandlerReturns
    BY <2>9 DEF HandlerReturns
  <2>10. CASE Acknowledge
    BY <2>10 DEF Acknowledge, Interrupted
  <2>11. ASSUME NEW type \in Protocol, AttachPH(type)
        PROVE  Turns'
    BY <2>11 DEF AttachPH, In68k
  <2>12. ASSUME NEW type \in Protocol, DetachPH(type)
        PROVE  Turns'
    BY <2>12 DEF DetachPH, In68k
  <2>13. CASE Write
    BY <2>13 DEF Write, In68k
  <2>14. CASE WritePipe
    BY <2>14 DEF WritePipe
  <2>15. CASE EtherReset
    BY <2>15 DEF EtherReset
  <2>16. CASE SlirpNoInput
    BY <2>16 DEF SlirpNoInput, SlirpStep
  <2>17. CASE SlirpReadLen
    BY <2>17 DEF SlirpReadLen, SlirpStep
  <2>18. CASE SlirpReadPacket
    BY <2>18 DEF SlirpReadPacket, SlirpStep
  <2>19. ASSUME NEW packet \in Packets, SlirpHasPacket(packet)
        PROVE  Turns'
    BY <2>19 DEF SlirpHasPacket, SlirpStep
  <2>20. CASE SlirpOutput
    BY <2>20 DEF SlirpOutput, SlirpStep
  <2>21. CASE SlirpInputDone
    BY <2>21 DEF SlirpInputDone, SlirpStep
  <2>22. CASE SlirpSocketsDone
    BY <2>22 DEF SlirpSocketsDone, SlirpStep
  <2>23. CASE UNCHANGED vars
    BY <2>23 DEF vars
  <2> QED
    BY <1>2, <2>1, <2>2, <2>3, <2>4, <2>5, <2>6, <2>7, <2>8, <2>9, <2>10, <2>11,
       <2>12, <2>13, <2>14, <2>15, <2>16, <2>17, <2>18, <2>19, <2>20, <2>21, <2>22,
       <2>23
       DEF Next, ReceptionThread, Interrupt, Control, SlirpThread
<1> QED
  BY <1>1, <1>2, PTL DEF Spec

\* A packet is a head, with or without a tail.
LEMMA PacketsAreShort ==
  \A packet \in Packets : packet \in Seq({"head", "tail"}) /\ Len(packet) \in 1..2
<1>1. <<"head">> \in Seq({"head", "tail"}) /\ Len(<<"head">>) = 1
  OBVIOUS
<1>2. <<"head", "tail">> \in Seq({"head", "tail"}) /\ Len(<<"head", "tail">>) = 2
  OBVIOUS
<1>3. ASSUME NEW packet \in Packets
      PROVE  packet = <<"head">> \/ packet = <<"head", "tail">>
  BY DEF Packets
<1>4. ASSUME NEW packet \in Packets
      PROVE  packet \in Seq({"head", "tail"}) /\ Len(packet) \in 1..2
  <2>1. CASE packet = <<"head">>
    BY <1>1, <2>1
  <2>2. CASE packet = <<"head", "tail">>
    BY <1>2, <2>2
  <2> QED
    BY <1>3, <2>1, <2>2
<1> QED
  BY <1>4

\* Types: what the pipes and the buffer hold, and that neither pipe is
\* written to beyond its size.
THEOREM TypeCorrect == Spec => []TypeOK
<1> USE DeviceAssumption, SizeAssumption DEF TypeOK
<1>1. ASSUME Init
      PROVE  TypeOK
  <2>1. intflag \in BOOLEAN /\ net_protocols \subseteq Protocol
    BY <1>1 DEF Init
  <2>2. /\ rx \in Seq({"head", "tail"}) /\ Len(rx) \in 0..RxSize
        /\ tx \in Seq({"len", "packet"}) /\ Len(tx) \in 0..TxSize
        /\ block \in Seq({"head", "tail"})
    BY <1>1 DEF Init
  <2> QED
    BY <1>1, <2>1, <2>2 DEF Init
<1>2. ASSUME TypeOK, Turns, Turns', [Next]_vars
      PROVE  TypeOK'
  <2> USE <1>2 DEF emulVars, slirpVars, Turns, ControlOK
  <2>1. ASSUME NEW packet \in Packets, PacketArrives(packet)
        PROVE  TypeOK'
    BY <2>1, PacketsAreShort DEF PacketArrives
  <2>2. CASE Readable
    BY <2>2 DEF Readable
  <2>3. CASE SetEtherFlag
    BY <2>3 DEF SetEtherFlag
  <2>4. CASE AckReceived
    BY <2>4 DEF AckReceived
  <2>5. CASE EtherInterrupt
    BY <2>5 DEF EtherInterrupt
  <2>6. CASE ReadPacket
    BY <2>6 DEF ReadPacket, ReadLength
  <2>7. CASE EndReading
    BY <2>7 DEF EndReading
  <2>8. ASSUME NEW type \in Protocol, Dispatch(type)
        PROVE  TypeOK'
    BY <2>8 DEF Dispatch
  <2>9. CASE HandlerReturns
    BY <2>9 DEF HandlerReturns
  <2>10. CASE Acknowledge
    BY <2>10 DEF Acknowledge, Interrupted
  <2>11. ASSUME NEW type \in Protocol, AttachPH(type)
        PROVE  TypeOK'
    BY <2>11 DEF AttachPH, In68k
  <2>12. ASSUME NEW type \in Protocol, DetachPH(type)
        PROVE  TypeOK'
    BY <2>12 DEF DetachPH, In68k
  <2>13. CASE Write
    BY <2>13 DEF Write, In68k
  <2>14. CASE WritePipe
    BY <2>14 DEF WritePipe
  <2>15. CASE EtherReset
    BY <2>15 DEF EtherReset
  <2>16. CASE SlirpNoInput
    BY <2>16 DEF SlirpNoInput, SlirpStep
  <2>17. CASE SlirpReadLen
    BY <2>17 DEF SlirpReadLen, SlirpStep
  <2>18. CASE SlirpReadPacket
    BY <2>18 DEF SlirpReadPacket, SlirpStep
  <2>19. ASSUME NEW packet \in Packets, SlirpHasPacket(packet)
        PROVE  TypeOK'
    BY <2>19, PacketsAreShort DEF SlirpHasPacket, SlirpStep
  <2>20. CASE SlirpOutput
    <3> USE <2>20 DEF SlirpOutput, SlirpStep
    <3>1. reply \in Seq({"head", "tail"})
      <4>1. <<>> \in Seq({"head", "tail"})
        OBVIOUS
      <4>2. reply = <<>> \/ reply \in Packets
        OBVIOUS
      <4> QED
        BY <4>1, <4>2, PacketsAreShort
    <3>2. rx' \in Seq({"head", "tail"}) /\ Len(rx') = Len(rx) + Len(reply)
      BY <3>1
    <3>3. Len(rx') \in 0..RxSize
      BY <3>1, <3>2
    <3> QED
      BY <3>2, <3>3
  <2>21. CASE SlirpInputDone
    BY <2>21 DEF SlirpInputDone, SlirpStep
  <2>22. CASE SlirpSocketsDone
    BY <2>22 DEF SlirpSocketsDone, SlirpStep
  <2>23. CASE UNCHANGED vars
    BY <2>23 DEF vars
  <2> QED
    BY <1>2, <2>1, <2>2, <2>3, <2>4, <2>5, <2>6, <2>7, <2>8, <2>9, <2>10, <2>11,
       <2>12, <2>13, <2>14, <2>15, <2>16, <2>17, <2>18, <2>19, <2>20, <2>21, <2>22,
       <2>23
       DEF Next, ReceptionThread, Interrupt, Control, SlirpThread
<1> QED
  BY <1>1, <1>2, TurnsInvariant, PTL DEF Spec

\* ether.cpp:462: at most one EthernetPacket exists, although a protocol handler
\* is 68k code which may be interrupted and may write packets itself.
THEOREM BufferIsNotShared == Spec => []OneBuffer
<1>1. Turns => OneBuffer
  BY DEF Turns, ControlOK, OneBuffer
<1> QED
  BY <1>1, TurnsInvariant, PTL

\* The variable of IrqHandshake, as Ether has it
HandshakeTurn ==
  IF int_ack > 0 THEN "done"
  ELSE IF n_ether_packets > 0 \/ epc = "ack" THEN "serving"
  ELSE IF intflag THEN "raised" ELSE "host"

\* The reception thread and EtherInterrupt implement the handshake: they take
\* turns, and no acknowledgement is left over for the next packet.
THEOREM Refinement == Spec => HandshakeSpec
<1>1. Init => Handshake!Init
  BY DEF Init, Handshake!Init
<1>2. ASSUME Turns, Turns', [Next]_vars
      PROVE  [Handshake!Next]_HandshakeTurn
  <2> USE <1>2 DEF Turns, ControlOK, Token, Serving, HasBuffer, emulVars, slirpVars,
                   HandshakeTurn, Handshake!Next, Handshake!Raise, Handshake!Serve,
                   Handshake!Acknowledge, Handshake!Proceed
  <2>1. ASSUME NEW packet \in Packets, PacketArrives(packet)
        PROVE  [Handshake!Next]_HandshakeTurn
    BY <2>1 DEF PacketArrives
  <2>2. CASE Readable
    BY <2>2 DEF Readable
  <2>3. CASE SetEtherFlag
    BY <2>3 DEF SetEtherFlag
  <2>4. CASE AckReceived
    BY <2>4 DEF AckReceived
  <2>5. CASE EtherInterrupt
    BY <2>5 DEF EtherInterrupt
  <2>6. CASE ReadPacket
    BY <2>6 DEF ReadPacket
  <2>7. CASE EndReading
    BY <2>7 DEF EndReading
  <2>8. ASSUME NEW type \in Protocol, Dispatch(type)
        PROVE  [Handshake!Next]_HandshakeTurn
    BY <2>8 DEF Dispatch
  <2>9. CASE HandlerReturns
    BY <2>9 DEF HandlerReturns
  <2>10. CASE Acknowledge
    BY <2>10 DEF Acknowledge, Interrupted
  <2>11. ASSUME NEW type \in Protocol, AttachPH(type)
        PROVE  [Handshake!Next]_HandshakeTurn
    BY <2>11 DEF AttachPH, In68k
  <2>12. ASSUME NEW type \in Protocol, DetachPH(type)
        PROVE  [Handshake!Next]_HandshakeTurn
    BY <2>12 DEF DetachPH, In68k
  <2>13. CASE Write
    BY <2>13 DEF Write, In68k
  <2>14. CASE WritePipe
    BY <2>14 DEF WritePipe
  <2>15. CASE EtherReset
    BY <2>15 DEF EtherReset
  <2>16. CASE SlirpNoInput
    BY <2>16 DEF SlirpNoInput, SlirpStep
  <2>17. CASE SlirpReadLen
    BY <2>17 DEF SlirpReadLen, SlirpStep
  <2>18. CASE SlirpReadPacket
    BY <2>18 DEF SlirpReadPacket, SlirpStep
  <2>19. ASSUME NEW packet \in Packets, SlirpHasPacket(packet)
        PROVE  [Handshake!Next]_HandshakeTurn
    BY <2>19 DEF SlirpHasPacket, SlirpStep
  <2>20. CASE SlirpOutput
    BY <2>20 DEF SlirpOutput, SlirpStep
  <2>21. CASE SlirpInputDone
    BY <2>21 DEF SlirpInputDone, SlirpStep
  <2>22. CASE SlirpSocketsDone
    BY <2>22 DEF SlirpSocketsDone, SlirpStep
  <2>23. CASE UNCHANGED vars
    BY <2>23 DEF vars
  <2> QED
    BY <1>2, <2>1, <2>2, <2>3, <2>4, <2>5, <2>6, <2>7, <2>8, <2>9, <2>10, <2>11,
       <2>12, <2>13, <2>14, <2>15, <2>16, <2>17, <2>18, <2>19, <2>20, <2>21, <2>22,
       <2>23
       DEF Next, ReceptionThread, Interrupt, Control, SlirpThread
<1> QED
  BY <1>1, <1>2, TurnsInvariant, PTL
     DEF Spec, HandshakeSpec, Handshake!Spec, HandshakeTurn
=============================================================================
