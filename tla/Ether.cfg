CONSTANTS
  Devices = {"network", "slirp"}
  Protocol = {p1}
  RxSize = 3
  ReadSize = 2
  TxSize = 3
SPECIFICATION FairSpec
INVARIANTS OneBuffer
PROPERTIES HandshakeSpec PacketIsRead WriteReturns
CHECK_DEADLOCK FALSE
