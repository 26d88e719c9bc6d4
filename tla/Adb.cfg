CONSTANTS
  Inputs = {{"key"}, {"key", "move"}, {"button", "move"}, {"move", "switch"}, {"button", "switch"}}
  Key = {k1, k2}
  Button = {b1}
  Size = 3
  MaxMotion = 3
  Position = {1, 2}
  PacketRange = 4
SPECIFICATION Spec
INVARIANTS MotionConserved NoInputStranded
PROPERTIES EventsKept
