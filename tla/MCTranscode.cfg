SPECIFICATION Spec
CONSTANTS
  None = None
  Cap = 2
  MaxStaged = 2
  PacketBytes = 2
  Packets = 3
INVARIANTS NothingLost OutputFollowsEncoder EmittedIsWritten NativeNotReused
CHECK_DEADLOCK FALSE
