CONSTANTS
  Tracks = {v}
  Blocks = {b1, b2, b3}
  NoBlock = NoBlock
  NoOwner = NoOwner
  NoByte = NoByte
  NoTrack = NoTrack
  AllocationLength = 2
  MaxNodes = 3
  MaxBytes = 5
CHECK_DEADLOCK FALSE
SYMMETRY BlockSymmetry
SPECIFICATION UnreadSpec
VIEW WithoutDelivered
INVARIANTS AllocatedCountExact UnreadBytesIntact NoBlockLost
