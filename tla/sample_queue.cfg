CONSTANTS
  Tracks = {v, a}
  Blocks = {b1, b2, b3, b4}
  NoBlock = NoBlock
  NoOwner = NoOwner
  NoByte = NoByte
  NoTrack = NoTrack
  AllocationLength = 2
  MaxNodes = 3
  MaxBytes = 4
CHECK_DEADLOCK FALSE
SYMMETRY BlockSymmetry
SPECIFICATION Spec
INVARIANTS PoolSound OnlyGapsAbandoned
PROPERTY ImplementsSampleFifo
