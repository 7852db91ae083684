SPECIFICATION FairSpec
CONSTANTS
  BufferCount = 3
  MaxFrames = 6
  Oversize = {3}
  UpcallsMasked = TRUE
  NestedUpcalls = TRUE
INVARIANTS
  TypeOK
  ListsPartitionPool
  FrameConservation
PROPERTIES
  PoolSpec
  ReadyIsDelivered
