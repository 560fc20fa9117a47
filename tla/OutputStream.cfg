SPECIFICATION FairSpec
CONSTANTS
  Clients = {c1}
  MaxFrames = 2
  MaxBytes = 3
  Capacity = 2
  Lens = {1, 2}
  MaxSeq = 5
INVARIANTS
  StreamInv
  ByteCountExact
  ReplayAnswerExact
  ContinuousStream
PROPERTY
  LiveFrameDelivered
