SPECIFICATION FairSpec
CONSTANTS
  QueueCapacity = 2
  Target = 3
  HardCap = 3
  Lens = {0, 1, 2, 4}
  Fallible = {"chunk", "replay_gap", "started", "resized", "closed"}
  MaxSeq = 3
  MaxResizes = 1
  MaxFaults = 2
INVARIANTS
  WriterInv
  NothingUnaccounted
PROPERTIES
  ImplementsLog
  WriterEnds
