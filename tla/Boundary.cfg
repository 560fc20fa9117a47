SPECIFICATION Spec
CONSTANTS
  Placeholders = {"CHANGE_ME"}
  GoodKeys = {"key1"}
  HostBodies <- MCHostBodies
  HostPatches <- MCHostPatches
  ProfileBodies <- MCProfileBodies
  ProfilePatches <- MCProfilePatches
  Names <- MCNames
  KeyTags <- MCKeyTags
  Pems <- MCPems
  Dims = {0, 1, 4096, 4097}
  MasterKeys = {"mk1", "mk2"}
  PrivateKeys = {"p1"}
  Disabled = "disabled"
  MaxTags = 2
  NoRow = NoRow
  Owner = "owner"
  Viewers = {"owner", "other"}
  PageSize = 1
  LimitCeiling = 4
  HardLoopCap = 2
  MaxChunkSeq = 3
  MaxLoads = 2
  c1 = c1
  c2 = c2
  Clients = {c1, c2}
  ClientFrames <- MCClientFrames
  Base = 4
  Magic = 3
  SeqWidth = 1
  LenWidth = 1
  MAX_PAYLOAD_LEN = 1
  OutputData <- MCOutputData
  MIN_DIM = 1
  MAX_DIM = 2
  QueueCap = 1
  MaxSent = 2
  MaxOutput = 1
INVARIANTS
  BootInv
  RowsInv
  ReplayInv
  ReplayComplete
  InputExact
  SocketInv
PROPERTY
  ShutdownEnds
CHECK_DEADLOCK FALSE
