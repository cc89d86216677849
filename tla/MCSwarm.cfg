CONSTANTS
  c0 = c0
  c1 = c1
  a = a
  NoClient = NoClient
  Clients = {c0, c1}
  Files = {a}
  NumSegments <- MCNumSegments
  TaskNo <- MCTaskNo
  Willing <- MCWilling
  OwnedAtStart <- MCOwnedAtStart
  UninitSharers <- MCUninitSharers
  MaxInFlight = 1
  MaxBetween = 3
  GroupUpdateLimit = 2
  ProgressLimit = 1
  Batch = 8
SPECIFICATION FairSpec
INVARIANTS
  SwarmTypeOK
  NoSegmentBeforeSize
  OwnedIsComplete
PROPERTIES
  SharesFiles
  RepliesRunOut
  EveryoneLeaves
