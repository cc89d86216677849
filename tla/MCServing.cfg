CONSTANTS
  c0 = c0
  c1 = c1
  a = a
  NoClient = NoClient
  Clients = {c0, c1}
  Files = {a}
  NumSegments <- MCNumSegments
  TaskNo <- MCTaskNo
  Willing <- MCWilling
  OwnedAtStart <- MCOwnedAtStart
  UninitSharers <- MCUninitSharers
  MaxInFlight = 1
  MaxBetween = 1
  GroupUpdateLimit = 2
  ProgressLimit = 4
  Batch = 8
SPECIFICATION FairSpec
PROPERTY NoExitWhileServing
