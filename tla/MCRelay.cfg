CONSTANTS
  c0 = c0
  c1 = c1
  c2 = c2
  a = a
  NoClient = NoClient
  Clients = {c0, c1, c2}
  Files = {a}
  NumSegments <- MCNumSegments
  TaskNo <- MCTaskNo
  Willing <- MCWilling
  OwnedAtStart <- MCOwnedAtStart
  UninitSharers <- MCUninitSharers
  MaxInFlight = 1
  MaxBetween = 1
  GroupUpdateLimit = 1
  ProgressLimit = 1
  Batch = 8
SPECIFICATION Spec
INVARIANTS
  SourcesCanServe
  NoBlankSegments
