CONSTANTS
  c0 = c0
  c1 = c1
  a = a
  b = b
  NoClient = NoClient
  Clients = {c0, c1}
  Files = {a, b}
  NumSegments <- MCNumSegments
  TaskNo <- MCTaskNo
  Willing <- MCWilling
  OwnedAtStart <- MCOwnedAtStart
  UninitSharers <- MCUninitSharers
  MaxInFlight = 1
  MaxBetween = 1
  GroupUpdateLimit = 1
  ProgressLimit = 1
  Batch = 8
SPECIFICATION Spec
INVARIANT OnlyWillingListed
