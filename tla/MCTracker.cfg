CONSTANTS
  c0 = c0
  c1 = c1
  a = a
  b = b
  NoClient = NoClient
  Clients = {c0, c1}
  Files = {a, b}
  NumSegments <- MCNumSegments
  TaskNo <- MCTaskNo
  Willing <- MCWilling
  OwnedAtStart <- MCOwnedAtStart
  MaxInFlight = 1
  MaxBetween = 1
SPECIFICATION TrackerAlone
INVARIANTS
  TrackerAloneTypeOK
  GroupSlots
  SharersHaveAddresses
  CountedRecordsFollow
PROPERTY TrackerNeverForgets
