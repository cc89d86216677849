CONSTANTS
  interest = interest
  requests = requests
  message = message
  reply = reply
  s0 = s0
  s1 = s1
  Periodic = {interest, requests}
  OneShots = {message, reply}
  Delays <- MCDelays
  Senders = {s0, s1}
  PacketSizes = {8, 16, 28, 36}
  BufferSize = 16
  MaxQueue = 1
SPECIFICATION FairLoopSpec
INVARIANTS
  LoopTypeOK
  HeadExists
  WritesInside
  TypeBytesKept
  WholeIfItFits
PROPERTIES
  EarlyOnlyWhenIdle
  ExpiredRunOut
  TimersKeepRunning
  DatagramsAreRead
