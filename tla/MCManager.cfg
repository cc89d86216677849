CONSTANT ConfigFiles <- MCConfigFiles
SPECIFICATION FairManagerSpec
INVARIANTS
  ManagerTypeOK
  ReadsWhatIsWritten
  OwnConfiguration
  OneAtATime
  PortReaches
  NobodyWaitsInVain
PROPERTY MainReturns
CHECK_DEADLOCK FALSE
