CONSTANTS
  Delays <- MCDelays
  Clock <- MCClock
  MaxHandles = 3
SPECIFICATION TimersSpec
INVARIANTS
  TimersTypeOK
  KeptSorted
  EachTimerOnce
  TimeLeftIsRight
PROPERTY ImplementsService
