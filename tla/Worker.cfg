SPECIFICATION FairSpec
CONSTANTS
  busA = busA
  busB = busB
  Busses = {busA, busB}
  Second = 2
  MaxReads = 2
  Every = 2
  MaxRaises = 2
INVARIANTS
  LineIsWatched
PROPERTIES
  DuePolled
  AlarmsHandled
  MainReturns
CHECK_DEADLOCK FALSE
