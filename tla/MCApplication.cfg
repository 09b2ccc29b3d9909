SPECIFICATION FairSpec
CONSTANTS
  main = main
  w1 = w1
  x1 = x1
  x2 = x2
  Null = Null
  Main = main
  Workers <- MCWorkers
  XIDs <- MCXIDs
  Kinds <- MCKinds
  MaxQueue = 2
  MaxRuns = 2
INVARIANTS MapsInverse NoBadWindow CloseNotLost IsRunningTruthful
PROPERTIES TerminateEnds CloseEnds
