SPECIFICATION FairSpec
CONSTANTS
  main = main
  o1 = o1
  Main = main
  Others <- MCOne
  SkipLimit = 2
  MaxNest = 2
INVARIANTS TypeOK CleanAfter PatchedImpliesActive NoWildJump
PROPERTY LifecycleEnds
CHECK_DEADLOCK FALSE
