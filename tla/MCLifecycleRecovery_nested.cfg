SPECIFICATION Spec
CONSTANTS
  main = main
  o1 = o1
  Main = main
  Others <- MCNone
  SkipLimit = 2
  MaxNest = 2
INVARIANT NestedStopsAtGuard
CHECK_DEADLOCK FALSE
