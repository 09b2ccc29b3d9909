SPECIFICATION Spec
CONSTANTS
  main = main
  o1 = o1
  Main = main
  Others <- MCOne
  SkipLimit = 2
  MaxNest = 2
INVARIANT FalseMeansCrashed
CHECK_DEADLOCK FALSE
