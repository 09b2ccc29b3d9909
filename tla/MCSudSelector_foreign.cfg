SPECIFICATION FairSpec
CONSTANTS
  main = main
  c1 = c1
  h1 = h1
  Null = Null
  Main = main
  Created <- MCCreated
  Host <- MCHost
  PageSlots = 2
  MaxDepth = 0
  Loose = {}
  Signalled <- MCCreated
INVARIANT SigreturnAlways
