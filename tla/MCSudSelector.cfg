SPECIFICATION FairSpec
CONSTANTS
  main = main
  c1 = c1
  h1 = h1
  Null = Null
  Main = main
  Created <- MCCreated
  Host <- MCHost
  PageSlots = 2
  MaxDepth = 1
  Loose <- MCLoose
  Signalled <- MCCreated
INVARIANTS TypeOK OwnSelector SlotsNotWasted HandlerNeverTraps SigreturnAllowed GuestTrapped
PROPERTY TrapAnswered
