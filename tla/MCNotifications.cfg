SPECIFICATION FairSpec
CONSTANTS
  Nil = Nil
  Thread = {t1, t2}
  Pollers = {t2}
  Entry <- MCEntry
  Posted <- MCPosted
  Removed <- MCRemoved
  SelName = {"changed:", "other:"}
  OwnSel = {"own", "own2"}
  NameOf <- MCNameOf
  Boot <- MCBoot
  Implements <- MCImplements
  MaxCalls = 5
  MaxDepth = 2
CHECK_DEADLOCK FALSE
INVARIANTS DeliveryWindow OneCenter
PROPERTY CallsReturn
