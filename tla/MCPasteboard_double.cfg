SPECIFICATION FairSpec
CONSTANTS
  g1 = g1
  hello = hello
  Guest <- MCGuest
  Poller = poller
  GuestText <- MCTexts
  Empty = Empty
  None = None
  MaxCopies = 1
  MaxCount <- MCMaxCount_double
  MaxFails = 0
INVARIANT PollerSkipsOwnWrites
