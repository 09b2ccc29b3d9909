SPECIFICATION Spec
CONSTANTS
  NameMod = 5
  UserBase = 2
  SpecialPorts <- MCSpecial
  CountHalf = 2
  MaxSend = 2
  MaxNext = 3
  MaxMsgs = 2
  GuestNames <- MCGuest
INVARIANTS TypeOK InvalidIffAbsent OrderedDelivery DeadNamesHoldNothing NoSilentLoss
PROPERTY AllocateFresh
