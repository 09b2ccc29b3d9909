SPECIFICATION FairSpec
CONSTANTS
  s1 = s1
  t1 = t1
  o1 = o1
  dflt = dflt
  track = track
  modal = modal
  common = common
  user = user
  Null = Null
  Sources <- MCSources
  Timers <- MCTimers
  Observers <- MCObservers
  Default = dflt
  Tracking = track
  Modal = modal
  Common = common
  UserModes <- MCUserModes
  Activities <- MCActivities
  Interval <- MCInterval
  FirstDate <- MCFirstDate
  Sites <- MCSites
  Calls <- MCCalls
  MaxClock = 1
  MaxDepth = 2
  MaxStops = 1
INVARIANTS ModeStackMatches NoSignalLost DispatchesOwnMode ReadyIsServed StopEndsOneRun
PROPERTY RunsEnd
