SPECIFICATION FairSpec
CONSTANTS
  Rsvps = {r1}
  Messages = {m1, m2}
  DaysAhead = 0
INVARIANTS
  TypeOK
  NothingKilledInTime
  TwiceOnlyIfUnheard
PROPERTIES
  DeadlineDecides
  EveryPostHeardOf
  ShutdownTerminates
CHECK_DEADLOCK FALSE
