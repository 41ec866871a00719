SPECIFICATION FairStepping
CONSTANTS
  shop = shop
  Origins = {shop}
  Blank = Blank
  Unreadable = Unreadable
  NoOrigin = NoOrigin
  Stray = Stray
  Stateless = Stateless
  Workflows <- MCWorkflows
  MaxTabs = 3
  MaxMoves = 2
  Timeout = 4
  Quiet = 2
CHECK_DEADLOCK FALSE
INVARIANTS WrongTabNeverSilent StateAsAsked QuietWhenSettled
PROPERTY RunEnds
