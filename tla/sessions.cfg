SPECIFICATION FairSessionSpec
CONSTANTS
  recording = recording
  running = running
  adhoc = adhoc
  ann = ann
  bob = bob
  shop = shop
  Sessions = {recording, running, adhoc}
  Slots = {100, 101}
  Profiles = {shop}
  Owner <- OwnerOf
  Wants <- Wanted
  MaxSessions = 2
  MaxPerUser = 0
  MaxInterruptions = 1
  None = None
CHECK_DEADLOCK FALSE
INVARIANTS SlotsExclusive ProfilesExclusive NothingOutlives NoSlotLost LocksAlive SessionInv
PROPERTIES SessionsEnd
