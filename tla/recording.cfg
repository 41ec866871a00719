SPECIFICATION RecorderSpec
CONSTANTS
  ann = ann
  bob = bob
  p1 = p1
  p2 = p2
  Users = {ann, bob}
  Recorder = ann
  Passes = {p1, p2}
  NoPass = NoPass
  MaxTabs = 1
  MaxActions = 2
  MaxWire = 1
  MaxAsked = 3
  MaxVisits = 1
SYMMETRY PassSymmetry
CHECK_DEADLOCK FALSE
INVARIANTS RecorderTypeOK FinalClosesRecording SettledPagesAgree
