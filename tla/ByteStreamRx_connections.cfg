SPECIFICATION FairSpec
CONSTANTS
  Readers = {r1}
  Capacity = 2
  Value <- MeasuredWindows
  Default <- NoTraffic
  kMaxReadTimeouts = 1
  MaxBytes = 1
  MaxAccepts = 2
INVARIANTS
  TypeOK
  NoConnectionLeaks
  ReadsAConnection
  EveryByteInOneWindow
PROPERTIES
  KeepsTheRecentWindows
  IterationsEnd
  LostPeerIsDropped
