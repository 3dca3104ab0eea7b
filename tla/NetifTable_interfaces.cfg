SPECIFICATION FairSpec
CONSTANTS
  eth = eth
  lo = lo
  a = a
  b = b
  Threads = {t1, t2}
  Names <- MCNames
  Values <- MCValues
  Invalid = invalid
  Readings <- MCReadings
  MaxReadings = 3
INVARIANTS
  OwnUpdateIsSeen
  PresentIsListed
PROPERTIES
  AtomicTable
  UpdatesReturn
