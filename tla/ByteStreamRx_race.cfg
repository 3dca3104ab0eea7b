SPECIFICATION Spec
CONSTANTS
  Readers = {r1}
  Capacity = 2
  Value <- MeasuredWindows
  Default <- NoTraffic
  kMaxReadTimeouts = 1
  MaxBytes = 2
  MaxAccepts = 2
INVARIANT
  NoReaderAborts
