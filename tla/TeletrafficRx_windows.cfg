SPECIFICATION FairSpec
CONSTANTS
  Readers = {r1}
  Capacity = 2
  Value <- MCWindow
  Default <- NoTraffic
  Length = 2
  Lengths <- MCLengths
  MaxPackets = 2
  IntRange = 8
INVARIANTS
  TypeOK
  NoReaderAborts
  OneView
  CountedWindowsExist
  SniffsAnOpenDevice
  EveryPacketInOneWindow
PROPERTIES
  KeepsTheMostRecent
  WindowsEnd
  RatesReturn
