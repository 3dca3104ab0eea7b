SPECIFICATION FairSpec
CONSTANTS
  Plain = {}
  END = END
  ESC = ESC
  ESC_END = ESC_END
  ESC_ESC = ESC_ESC
  Packets <- MCPackets
  Size = 2
INVARIANTS
  InStep
PROPERTIES
  RepairsItself
  PacketsGetThrough
