SPECIFICATION FairSpec
CONSTANTS
  Descriptors <- MCDescriptors
  Block = 3
  SendBuffer = 2
  Modulus = 5
INVARIANTS
  CountTellsTheBytes
  NoDescriptorLeaks
PROPERTIES
  OnlyASlowPeerHoldsUp
