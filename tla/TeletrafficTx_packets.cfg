SPECIFICATION Spec
CONSTANTS
  eth = eth
  m = m
  Names <- MCNames
  Macs <- MCMacs
  Interface = eth
  Zeroes = zeroes
  Unset = unset
  Observers = {o1, o2}
  MaxPackets = 2
INVARIANTS
  SendsWhatItHas
  NumbersTellTheLoss
  StatsAreCurrent
