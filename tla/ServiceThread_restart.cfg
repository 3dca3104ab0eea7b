SPECIFICATION Spec
CONSTANTS
  Clients = {c1}
  IterationResults <- MCIterationResults
PROPERTY
  StoppedUntilStart
