SPECIFICATION FairSpec
CONSTANTS
  Clients = {c1, c2}
  IterationResults <- MCIterationResults
INVARIANTS
  TypeOK
  CallersViewIsTrue
  NoCallbackOnDestroyedObject
  NoThreadOnDestroyedObject
PROPERTIES
  CallsReturn
  Lifecycle
  DestructorReturns
