SPECIFICATION Spec
CONSTANTS
  Milli = 2
  MaxTime = 10
  WindowDuration = 1
  IntRange = 8
PROPERTY
  RestartGoesOn
