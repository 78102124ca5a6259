CONSTANTS
  Pollers = {p1, p2}
  MaxLaunches = 2
  MaxVisits = 2
  MaxFailures = 1
  MaxCrashes = 1
SYMMETRY Symmetry
SPECIFICATION Spec
INVARIANT SampledSessionLives
INVARIANT LiveTraceIsHeld
CHECK_DEADLOCK FALSE
