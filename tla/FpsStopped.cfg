CONSTANTS
  Pollers = {p1}
  MaxLaunches = 1
  MaxVisits = 1
  MaxFailures = 0
  MaxCrashes = 0
SPECIFICATION FairSpec
PROPERTY StoppedWhenLeft
CHECK_DEADLOCK FALSE
