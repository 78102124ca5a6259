CONSTANTS
  Pollers = {p1}
  MaxLaunches = 2
  MaxVisits = 2
  MaxFailures = 1
  MaxCrashes = 1
SPECIFICATION FairSpec
PROPERTY FollowsGame
CHECK_DEADLOCK FALSE
