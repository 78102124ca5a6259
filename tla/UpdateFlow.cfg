CONSTANTS
  Checks = {c1, c2}
  Alerters = {c1}
  MaxVersion = 3
  Unusable = {2}
  MaxCommands = 4
  MaxFaults = 1
  MaxToggles = 1
  MaxRestarts = 1
SPECIFICATION FairSpec
INVARIANT NeverOlder
INVARIANT OfferedIsPending
INVARIANT AlertOnce
PROPERTY ButtonsComeBack
CHECK_DEADLOCK FALSE
