CONSTANTS
  High = High
  Bits = 8
  Machines <- MCMachines
  Normal = Normal
  LowPower = LowPower
  None = None
  Modes = {High, Normal, LowPower}
  Choices <- MCAutoOrDefault
  Changes = {}
  Requests = {High}
  Rules = {High}
  Windows = {"hidden", "visible"}
  Resets = {}
  Attempts = 1
  MaxLaunches = 1
  MaxMoves = 5
  MaxFaults = 0
  MaxRestarts = 0
SPECIFICATION FairSpec
PROPERTY RestoredWhenShown
PROPERTY RuleDoesNotLinger
PROPERTY DefaultApplied
