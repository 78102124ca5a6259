CONSTANTS
  High = High
  Bits = 8
  Machines <- MCMachines
  Normal = Normal
  LowPower = LowPower
  None = None
  Modes = {High, Normal, LowPower}
  Choices <- MCAutoToggled
  Changes <- MCAutoToggled
  Requests = {High}
  Rules = {High}
  Windows = {"hidden", "visible"}
  Resets <- MCBothReset
  Attempts = 1
  MaxLaunches = 2
  MaxMoves = 3
  MaxFaults = 1
  MaxRestarts = 1
SPECIFICATION FairSpec
PROPERTY Converges
