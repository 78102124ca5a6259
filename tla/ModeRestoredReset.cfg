CONSTANTS
  High = High
  Bits = 8
  Machines <- MCMachines
  Normal = Normal
  LowPower = LowPower
  None = None
  Modes = {High, Normal, LowPower}
  Choices <- MCAutoOnly
  Changes <- MCAutoOnly
  Requests = {}
  Rules = {}
  Windows = {"hidden", "visible"}
  Resets <- MCBothReset
  Attempts = 1
  MaxLaunches = 1
  MaxMoves = 4
  MaxFaults = 0
  MaxRestarts = 0
SPECIFICATION ReapplySpec
PROPERTY RestoredWhenShown
