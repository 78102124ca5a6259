CONSTANTS
  High = High
  Bits = 8
  Machines <- MCMachines
  Normal = Normal
  LowPower = LowPower
  None = None
  Modes = {High, Normal, LowPower}
  Choices <- MCAutoOnly
  Changes <- MCAutoOnly
  Requests = {High}
  Rules = {High}
  Windows = {"hidden", "visible"}
  Resets = {}
  Attempts = 2
  MaxLaunches = 2
  MaxMoves = 3
  MaxFaults = 2
  MaxRestarts = 1
SPECIFICATION Spec
INVARIANT TypeOK
INVARIANT LastRequestWins
INVARIANT DecisionNotStale
INVARIANT Coherent
INVARIANT MasksFit
INVARIANT CoresAsPromised
INVARIANT ReadBackAgrees
PROPERTY RegisterSpec
