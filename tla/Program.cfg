CONSTANTS
  beside = beside
  drive = drive
  NoPath = NoPath
  NoProgram = NoProgram
  Runs = {r1, r2}
  Programs = {r1, r2}
  Commands = {c1, c2}
  Paths = {beside, drive}
  Fallback <- MCFallback
  MaxMoves <- MCMoves
  MaxFaults = 1
SPECIFICATION FairSpec
INVARIANT TypeOK
INVARIANT OneInstance
INVARIANT LabelAgrees
INVARIANT Reachable
INVARIANT OnlyApprovedRuns
INVARIANT OneLaunch
INVARIANT ChildIsAccountedFor
PROPERTY NoPageNoProgram
PROPERTY StartIsSeen
PROPERTY ClaimComesBack
CHECK_DEADLOCK FALSE
