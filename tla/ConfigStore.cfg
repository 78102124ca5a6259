CONSTANTS
  Writers = {w1, w2}
  Readers = {r1}
  Initial = {"absent", "broken", "good"}
  MaxSaves = 3
  MaxFaults = 2
  MaxRestarts = 1
SPECIFICATION Spec
INVARIANT TypeOK
INVARIANT TmpIsOwn
PROPERTY RecordSpec
CHECK_DEADLOCK FALSE
