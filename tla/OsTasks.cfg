CONSTANTS
  Absent = Absent
  OnceTimes = {Tonight}
  WeeklyTimes <- MCWeeklyTimes
  Autostarts <- MCAutostarts
  Instants <- MCInstants
  Irregular <- MCIrregular
  MaxOutside = 1
  MaxRestarts = 1
SPECIFICATION Spec
INVARIANT TypeOK
INVARIANT AnswerStands
INVARIANT NextRunIsNext
PROPERTY RepairSpares
