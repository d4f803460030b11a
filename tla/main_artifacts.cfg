SPECIFICATION Spec
CONSTANTS
  oldGuest = oldGuest
  newGuest = newGuest
  Elfs <- MCElfs
  Absent = Absent
  Torn = Torn
  MaxRuns = 4
INVARIANTS
  MainInv
  PairSurvives
CHECK_DEADLOCK FALSE
