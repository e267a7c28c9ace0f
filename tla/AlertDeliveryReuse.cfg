SPECIFICATION Spec
CONSTANTS
  Occurrences = {1, 2}
  Contents = {"a"}
  Absent = Absent
  NoVersion = NoVersion
  PageObjects = 1
  Budget <- ReuseBudget
INVARIANTS
  SequenceNeverReused
CHECK_DEADLOCK FALSE
