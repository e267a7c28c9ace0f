SPECIFICATION FairSpec
CONSTANTS
  Occurrences = {1}
  Contents = {"a"}
  Absent = Absent
  NoVersion = NoVersion
  PageObjects = 1
  Budget <- FairBudget
PROPERTIES
  Converges
CHECK_DEADLOCK FALSE
