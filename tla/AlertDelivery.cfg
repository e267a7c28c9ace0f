SPECIFICATION Spec
CONSTANTS
  Occurrences = {1, 2}
  Contents = {"a"}
  Absent = Absent
  NoVersion = NoVersion
  PageObjects = 1
  Budget <- RecoveryBudget
INVARIANTS
  TypeOK
  SequenceNeverReused
  CacheIsPublished
  CaughtUpAgrees
  ArmedIsHeld
  QuietIsInStep
PROPERTIES
  ImplementsCache
CHECK_DEADLOCK FALSE
