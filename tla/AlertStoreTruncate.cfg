SPECIFICATION Spec
CONSTANTS
  Delivered = {"o"}
  Local = {"r"}
  Transactions <- FourTransactions
  CompactAt = 3
  FailPoints = {"truncate_sync"}
  DamageKinds = {}
  MaxTxn = 4
  Budget <- ErrorBudget
INVARIANTS
  NothingCommittedIsLost
CHECK_DEADLOCK FALSE
