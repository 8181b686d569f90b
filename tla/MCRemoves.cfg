\* No fault at all: a request that waits in the mempool.
SPECIFICATION Spec
CONSTANTS
  Procs = {p1}
  NoProc = noProc
  Missing = missing
  MaxCounter = 2
  Deposits <- MCDeposits
  Descs <- MCDescs
  GapLimit = 2
  RecoveryDelay = 1
  FinalityDepth = 1
  CleanupDelay = 1
  MaxHeight = 5
  ConfirmBy = 9
  ConfirmWindow = 9
  ReclaimsStay = TRUE
  MaxFaults = 0
  MaxDbLosses = 0
  MaxKeyChanges = 0
  LaggyBackend = FALSE
  TwoPartScan = TRUE
PROPERTIES
  RemovesClaimed
