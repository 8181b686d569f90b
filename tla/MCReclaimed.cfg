\* Deposits confirm by height 2, so that all of them mature by height 4.
SPECIFICATION FairSpec
CONSTANTS
  Procs = {p1}
  NoProc = noProc
  Missing = missing
  MaxCounter = 2
  Deposits <- MCDeposits
  Descs <- MCDescs
  GapLimit = 2
  RecoveryDelay = 1
  FinalityDepth = 1
  CleanupDelay = 1
  MaxHeight = 4
  ConfirmBy = 2
  ConfirmWindow = 9
  ReclaimsStay = FALSE
  MaxFaults = 1
  MaxDbLosses = 1
  MaxKeyChanges = 0
  LaggyBackend = FALSE
  TwoPartScan = TRUE
PROPERTIES
  EventuallyReclaimed
