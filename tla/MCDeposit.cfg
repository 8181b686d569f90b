\* One user, three counters, gap limit two: one fault (a failed command or a
\* dropped transaction) leaves at most one unused counter, and the database is
\* lost once.  ConfirmBy and ConfirmWindow are beyond MaxHeight: not in force.
SPECIFICATION Spec
CONSTANTS
  Procs = {p1}
  NoProc = noProc
  Missing = missing
  MaxCounter = 3
  Deposits <- MCDeposits
  Descs <- MCDescs
  GapLimit = 2
  RecoveryDelay = 1
  FinalityDepth = 1
  CleanupDelay = 1
  MaxHeight = 3
  ConfirmBy = 9
  ConfirmWindow = 9
  ReclaimsStay = FALSE
  MaxFaults = 1
  MaxDbLosses = 1
  MaxKeyChanges = 1
  LaggyBackend = TRUE
  TwoPartScan = TRUE
INVARIANTS
  TypeOK
  NothingStranded
  DrainedOnce
  NoReuse
