\* Two invocations at once, stale tips included.  Delay 1, finality 0 and cleanup
\* 1: a request is in a block before its descriptor is cleaned up (ConfirmWindow
\* 2 is the cleanup height), and reclaims stay in the mempool.
SPECIFICATION Spec
CONSTANTS
  Procs = {p1, p2}
  NoProc = noProc
  Missing = missing
  MaxCounter = 2
  Deposits <- MCDeposits
  Descs <- MCDescs
  GapLimit = 2
  RecoveryDelay = 1
  FinalityDepth = 0
  CleanupDelay = 1
  MaxHeight = 3
  ConfirmBy = 9
  ConfirmWindow = 2
  ReclaimsStay = TRUE
  MaxFaults = 1
  MaxDbLosses = 0
  MaxKeyChanges = 0
  LaggyBackend = FALSE
  TwoPartScan = TRUE
INVARIANTS
  DescriptorKept
  DbInv
PROPERTIES
  CounterNeverRollsBack
  ImplementsAllocator
