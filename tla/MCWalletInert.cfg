\* A history with a gap of the limit, on an Esplora server.
SPECIFICATION Spec
CONSTANTS
  Procs = {p1}
  Backends = {"esplora"}
  GapLimit = 2
  DefaultLookahead = 1
  AnyHistory = TRUE
  MaxAddress = 4
  MaxGiven = 4
  MaxRestored = 2
  MaxBlocks = 2
  MaxFaults = 0
INVARIANTS
  LookaheadInert
