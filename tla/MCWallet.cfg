\* Either backend, two invocations that may overlap once or one failure. Two blocks in
\* all, each before the restore or after it, in histories that a restore is meant for: a
\* payment two addresses beyond the last is out of the default cache of one and within
\* the gap limit of two. Up to two addresses were given out before the restore.
SPECIFICATION FairSpec
CONSTANTS
  Procs = {p1, p2}
  Backends = {"esplora", "core"}
  GapLimit = 2
  DefaultLookahead = 1
  AnyHistory = FALSE
  MaxAddress = 2
  MaxGiven = 2
  MaxRestored = 2
  MaxBlocks = 2
  MaxFaults = 1
INVARIANTS
  RestoreComplete
  NothingMissed
  ScanIsFull
  ShownIsRevealed
  AddressesFresh
PROPERTIES
  PaymentsFound
