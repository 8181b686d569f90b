\* Two commands at once on either backend: two coins of 6, payments of 3, rates of
\* 1 and 2 under a cap of 2 (a cap of 0 is refused when the settings are loaded).
SPECIFICATION Spec
CONSTANTS
  Procs = {p1, p2}
  Backends = {"esplora", "core"}
  Lagging = FALSE
  InitialCoins = 2
  CoinValue = 6
  Dust = 2
  Amounts = {3}
  ConfiguredCaps = {0, 2}
  UserRates = {0, 2, 3}
  Estimates = {1, 3, 6}
  MaxTxs = 2
  MaxDrops = 1
SYMMETRY Symmetry
INVARIANTS
  TransfersTypeOK
  TransfersInv
  RefusedOnlyIfOvertaken
  DrainTakesAll
  MoneyConserved
PROPERTIES
  SentStands
  StandingStaysKnown
