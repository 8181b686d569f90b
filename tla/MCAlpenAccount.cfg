\* Two commands at once, gas prices that move, one arrival, one failure, one address for `receive`.
SPECIFICATION Spec
CONSTANTS
  Procs = {p1, p2}
  GapLimit = 3
  SatsToWei = 2
  Denomination = 2
  MaxWithdrawal = 2
  UserAmounts = {1}
  Balances = {6}
  Income = 3
  GasPrices = {1, 2}
  TransferGas = 1
  CallGas = 2
  MaxTxs = 2
  MaxIncome = 1
  MaxReceived = 1
  MaxFaults = 1
SYMMETRY Symmetry
INVARIANTS
  AccountInv
  DrainRefusedOnlyIfOvertaken
  PayoutsRevealed
  WithdrawalsReachable
PROPERTIES
  DrainLeavesArrivals
  ReportedStands
