\* Two invocations at a time, two seeds and passwords, both profiles, and two faults: failures or commands started while another runs.
SPECIFICATION FairSpec
CONSTANTS
  Procs = {p1, p2}
  Seeds = {s1, s2}
  Passwords = {w1, w2}
  Profiles = {mainnet, testnet}
  NoSeed = noSeed
  NoEntry = noEntry
  Unreadable = unreadable
  MaxFaults = 2
INVARIANTS
  NoSeedLost
  OwnWallet
PROPERTIES
  DataOutlivesSeed
  ResetCleans
