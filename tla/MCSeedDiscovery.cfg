\* Any of five counters has history, the gap limit is two: searches of one to four
\* batches.  Keys can be derived for three batches, so the panic is reached as well.
\* The search ends, and so does the behaviour: no deadlock check.
SPECIFICATION FairSpec
CONSTANTS
  GapLimit = 2
  UsedLimit = 5
  MaxU32 = 9
  MaxIndex = 7
INVARIANTS
  SearchInv
  FindsReachable
PROPERTIES
  Terminates
CHECK_DEADLOCK FALSE
