\* Two commands at once over any configuration, and an edit; one setting that
\* `network use` checks may be wrong and one that it does not.
SPECIFICATION Spec
CONSTANTS
  Procs = {p1, p2}
  Networks = {"bitcoin", "signet", "regtest"}
  Mistakes <- MCMistakes
  Missing = missing
  Empty = empty
  Torn = torn
  MaxEdits = 1
SYMMETRY Symmetry
INVARIANTS
  ConfigWhole
  EditsSurvive
  AcceptedLoads
  NetworksApart
  OwnDirectory
