SPECIFICATION Spec
CONSTANTS
  Pids = {p, q}
  Interfaces = {i, j}
  Namespaces = {m, n}
  MaxClock = 2
SYMMETRY Symmetry
INVARIANTS
  ConfiguredHasRules
  StaleRulesGone
PROPERTY
  OnlyOwnerRemoves
CHECK_DEADLOCK FALSE
