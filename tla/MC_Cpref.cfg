SPECIFICATION Spec
CONSTANTS
  Size = 4
  Refs = {1, 3, 4, 6}
  Targets <- MCTargets
  Totals = {3, 8, 9}
  SearchFrom <- MCSearchFrom
INVARIANTS TypeOK MetasBound GeExact LeExact
PROPERTIES SearchesEnd StreamSpec
CHECK_DEADLOCK FALSE
