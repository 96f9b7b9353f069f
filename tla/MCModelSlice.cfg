SPECIFICATION FairSpec
CONSTANTS
  a = a
  b = b
  c = c
  absent = absent
  macro = macro
  free = free
  Item = {a, b, c, absent, macro, free}
  Known = {a, b, c}
  Space = {a, b, c, absent, macro, free}
  Defined = {macro}
  Free = {free}
  Graphs <- AllGraphs
  Expressions <- Singles
  Lists <- ShortLists
INVARIANTS SliceExact CombinedExact ListsAsserted MissingExact
PROPERTIES Returns
CHECK_DEADLOCK FALSE
