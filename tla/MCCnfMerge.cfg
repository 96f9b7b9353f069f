SPECIFICATION BuildSpec
CONSTANTS
  m = m
  n = n
  w = w
  Name = {m, n, w}
  Ignored = {w}
  MaxVar = 7
  ClausesOf <- FewClauses
  Jobs <- AllJobs
INVARIANTS NoCapture NamesInSync FormulaCnf
CHECK_DEADLOCK FALSE
