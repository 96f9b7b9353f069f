SPECIFICATION Spec
CONSTANTS
  a1 = a1
  a2 = a2
  x = x
  y = y
  Addr = {a1, a2}
  NoAddr = NoAddr
  Var = {x, y}
  Clause <- TwoClauses
  MaxClauses = 2
  MaxAssumed = 1
SYMMETRY Addresses
INVARIANTS AnswersOwn
PROPERTIES TableIsModel
