SPECIFICATION Spec
CONSTANTS
    Size = 4
    Prev <- MCPrev
    Lookalikes = {}
    Assignments <- MCModelAssignments
    Analyzers = {"simple"}
INVARIANTS
    StatementCoverage
CHECK_DEADLOCK FALSE
