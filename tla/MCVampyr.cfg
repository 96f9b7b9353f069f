SPECIFICATION VampyrFairSpec
CONSTANTS
    Size = 4
    Prev <- MCPrev
    Lookalikes = {}
    Assignments <- MCAssignments
    Analyzers = {"simple", "min"}
    Leftovers <- MCLeftovers
    Faulty <- MCFaulty
    OtherFlags <- MCOtherFlags
    Warnings <- MCWarnings
INVARIANTS
    StatementCoverage
    NoneRedundant
    GreedyMaximal
    DiskIsThisRun
    CrashExplained
    FirstMessageReported
PROPERTIES
    Ends
CHECK_DEADLOCK FALSE
