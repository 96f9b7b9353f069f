\* Three files, two slots, and only two pids, so that pids are reused.
CONSTANTS
    NFiles = 3
    Threads = 2
    Pids <- ReusedPids
    Candidates <- FewCandidates
    ExtensionOf <- SecondExtendsFirst
    Titles <- MCTitles
    DeadTitles <- MCDead
    SkippedTitles <- MCDead
    MusAnalysis = TRUE
    Leftovers <- MCLeftovers
    MayFind <- MCMayFind
SPECIFICATION DeadSpec
INVARIANTS
    BoundedParallelism
    LostOnlyByReuse
    SuccessIsComplete
    NoMixture
PROPERTIES
    RunEnds
    ImplementsPool
