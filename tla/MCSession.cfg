SPECIFICATION Spec
CONSTANTS
    ArchOrder <- MCArchOrder
    Empty = ""
    Models <- MCModels
    Stem <- MCStem
    Cnf = {"x86.cnf", "bad/x86_64.cnf"}
    Broken = {"bad/x86_64.cnf"}
    Directory <- MCDirectory
    Sources <- MCSources
    Rule <- MCRule
    Segments <- MCSegments
    Fallback <- MCFallback
    Jobs = {"dead", "cpppc", "cpppc_decision", "interesting", "mergeblockconf"}
    Options <- MCOptions
INVARIANTS
    NullOnlyBy
    JobsAsCommanded
PROPERTIES
    ModelsStay
