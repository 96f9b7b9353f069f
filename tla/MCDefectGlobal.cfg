\* An #if/#else on three models, the second one the main model, the first two
\* with formulas that may fail to parse, the third one incomplete; the analysis
\* or the report of the #if may fail.
CONSTANTS
    ChainLen = 2
    HasElse = TRUE
    NArchs = 3
    Main = 2
    Incomplete = {3}
    MayBreak = {1, 2}
    MayFail = {1}
SPECIFICATION Spec
INVARIANTS
    GlobalOnEveryArch
    LocalHasWitness
    MapTruthful
    TypeIsStrongest
    MusUnsatisfiable
    NothingLost
