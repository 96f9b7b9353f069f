CONSTANTS
    ChainLen = 2
    HasElse = TRUE
    NArchs = 2
    Main = 1
    Incomplete = {}
    MayBreak = {}
    MayFail = {}
SPECIFICATION Spec
INVARIANT
    FormulaCausesDefect
