SPECIFICATION Spec
CONSTANTS
    SymbolOrder <- MCSymbolOrder
    Expressions <- MCExpressions
    MaxDirectives = 5
INVARIANTS
    FormulaIsPreprocessor
    OneBranchEnabled
    FirstAnswerExact
    CachedChainComplete
    StackBounded
CHECK_DEADLOCK FALSE
