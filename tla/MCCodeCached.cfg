SPECIFICATION Spec
CONSTANTS
    SymbolOrder <- MCSymbolOrder
    Expressions <- MCExpressions
    MaxDirectives = 5
INVARIANTS
    CachedAnswerExact
CHECK_DEADLOCK FALSE
