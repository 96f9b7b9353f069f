-------------------------- MODULE MCCodeConstraints --------------------------
(* Two symbols; conditions on one of them or on both.                        *)
EXTENDS CodeConstraints

A == [sym |-> "A", pos |-> TRUE]
NotB == [sym |-> "B", pos |-> FALSE]

MCSymbolOrder == <<"A", "B">>
MCExpressions == {{A}, {A, NotB}}
=============================================================================
