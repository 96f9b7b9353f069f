---------------------------- MODULE MCSatContext ----------------------------
(* SatContext with two addresses, two variables and two clauses that clash
   under an assumption. *)
EXTENDS SatContext, TLC
CONSTANTS a1, a2, x, y
TwoClauses == {{<<x, TRUE>>}, {<<x, FALSE>>, <<y, FALSE>>}}
Addresses == Permutations(Addr)
=============================================================================
