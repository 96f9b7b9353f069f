------------------------------ MODULE MCDeadRun ------------------------------
(* TLC's view of DeadRun: fewer pids than files, so that pids come back; a     *)
(* file whose worker also finds the report that the next one writes; and       *)
(* everything a previous run can have left of the first file.                  *)
EXTENDS DeadRun

ReusedPids == 1..2
FewCandidates == <<1, 1, 0>>
SecondExtendsFirst == {<<f, f>> : f \in Files} \cup {<<1, 2>>}
Undead == "kconfig.locally.undead"
Dead == "no_kconfig.globally.dead"
MCTitles == {Undead, Dead}
MCDead == {Dead}
MCLeftovers == {{n \in Names : n[1] = 1}}

\* The first file has no defect, one, or one whose report is skipped.
MCMayFind == {{<<2, 1, Undead>>} \cup F : F \in {{}, {<<1, 1, Undead>>}, {<<1, 1, Dead>>}}}
=============================================================================
