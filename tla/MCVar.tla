------------------------------- MODULE MCVar --------------------------------
(* Two variables and two values for the runs of the variable store. *)
EXTENDS VarRecovery
CONSTANTS a, b, v1, v2
Names  == {a, b}
Values == {v1, v2}
\* Every access but those of an append, whose errors leave a part of a variable behind.
AllButAppend == {"mark", "deleteInDeleted", "deleteCurr", "reclaim", "reclaimForOS", "flush"}
Symmetry == Permutations(Values)
=============================================================================
