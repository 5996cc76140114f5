------------------------------- MODULE MCFtw --------------------------------
(***************************************************************************)
(* Blocks and contents for model checking Ftw.                             *)
(***************************************************************************)
EXTENDS FtwRecovery

CONSTANTS x1, x2, old, new

OneBlock  == {x1}
TwoBlocks == {x1, x2}
Contents  == {old, new}
=============================================================================
