---------------------------- MODULE MCKeyedColumn --------------------------
(***************************************************************************)
(* A keyed column of up to three rows whose application edits it twice, in *)
(* one turn or in two, with one or two edits in each journal.              *)
(***************************************************************************)
EXTENDS KeyedColumn, TLC

CONSTANTS a, b, c

MCKeys == {a, b, c}
MCModal == {}
MCSymmetry == Permutations(MCKeys)
=============================================================================
