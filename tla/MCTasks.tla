------------------------------ MODULE MCTasks ------------------------------
(* Tasks on small sets of model values. *)
EXTENDS Tasks, TLC

Symmetry == Permutations(Task) \union Permutations(Worker)
              \union Permutations(Owner \ {Root})
=============================================================================
