--------------------------- MODULE MCProcessLife ---------------------------
(* The process list with symmetric process ids and boxes.                  *)
EXTENDS ProcessLife, TLC

Symmetry == Permutations(Pids) \cup Permutations(Boxes)
=============================================================================
