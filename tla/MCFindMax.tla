----------------------------- MODULE MCFindMax -----------------------------
EXTENDS FindMax

(* An array of six elements splits 6 -> 3 + 3 -> (1 + 2) + (1 + 2): seven *)
(* find_max coroutines, with one-element and two-element leaves.          *)
MCMAX == 6
MCVals == {0, 1}
=============================================================================
