------------------------------- MODULE MCVfs -------------------------------
(* VFS workers and coroutines submitting two operations each.          *)
EXTENDS Vfs, TLC

CONSTANTS w1, w2, c1, c2, c3

MCSymmetry == Permutations({c1, c2, c3})
=============================================================================
