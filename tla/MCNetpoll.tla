----------------------------- MODULE MCNetpoll -----------------------------
(* Two coroutines, each waiting up to MaxWaits times on the network.       *)
EXTENDS Netpoll, TLC

CONSTANTS c1, c2

MCSymmetry == Permutations({c1, c2})
=============================================================================
