----------------------------- MODULE MCRuntime -----------------------------
(* Two VPUs, the main coroutine and two it may spawn; one of these calls  *)
(* the asynchronous VFS API.                                              *)
EXTENDS Runtime, TLC

CONSTANTS m, a, b, w1, w2
=============================================================================
