---------------------------- MODULE MCChannel ----------------------------
(* Instantiates Channel for TLC: channel a is buffered (bufsize 2), b is  *)
(* a rendezvous channel (bufsize 0).                                      *)
EXTENDS Channel

CONSTANTS t1, t2, t3, a, b

MCCap == [c \in {a, b} |-> IF c = a THEN 2 ELSE 0]

SendOp(c, blk) == [kind |-> "send", chan |-> c, block |-> blk]
RecvOp(c, blk) == [kind |-> "recv", chan |-> c, block |-> blk]
SelOp(s, blk)  == [kind |-> "select", set |-> s, block |-> blk]
SelSend(c) == [type |-> "send", chan |-> c]
SelRecv(c) == [type |-> "recv", chan |-> c]

(* Operations per coroutine: t1 and t2 three, t3 two selects.            *)
MCMaxOps == [t \in {t1, t2, t3} |-> IF t = t3 THEN 2 ELSE 3]

(* The lock of a is at the lower address. *)
MCLockOrder == <<a, b>>

(* t1 produces; t2 consumes from a and polls both channels with a select  *)
(* registered in the order b, a; t3 selects over both channels.          *)
MCProg ==
    [t \in {t1, t2, t3} |->
        IF t = t1 THEN {SendOp(a, TRUE), SendOp(b, TRUE), SendOp(b, FALSE)}
        ELSE IF t = t2 THEN {RecvOp(a, TRUE), RecvOp(a, FALSE),
                              SelOp(<<SelRecv(b), SelRecv(a)>>, FALSE)}
        ELSE {SelOp(<<SelRecv(a), SelRecv(b)>>, TRUE),
              SelOp(<<SelSend(b), SelRecv(a)>>, TRUE),
              SelOp(<<SelSend(a), SelRecv(b)>>, FALSE)}]

(* Spec E2: one producer fills the buffered channel a and blocks, one   *)
(* consumer drains it.                                                   *)
MCProgFIFO ==
    [t \in {t1, t2, t3} |->
        IF t = t1 THEN {SendOp(a, TRUE)}
        ELSE IF t = t2 THEN {RecvOp(a, TRUE)}
        ELSE {}]

=============================================================================
