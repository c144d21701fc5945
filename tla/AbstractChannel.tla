-------------------------- MODULE AbstractChannel --------------------------
(***************************************************************************)
(* What a libcoroc channel promises its users, with no locks, quanta or    *)
(* scheduler: each channel holds at most Cap[c] values in a FIFO buffer,   *)
(* and a completed send either enters that buffer behind the values        *)
(* already in it or is handed to a receiver directly.  A direct handoff    *)
(* happens only when the buffer is empty (a receiver was waiting) or full  *)
(* (a sender was waiting); in the second case the value overtakes the      *)
(* buffered ones, which is how src/channel.c behaves (see channel_fifo).   *)
(* Every value is accepted once and received at most once.                 *)
(***************************************************************************)
EXTENDS Naturals, Sequences

CONSTANTS
    Chan,       \* channels
    Cap,        \* Cap[c]: capacity of the buffer of c
    Val         \* values that may be sent

VARIABLES
    buf,        \* buf[c]: the buffered values of c, oldest first
    log,        \* log[c]: the values received from c, in order
    accepted    \* the values whose send has completed

vars == <<buf, log, accepted>>

Init ==
    /\ buf = [c \in Chan |-> <<>>]
    /\ log = [c \in Chan |-> <<>>]
    /\ accepted = {}

(* A send completes into the buffer, behind the values already there.     *)
Put(c, v) ==
    /\ v \notin accepted
    /\ Len(buf[c]) < Cap[c]
    /\ buf' = [buf EXCEPT ![c] = Append(@, v)]
    /\ accepted' = accepted \cup {v}
    /\ UNCHANGED log

(* A receive takes the oldest buffered value.                              *)
Get(c) ==
    /\ buf[c] # <<>>
    /\ log' = [log EXCEPT ![c] = Append(@, Head(buf[c]))]
    /\ buf' = [buf EXCEPT ![c] = Tail(@)]
    /\ UNCHANGED accepted

(* A sender and a receiver meet: the value bypasses an empty or a full     *)
(* buffer.                                                                 *)
Handoff(c, v) ==
    /\ v \notin accepted
    /\ buf[c] = <<>> \/ Len(buf[c]) = Cap[c]
    /\ log' = [log EXCEPT ![c] = Append(@, v)]
    /\ accepted' = accepted \cup {v}
    /\ UNCHANGED buf

Next == \E c \in Chan : Get(c) \/ \E v \in Val : Put(c, v) \/ Handoff(c, v)

Spec == Init /\ [][Next]_vars

=============================================================================
