------------------------------ MODULE Channel ------------------------------
(***************************************************************************)
(* Channels and select of libcoroc (src/channel.c), with the parts of the  *)
(* VPU layer (src/src/vpu.c) a channel operation drives: vpu_suspend and   *)
(* core_wait (park the caller, releasing the channel lock only after the   *)
(* context save) and vpu_ready (make a waiter runnable).                   *)
(*                                                                         *)
(* A channel is a ring buffer (ring, sendx, recvx, nbuf) and two wait      *)
(* queues of quanta.  A quantum is a parked operation: its coroutine, the  *)
(* select bit, and for a send the value it offers.  The ready queues of    *)
(* the VPUs are abstracted to one sequence runq, from which any entry may  *)
(* be elected (core_sched looks at the local, global and stolen queues);   *)
(* the concrete queues are the subject of module Scheduler.                *)
(*                                                                         *)
(* Every channel operation runs with the channel's spin lock held and      *)
(* signals masked, so it is one atomic step; the lock stays held from the  *)
(* step that parks the caller until the scheduler runs core_wait.          *)
(***************************************************************************)
EXTENDS Naturals, Sequences, FiniteSets, SequencesExt

CONSTANTS
    Co,       \* coroutines (model values)
    Chan,     \* channels (model values)
    Cap,      \* Cap[c]: the bufsize of channel_allocate(elemsize, bufsize)
    Prog,     \* Prog[t]: the set of operations coroutine t may issue
    MaxOps,   \* MaxOps[t]: bound on the operations coroutine t issues
    LockOrder,\* the canonical order of the channel locks (by address)
    NIL

(* A value sent by coroutine t as its n-th operation is <<t, n>>, so that  *)
(* values are distinct and carry their producer's program order.          *)
Val == UNION {{t} \X (0 .. MaxOps[t]) : t \in Co}

(* One registered operation of a select set (struct elem). *)
Elem == [type : {"send", "recv"}, chan : Chan]

ASSUME
    /\ Cap \in [Chan -> Nat]
    /\ MaxOps \in [Co -> Nat]
    /\ NIL \notin Co \cup Chan
    /\ LockOrder \in Seq(Chan) /\ Len(LockOrder) = Cardinality(Chan)

VARIABLES
    ring,      \* ring[c][i]: slot i of chan->buf
    sendx,     \* chan->sendx
    recvx,     \* chan->recvx
    nbuf,      \* chan->nbuf
    sendq,     \* chan->send_que: sequence of quanta
    recvq,     \* chan->recv_que: sequence of quanta
    lock,      \* lock[c]: coroutine holding chan->lock, or NIL
    status,    \* coroutine->status
    pc,        \* where the coroutine is: "user", "chain" (taking the lock chain
               \* of a select), "core_wait", "parked", "sel_resume"
    want,      \* want[t]: the select t is taking the lock chain for, or NIL
    sel,       \* sel[t]: the select set t is blocked in, or <<>>
    qtag,      \* coroutine->qtag: NIL or the channel that claimed it
    runq,      \* the VPU ready queues, abstracted to one sequence
    nops,      \* operations issued per coroutine (bounded by MaxOps)
    done,      \* done[t]: channels whose op completed t's current park (history)
    log,       \* log[c]: values received from c, in order (history)
    accepted   \* values whose send has completed (history)

chanVars == <<ring, sendx, recvx, nbuf, sendq, recvq>>
coVars   == <<status, pc, want, sel, qtag, runq, nops, done>>
vars     == <<chanVars, lock, coVars, log, accepted>>

Quantum == [sel : BOOLEAN, co : Co, val : Val \cup {NIL}]

-----------------------------------------------------------------------------
(* Helpers                                                                  *)

(* Bug variant: fetch_quantum without the CAS on qtag. *)
ClaimableNoCAS(q) == TRUE

(* fetch_quantum's test: a plain quantum is always taken; a select quantum *)
(* only if TSC_CAS(&q->thread->qtag, NULL, q->chan) succeeds.              *)
Claimable(q) == ~q.sel \/ qtag[q.co] = NIL

(* fetch_quantum: the index of the quantum it returns, 0 for NULL.  Every  *)
(* quantum before it is removed by queue_rem and dropped.                  *)
FetchQuantum(Q) == SelectInSeq(Q, Claimable)

(* What fetch_quantum leaves in the queue after returning index i. *)
AfterFetch(Q, i) == IF i = 0 THEN <<>> ELSE SubSeq(Q, i + 1, Len(Q))

(* The successful CAS on the claimed coroutine's qtag. *)
Claim(q, c) ==
    /\ qtag' = IF q.sel THEN [qtag EXCEPT ![q.co] = c] ELSE qtag
    /\ done' = [done EXCEPT ![q.co] = @ \cup {c}]

(* Bug variant: vpu_ready that forgets to link the coroutine. *)
VpuReadyNoLink(u) ==
    /\ status' = [status EXCEPT ![u] = "READY"]
    /\ runq' = runq

(* vpu_ready: status READY, link onto a ready queue. *)
VpuReady(u) ==
    /\ status' = [status EXCEPT ![u] = "READY"]
    /\ runq' = Append(runq, u)

(* The values held in the ring buffer of c, oldest first. *)
Buffered(c) == [i \in 1 .. nbuf[c] |-> ring[c][(recvx[c] + i - 1) % Cap[c]]]

-----------------------------------------------------------------------------
(* __channel_send and __channel_recv, for a caller that has the lock of c. *)
(* RQ and SQ are the wait queues as the caller found them (select may      *)
(* already have dropped stale quanta of other channels).                   *)

(* Fast handoff to a parked receiver. *)
SendHandoff(c, v, RQ, SQ) ==
    LET i == FetchQuantum(RQ[c])
        q == RQ[c][i]
    IN /\ i > 0
       /\ recvq' = [RQ EXCEPT ![c] = AfterFetch(@, i)]
       /\ sendq' = SQ
       /\ Claim(q, c)
       /\ log' = [log EXCEPT ![c] = Append(@, v)]
       /\ accepted' = accepted \cup {v}
       /\ VpuReady(q.co)
       /\ UNCHANGED <<ring, sendx, recvx, nbuf>>

(* Bug variant: the buffer path taken without first looking for a       *)
(* parked receiver.                                                      *)
SendBufferNoWaiterCheck(c, v, RQ, SQ) ==
    /\ nbuf[c] < Cap[c]
    /\ recvq' = RQ
    /\ sendq' = SQ
    /\ ring' = [ring EXCEPT ![c][sendx[c]] = v]
    /\ sendx' = [sendx EXCEPT ![c] = (@ + 1) % Cap[c]]
    /\ nbuf' = [nbuf EXCEPT ![c] = @ + 1]
    /\ accepted' = accepted \cup {v}
    /\ UNCHANGED <<recvx, log, status, runq, qtag, done>>

(* Bug variant: sendx advanced without the wrap-around. *)
SendBufferNoWrap(c, v, RQ, SQ) ==
    /\ FetchQuantum(RQ[c]) = 0
    /\ nbuf[c] < Cap[c]
    /\ recvq' = [RQ EXCEPT ![c] = <<>>]
    /\ sendq' = SQ
    /\ ring' = [ring EXCEPT ![c][sendx[c]] = v]
    /\ sendx' = [sendx EXCEPT ![c] = @ + 1]
    /\ nbuf' = [nbuf EXCEPT ![c] = @ + 1]
    /\ accepted' = accepted \cup {v}
    /\ UNCHANGED <<recvx, log, status, runq, qtag, done>>

(* No receiver: copy into the slot at sendx. *)
SendBuffer(c, v, RQ, SQ) ==
    /\ FetchQuantum(RQ[c]) = 0
    /\ nbuf[c] < Cap[c]
    /\ recvq' = [RQ EXCEPT ![c] = <<>>]
    /\ sendq' = SQ
    /\ ring' = [ring EXCEPT ![c][sendx[c]] = v]
    /\ sendx' = [sendx EXCEPT ![c] = (@ + 1) % Cap[c]]
    /\ nbuf' = [nbuf EXCEPT ![c] = @ + 1]
    /\ accepted' = accepted \cup {v}
    /\ UNCHANGED <<recvx, log, status, runq, qtag, done>>

(* The two paths of __channel_send that return CHAN_SUCCESS, in order. *)
SendPath(c, v, RQ, SQ) ==
    \/ SendHandoff(c, v, RQ, SQ)
    \/ SendBuffer(c, v, RQ, SQ)

(* Fast handoff from a parked sender: take the value its quantum offers. *)
RecvHandoff(c, RQ, SQ) ==
    LET i == FetchQuantum(SQ[c])
        q == SQ[c][i]
    IN /\ i > 0
       /\ sendq' = [SQ EXCEPT ![c] = AfterFetch(@, i)]
       /\ recvq' = RQ
       /\ Claim(q, c)
       /\ log' = [log EXCEPT ![c] = Append(@, q.val)]
       /\ accepted' = accepted \cup {q.val}
       /\ VpuReady(q.co)
       /\ UNCHANGED <<ring, sendx, recvx, nbuf>>

(* Bug variant: the receive path that does not advance recvx. *)
RecvBufferNoAdvance(c, RQ, SQ) ==
    /\ FetchQuantum(SQ[c]) = 0
    /\ nbuf[c] > 0
    /\ sendq' = [SQ EXCEPT ![c] = <<>>]
    /\ recvq' = RQ
    /\ log' = [log EXCEPT ![c] = Append(@, ring[c][recvx[c]])]
    /\ recvx' = recvx
    /\ nbuf' = [nbuf EXCEPT ![c] = @ - 1]
    /\ UNCHANGED <<ring, sendx, accepted, status, runq, qtag, done>>

(* Bug variant: the receive path that reads the newest slot, at sendx-1. *)
RecvBufferNewest(c, RQ, SQ) ==
    /\ FetchQuantum(SQ[c]) = 0
    /\ nbuf[c] > 0
    /\ sendq' = [SQ EXCEPT ![c] = <<>>]
    /\ recvq' = RQ
    /\ log' = [log EXCEPT ![c] = Append(@, ring[c][(sendx[c] + Cap[c] - 1) % Cap[c]])]
    /\ recvx' = [recvx EXCEPT ![c] = (@ + 1) % Cap[c]]
    /\ nbuf' = [nbuf EXCEPT ![c] = @ - 1]
    /\ UNCHANGED <<ring, sendx, accepted, status, runq, qtag, done>>

(* No sender: copy out of the slot at recvx. *)
RecvBuffer(c, RQ, SQ) ==
    /\ FetchQuantum(SQ[c]) = 0
    /\ nbuf[c] > 0
    /\ sendq' = [SQ EXCEPT ![c] = <<>>]
    /\ recvq' = RQ
    /\ log' = [log EXCEPT ![c] = Append(@, ring[c][recvx[c]])]
    /\ recvx' = [recvx EXCEPT ![c] = (@ + 1) % Cap[c]]
    /\ nbuf' = [nbuf EXCEPT ![c] = @ - 1]
    /\ UNCHANGED <<ring, sendx, accepted, status, runq, qtag, done>>

(* The two paths of __channel_recv that return CHAN_SUCCESS, in order. *)
RecvPath(c, RQ, SQ) ==
    \/ RecvHandoff(c, RQ, SQ)
    \/ RecvBuffer(c, RQ, SQ)

(* Whether the non-blocking form of an operation would succeed now. *)
CanSend(c) == FetchQuantum(recvq[c]) > 0 \/ nbuf[c] < Cap[c]
CanRecv(c) == FetchQuantum(sendq[c]) > 0 \/ nbuf[c] > 0
CanDo(e) == IF e.type = "send" THEN CanSend(e.chan) ELSE CanRecv(e.chan)

(* Bug variant: the lock released when the quantum is queued, before the *)
(* context save (a plain lock_release instead of the unlock handler).    *)
SuspendUnlocked(t, cs) ==
    /\ lock' = lock
    /\ pc' = [pc EXCEPT ![t] = "core_wait"]
    /\ done' = [done EXCEPT ![t] = {}]

(* vpu_suspend + vpu_syscall(core_wait) up to the switch: the caller keeps *)
(* the locks of cs, its context is saved and the scheduler will run        *)
(* core_wait on its behalf.                                                *)
Suspend(t, cs) ==
    /\ lock' = [c \in Chan |-> IF c \in cs THEN t ELSE lock[c]]
    /\ pc' = [pc EXCEPT ![t] = "core_wait"]
    /\ done' = [done EXCEPT ![t] = {}]

-----------------------------------------------------------------------------
(* Operations of a running coroutine                                       *)

Issue(t) ==
    /\ status[t] = "RUNNING"
    /\ pc[t] = "user"
    /\ nops[t] < MaxOps[t]
    /\ nops' = [nops EXCEPT ![t] = @ + 1]

(* The tail of __channel_send when no receiver is parked and the buffer *)
(* is full (every quantum fetch_quantum met was stale and is dropped):   *)
(* park a quantum on send_que and suspend holding the lock, or return    *)
(* CHAN_BUSY.                                                            *)
SendBlockOrBusy(t, c, v, block) ==
    /\ recvq' = [recvq EXCEPT ![c] = <<>>]
    /\ \/ /\ block
          /\ sendq' = [sendq EXCEPT ![c] = Append(@, [sel |-> FALSE, co |-> t, val |-> v])]
          /\ Suspend(t, {c})
          /\ UNCHANGED sel
       \/ /\ ~block
          /\ UNCHANGED <<sendq, lock, pc, sel, done>>
    /\ UNCHANGED <<ring, sendx, recvx, nbuf, status, qtag, runq, log, accepted>>

(* _channel_send(chan, buf, block): lock, __channel_send, and unlock      *)
(* unless the caller was parked (CHAN_AWAKEN).                            *)
ChannelSend(t, c, block) ==
    LET v == <<t, nops[t]>> IN
    /\ Issue(t)
    /\ lock[c] = NIL
    /\ \/ /\ SendPath(c, v, recvq, sendq)
          /\ UNCHANGED <<lock, pc, sel>>
       \/ /\ ~CanSend(c)
          /\ SendBlockOrBusy(t, c, v, block)
    /\ UNCHANGED want

(* The tail of __channel_recv: park a quantum on recv_que, or CHAN_BUSY. *)
RecvBlockOrBusy(t, c, block) ==
    /\ sendq' = [sendq EXCEPT ![c] = <<>>]
    /\ \/ /\ block
          /\ recvq' = [recvq EXCEPT ![c] = Append(@, [sel |-> FALSE, co |-> t, val |-> NIL])]
          /\ Suspend(t, {c})
          /\ UNCHANGED sel
       \/ /\ ~block
          /\ UNCHANGED <<recvq, lock, pc, sel, done>>
    /\ UNCHANGED <<ring, sendx, recvx, nbuf, status, qtag, runq, log, accepted>>

(* _channel_recv(chan, buf, block) *)
ChannelRecv(t, c, block) ==
    /\ Issue(t)
    /\ lock[c] = NIL
    /\ \/ /\ RecvPath(c, recvq, sendq)
          /\ UNCHANGED <<lock, pc, sel>>
       \/ /\ ~CanRecv(c)
          /\ RecvBlockOrBusy(t, c, block)
    /\ UNCHANGED want

(* The channels a select set locks (lock_chain_add per registered elem). *)
SetChans(S) == {S[k].chan : k \in DOMAIN S}

(* The quanta a blocking select adds to queue side ("send" or "recv") of   *)
(* c, one per registered elem of that kind on c, in registration order.    *)
SelQuanta(t, S, side, c, v) ==
    LET es == SelectSeq(S, LAMBDA e : e.type = side /\ e.chan = c)
    IN [k \in DOMAIN es |-> [sel |-> TRUE, co |-> t,
                             val |-> IF side = "send" THEN v ELSE NIL]]

(* Bug variant: the chain taken in registration order (lock_chain_add    *)
(* order), without the canonical sort.                                     *)
ChainAsRegistered(S) ==
    FoldLeft(LAMBDA acc, e : IF Contains(acc, e.chan) THEN acc
                             ELSE Append(acc, e.chan), <<>>, S)

(* lock_chain_acquire: the distinct channel locks of a set, in the        *)
(* canonical order.                                                        *)
Chain(S) == SelectSeq(LockOrder, LAMBDA c : c \in SetChans(S))

(* The set whose chain t is taking: a new select, or the resume path.     *)
ChainOf(t) == IF pc[t] = "chain" THEN want[t].set ELSE sel[t]

(* The next lock of the chain t spins on, 0 once t holds them all.        *)
ChainNext(t) == SelectInSeq(Chain(ChainOf(t)), LAMBDA c : lock[c] # t)

ChainHeld(t) == \A c \in SetChans(ChainOf(t)) : lock[c] = t

(* Releasing the chain of S (lock_chain_release).                          *)
Release(S) == [c \in Chan |-> IF c \in SetChans(S) THEN NIL ELSE lock[c]]

(* _chan_set_select, entry: an empty set returns -1 at once (never in a   *)
(* program here); otherwise the caller starts lock_chain_acquire.         *)
SelectBegin(t, S, block) ==
    /\ Issue(t)
    /\ S # <<>>
    /\ pc' = [pc EXCEPT ![t] = "chain"]
    /\ want' = [want EXCEPT ![t] = [set |-> S, block |-> block]]
    /\ done' = [done EXCEPT ![t] = {}]
    /\ UNCHANGED <<chanVars, lock, status, sel, qtag, runq, log, accepted>>

(* One spin-lock acquisition of lock_chain_acquire, on entry to select or *)
(* on its resume path.                                                     *)
LockChainStep(t) ==
    LET ch == Chain(ChainOf(t))
        i  == ChainNext(t)
    IN /\ status[t] = "RUNNING"
       /\ pc[t] \in {"chain", "sel_resume"}
       /\ i > 0
       /\ lock[ch[i]] = NIL
       /\ lock' = [lock EXCEPT ![ch[i]] = t]
       /\ UNCHANGED <<chanVars, coVars, log, accepted>>

(* _chan_set_select with the whole chain held: try the non-blocking form  *)
(* of each elem in order and stop at the first success; every failed try  *)
(* has dropped the stale quanta of the queue it looked at.  If none       *)
(* succeeds and block holds: qtag := NULL, one select quantum per elem,   *)
(* and suspend releasing the chain after the save; otherwise release the  *)
(* chain and return.                                                      *)
ChanSetSelect(t) ==
    LET S      == want[t].set
        v      == <<t, nops[t] - 1>>
        k      == SelectInSeq(S, CanDo)
        failed == IF k = 0 THEN DOMAIN S ELSE 1 .. k - 1
        Tried(side, c) == \E j \in failed : S[j].type = side /\ S[j].chan = c
        RQ == [c \in Chan |-> IF Tried("send", c) THEN <<>> ELSE recvq[c]]
        SQ == [c \in Chan |-> IF Tried("recv", c) THEN <<>> ELSE sendq[c]]
    IN
    /\ pc[t] = "chain"
    /\ ChainHeld(t)
    /\ want' = [want EXCEPT ![t] = NIL]
    /\ UNCHANGED nops
    /\ \/ /\ k > 0
          /\ IF S[k].type = "send"
               THEN SendPath(S[k].chan, v, RQ, SQ)
               ELSE RecvPath(S[k].chan, RQ, SQ)
          /\ lock' = Release(S)
          /\ pc' = [pc EXCEPT ![t] = "user"]
          /\ UNCHANGED sel
       \/ /\ k = 0
          /\ want[t].block
          /\ sendq' = [c \in Chan |-> SQ[c] \o SelQuanta(t, S, "send", c, v)]
          /\ recvq' = [c \in Chan |-> RQ[c] \o SelQuanta(t, S, "recv", c, v)]
          /\ qtag' = [qtag EXCEPT ![t] = NIL]
          /\ sel' = [sel EXCEPT ![t] = S]
          /\ Suspend(t, SetChans(S))
          /\ UNCHANGED <<ring, sendx, recvx, nbuf, status, runq, log, accepted>>
       \/ /\ k = 0
          /\ ~want[t].block
          /\ sendq' = SQ
          /\ recvq' = RQ
          /\ lock' = Release(S)
          /\ pc' = [pc EXCEPT ![t] = "user"]
          /\ UNCHANGED <<ring, sendx, recvx, nbuf, status, sel, qtag, runq,
                         done, log, accepted>>

(* Bug variant: the resume path that does not extract the losers. *)
ExtractNone(Q, t) == Q

(* The rest of _chan_set_select after the caller is resumed: re-acquire   *)
(* the chain, extract every quantum of the caller still linked on a queue *)
(* of the set (the losers), return qtag as the active channel and clear   *)
(* it, release the chain.                                                  *)
Extract(Q, t) == SelectSeq(Q, LAMBDA q : ~(q.sel /\ q.co = t))

SelectResume(t) ==
    /\ status[t] = "RUNNING"
    /\ pc[t] = "sel_resume"
    /\ ChainHeld(t)
    /\ lock' = Release(sel[t])
    /\ sendq' = [c \in Chan |-> IF c \in SetChans(sel[t]) THEN Extract(sendq[c], t) ELSE sendq[c]]
    /\ recvq' = [c \in Chan |-> IF c \in SetChans(sel[t]) THEN Extract(recvq[c], t) ELSE recvq[c]]
    /\ qtag' = [qtag EXCEPT ![t] = NIL]
    /\ sel' = [sel EXCEPT ![t] = <<>>]
    /\ pc' = [pc EXCEPT ![t] = "user"]
    /\ UNCHANGED <<ring, sendx, recvx, nbuf, status, want, runq, nops, done, log,
                   accepted>>

-----------------------------------------------------------------------------
(* Scheduler side                                                           *)

(* core_wait, run on the scheduler stack after the victim's context has   *)
(* been saved: status WAIT, then call the unlock handler on the held lock *)
(* (lock_release, or lock_chain_release for a select).                     *)
CoreWait(t) ==
    /\ pc[t] = "core_wait"
    /\ status' = [status EXCEPT ![t] = "WAIT"]
    /\ lock' = [c \in Chan |-> IF lock[c] = t THEN NIL ELSE lock[c]]
    /\ pc' = [pc EXCEPT ![t] = "parked"]
    /\ UNCHANGED <<chanVars, want, sel, qtag, runq, nops, done, log, accepted>>

(* core_sched elects a coroutine from a ready queue and loads its context: *)
(* a parked one returns from vpu_suspend, into select's resume path if it *)
(* was blocked in a select.                                                *)
Dispatch(t) ==
    /\ \E i \in DOMAIN runq :
          /\ runq[i] = t
          /\ runq' = RemoveAt(runq, i)
    /\ status' = [status EXCEPT ![t] = "RUNNING"]
    /\ pc' = [pc EXCEPT ![t] = IF @ = "parked"
                                THEN IF sel[t] = <<>> THEN "user" ELSE "sel_resume"
                                ELSE @]
    /\ UNCHANGED <<chanVars, lock, want, sel, qtag, nops, done, log, accepted>>

-----------------------------------------------------------------------------
(* Every coroutine is spawned READY onto the global queue; channels are   *)
(* empty (channel_allocate).                                               *)
Init ==
    /\ ring = [c \in Chan |-> [i \in 0 .. Cap[c] - 1 |-> NIL]]
    /\ sendx = [c \in Chan |-> 0]
    /\ recvx = [c \in Chan |-> 0]
    /\ nbuf = [c \in Chan |-> 0]
    /\ sendq = [c \in Chan |-> <<>>]
    /\ recvq = [c \in Chan |-> <<>>]
    /\ lock = [c \in Chan |-> NIL]
    /\ status = [t \in Co |-> "READY"]
    /\ pc = [t \in Co |-> "user"]
    /\ want = [t \in Co |-> NIL]
    /\ sel = [t \in Co |-> <<>>]
    /\ qtag = [t \in Co |-> NIL]
    /\ runq = SetToSeq(Co)
    /\ nops = [t \in Co |-> 0]
    /\ done = [t \in Co |-> {}]
    /\ log = [c \in Chan |-> <<>>]
    /\ accepted = {}

(* One user operation of t, from its program. *)
UserOp(t) ==
    \E op \in Prog[t] :
        CASE op.kind = "send"   -> ChannelSend(t, op.chan, op.block)
          [] op.kind = "recv"   -> ChannelRecv(t, op.chan, op.block)
          [] op.kind = "select" -> SelectBegin(t, op.set, op.block)

Next ==
    \E t \in Co :
        \/ UserOp(t)
        \/ LockChainStep(t)
        \/ ChanSetSelect(t)
        \/ SelectResume(t)
        \/ CoreWait(t)
        \/ Dispatch(t)

(* The scheduler loop never stops and core_wait runs as soon as the      *)
(* victim has switched to the scheduler stack.  A coroutine running inside *)
(* _chan_set_select (spinning on its chain, running the select body with   *)
(* the chain held, or in the resume path) is a thread executing runtime    *)
(* code with signals masked, so it keeps taking these steps.  User         *)
(* operations carry no fairness.                                           *)
SelectStep(t) == LockChainStep(t) \/ ChanSetSelect(t) \/ SelectResume(t)

Fairness ==
    \A t \in Co :
        /\ WF_vars(CoreWait(t))
        /\ WF_vars(Dispatch(t))
        /\ WF_vars(SelectStep(t))

Spec == Init /\ [][Next]_vars /\ Fairness

-----------------------------------------------------------------------------
(* Properties                                                               *)

(* The values chan->sendx and chan->recvx may take. *)
Slots(c) == IF Cap[c] = 0 THEN {0} ELSE 0 .. Cap[c] - 1

TypeOK ==
    /\ \A c \in Chan : ring[c] \in [0 .. Cap[c] - 1 -> Val \cup {NIL}]
    /\ \A c \in Chan : sendx[c] \in Slots(c) /\ recvx[c] \in Slots(c)
    /\ nbuf \in [Chan -> Nat]
    /\ sendq \in [Chan -> Seq(Quantum)]
    /\ recvq \in [Chan -> Seq(Quantum)]
    /\ lock \in [Chan -> Co \cup {NIL}]
    /\ status \in [Co -> {"READY", "RUNNING", "WAIT"}]
    /\ pc \in [Co -> {"user", "chain", "core_wait", "parked", "sel_resume"}]
    /\ want \in [Co -> [set : Seq(Elem), block : BOOLEAN] \cup {NIL}]
    /\ sel \in [Co -> Seq(Elem)]
    /\ qtag \in [Co -> Chan \cup {NIL}]
    /\ runq \in Seq(Co)
    /\ \A t \in Co : nops[t] \in 0 .. MaxOps[t]
    /\ done \in [Co -> SUBSET Chan]
    /\ log \in [Chan -> Seq(Val)]
    /\ accepted \subseteq Val

(* Spec 8.1, the channel at rest, stated for the quanta fetch_quantum     *)
(* would still hand out (stale select quanta may linger until their owner *)
(* extracts them): the buffer never overflows, a sender is parked only    *)
(* behind a full buffer, a receiver only in front of an empty one.  The   *)
(* order "waiters first, then buffer" in __channel_send/__channel_recv is *)
(* what keeps it.                                                          *)
ChannelInv ==
    \A c \in Chan :
        /\ nbuf[c] \in 0 .. Cap[c]
        /\ (\E i \in DOMAIN sendq[c] : Claimable(sendq[c][i])) => nbuf[c] = Cap[c]
        /\ (\E i \in DOMAIN recvq[c] : Claimable(recvq[c][i])) => nbuf[c] = 0

(* Spec 8.2: a coroutine is on the ready queues exactly when it is READY, *)
(* and then exactly once.  vpu_ready racing core_wait (a waker that could *)
(* reach the quantum before the victim's lock is released after the save) *)
(* or a select waiter woken by two channels would break it.               *)
Occurrences(t) == Cardinality({i \in DOMAIN runq : runq[i] = t})

ReadyQueueSound ==
    \A t \in Co : Occurrences(t) = IF status[t] = "READY" THEN 1 ELSE 0

(* Spec 8.3: at most one operation completes a blocked select (the CAS on *)
(* qtag in fetch_quantum), and when the selecting coroutine resumes, qtag *)
(* names exactly the channel that completed it.                           *)
SelectClaimUnique ==
    \A t \in Co :
        /\ Cardinality(done[t]) <= 1
        /\ pc[t] = "sel_resume" => done[t] = {qtag[t]}

(* Once a coroutine is back in user code, no quantum of it is linked on   *)
(* any wait queue: select's resume path extracts all the losing quanta    *)
(* (their memory, qarray, is freed right after).                          *)
NoStaleQuantum ==
    \A t \in Co : pc[t] = "user" =>
        \A c \in Chan :
            \A q \in ToSet(sendq[c]) \cup ToSet(recvq[c]) : q.co # t

(* No value is lost or duplicated by the ring buffer or the handoffs:     *)
(* every completed send is either still buffered or was received exactly  *)
(* once (sendx/recvx/nbuf arithmetic, handoff bookkeeping).               *)
Received == UNION {ToSet(log[c]) : c \in Chan}
InBuffers == UNION {ToSet(Buffered(c)) : c \in Chan}

BufferConservation ==
    /\ accepted = Received \cup InBuffers
    /\ Received \cap InBuffers = {}
    /\ \A c, d \in Chan : \A i \in DOMAIN log[c], j \in DOMAIN log[d] :
           log[c][i] = log[d][j] => c = d /\ i = j
    /\ \A c \in Chan : Len(Buffered(c)) = Cardinality(ToSet(Buffered(c)))

(* Spec 8.4: values one producer sends on a channel are received in the  *)
(* order it sent them.                                                    *)
ProducerFIFO ==
    \A c \in Chan, p \in Co :
        LET s == SelectSeq(log[c], LAMBDA v : v[1] = p)
        IN \A i \in 1 .. Len(s) - 1 : s[i][2] < s[i + 1][2]

(* Spec 8.5, no lost wakeup: a parked coroutine whose operation has been  *)
(* completed by a peer eventually returns to user code.                   *)
ClaimedWaiterResumes ==
    \A t \in Co : (pc[t] # "user" /\ done[t] # {}) ~> pc[t] = "user"


(* The holder of the lock t spins on in lock_chain_acquire, or NIL.       *)
SpinsOn(t) ==
    IF pc[t] \in {"chain", "sel_resume"} /\ status[t] = "RUNNING"
       /\ ChainNext(t) > 0
    THEN lock[Chain(ChainOf(t))[ChainNext(t)]]
    ELSE NIL

(* No deadlock among lock chains: no coroutines spin on each other's      *)
(* channel locks in a cycle, i.e. every group of coroutines has one that  *)
(* is not waiting for a lock held inside the group.  Two selects whose    *)
(* sets overlap, registered in different orders, would deadlock if        *)
(* lock_chain_acquire took the locks in registration order instead of     *)
(* one canonical order.                                                    *)
NoLockCycle ==
    \A G \in SUBSET Co \ {{}} : \E t \in G : SpinsOn(t) \notin G

(* Refinement: the ring buffer read from recvx is the FIFO buffer of the  *)
(* abstract channel, the handoffs of __channel_send/__channel_recv are    *)
(* its direct transfers, and every other step (parking, core_wait,        *)
(* dispatch, select bookkeeping) leaves the abstract state unchanged.     *)
Abstract == INSTANCE AbstractChannel WITH buf <- [c \in Chan |-> Buffered(c)]

(* Channel implements AbstractChannel: sendx/recvx/nbuf arithmetic keeps  *)
(* the buffer FIFO and within bufsize, and a handoff happens only at an   *)
(* empty or a full buffer.                                                 *)
ImplementsAbstract == Abstract!Spec

=============================================================================
