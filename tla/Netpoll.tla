------------------------------ MODULE Netpoll ------------------------------
(***************************************************************************)
(* Blocking network I/O in libcoroc (src/src/netpoll.c). A coroutine that  *)
(* would block allocates a poll descriptor, registers it with the netpoll *)
(* driver and parks (tsc_net_wait), optionally with a deadline timer       *)
(* (tsc_net_timedwait). A VPU polling the driver wakes it                 *)
(* (tsc_netpoll_wakeup), or the timer does (__tsc_netpoll_timeout). The    *)
(* descriptor is refcounted: one reference for the waiter, one for the     *)
(* timer. Descriptor <<c, k>> is the k-th wait of coroutine c.             *)
(***************************************************************************)
EXTENDS Naturals, FiniteSets

CONSTANTS
    Co,         \* coroutines doing network I/O
    MaxWaits,   \* bound on the waits of a coroutine
    TIMED       \* whether the coroutine may use tsc_net_timedwait

ASSUME MaxWaits \in Nat \ {0} /\ TIMED \in BOOLEAN

Desc == Co \X (1 .. MaxWaits)

VARIABLES
    cst,        \* per coroutine: "user", "suspending" (switching to the
                \* scheduler, desc->lock held), "wait", "ready", "resumed"
    nwaits,     \* per coroutine: waits started so far
    locked,     \* descriptors whose lock the parking coroutine holds
    reg,        \* descriptors registered with the netpoll driver
    done,       \* desc->done
    mode,       \* desc->mode: "req" (the requested mode) or "none" (0)
    ref,        \* desc->refcnt
    tpc,        \* deadline timer: "none", "armed", "ready" (callback past
                \* its lock), "put" (before its refcnt put), "done"
    tsucc,      \* the timer callback's CAS succeeded
    ppc,        \* poller: "none", "fetched" (returned by a poll),
                \* "woke" (wakeup past its lock, before vpu_ready)
    readies,    \* vpu_ready calls made for each descriptor
    uaf         \* a freed descriptor was touched

vars == <<cst, nwaits, locked, reg, done, mode, ref, tpc, tsucc, ppc,
          readies, uaf>>

Freed(d) == d[2] =< nwaits[d[1]] /\ ref[d] = 0

Cur(c) == <<c, nwaits[c]>>

(* A step that reads or locks descriptor d.                                *)
Touch(d) == uaf' = (uaf \/ Freed(d))

(* vpu_ready(desc->wait) on behalf of descriptor d.                        *)
VpuReady(d) ==
    /\ readies' = [readies EXCEPT ![d] = @ + 1]
    /\ cst' = IF cst[d[1]] = "wait" THEN [cst EXCEPT ![d[1]] = "ready"]
                                    ELSE cst

-----------------------------------------------------------------------------
(* __tsc_poll_desc_init: done = false, mode = the requested mode, one     *)
(* reference for the waiter.                                               *)
DescInit(d) ==
    /\ done' = [done EXCEPT ![d] = FALSE]
    /\ mode' = [mode EXCEPT ![d] = "req"]

(* Allocate and initialise the descriptor, __tsc_netpoll_add under         *)
(* desc->lock, then vpu_suspend with the lock held. A timed wait also      *)
(* takes a reference for the deadline timer and arms it.                   *)
Park(c, timed) ==
    LET d == <<c, nwaits[c] + 1>> IN
    /\ cst[c] = "user" /\ nwaits[c] < MaxWaits
    /\ DescInit(d)
    /\ cst' = [cst EXCEPT ![c] = "suspending"]
    /\ nwaits' = [nwaits EXCEPT ![c] = @ + 1]
    /\ locked' = locked \cup {d}
    /\ reg' = reg \cup {d}
    /\ ref' = [ref EXCEPT ![d] = IF timed THEN 2 ELSE 1]
    /\ tpc' = [tpc EXCEPT ![d] = IF timed THEN "armed" ELSE "none"]
    /\ UNCHANGED <<tsucc, ppc, readies, uaf>>

(* tsc_net_wait.                                                           *)
NetWait(c) == Park(c, FALSE)

(* tsc_net_timedwait.                                                      *)
NetTimedWait(c) == TIMED /\ Park(c, TRUE)

CoreWaitKeepLock(c) ==
    /\ cst[c] = "suspending"
    /\ cst' = [cst EXCEPT ![c] = "wait"]
    /\ UNCHANGED <<nwaits, locked, reg, done, mode, ref, tpc, tsucc, ppc,
                   readies, uaf>>

(* core_wait: WAIT, then the unlock handler releases desc->lock.           *)
CoreWait(c) ==
    /\ cst[c] = "suspending"
    /\ cst' = [cst EXCEPT ![c] = "wait"]
    /\ locked' = locked \ {Cur(c)}
    /\ UNCHANGED <<nwaits, reg, done, mode, ref, tpc, tsucc, ppc, readies,
                   uaf>>

(* __tsc_netpoll_timeout under desc->lock: CAS done false -> true; on      *)
(* success mode = 0 and the descriptor leaves the driver.                  *)
TimerLock(d) ==
    /\ tpc[d] = "armed" /\ d \notin locked
    /\ tsucc' = [tsucc EXCEPT ![d] = ~done[d]]
    /\ done' = [done EXCEPT ![d] = TRUE]
    /\ mode' = IF done[d] THEN mode ELSE [mode EXCEPT ![d] = "none"]
    /\ reg' = IF done[d] THEN reg ELSE reg \ {d}
    /\ tpc' = [tpc EXCEPT ![d] = "ready"]
    /\ Touch(d)
    /\ UNCHANGED <<cst, nwaits, locked, ref, ppc, readies>>

(* After releasing the lock: vpu_ready(desc->wait) if the CAS succeeded.   *)
TimerReady(d) ==
    /\ tpc[d] = "ready"
    /\ IF tsucc[d] THEN VpuReady(d) ELSE UNCHANGED <<cst, readies>>
    /\ tpc' = [tpc EXCEPT ![d] = "put"]
    /\ Touch(d)
    /\ UNCHANGED <<nwaits, locked, reg, done, mode, ref, tsucc, ppc>>

(* tsc_refcnt_put(desc) by the timer.                                      *)
TimerPut(d) ==
    /\ tpc[d] = "put"
    /\ ref' = [ref EXCEPT ![d] = @ - 1]
    /\ tpc' = [tpc EXCEPT ![d] = "done"]
    /\ Touch(d)
    /\ UNCHANGED <<cst, nwaits, locked, reg, done, mode, tsucc, ppc, readies>>

(* __tsc_netpoll_polling in core_sched: the driver reports d ready; the    *)
(* VPU keeps the pointer, without a reference, until it calls wakeup.      *)
Fetch(d) ==
    /\ d \in reg /\ ppc[d] = "none"
    /\ ppc' = [ppc EXCEPT ![d] = "fetched"]
    /\ UNCHANGED <<cst, nwaits, locked, reg, done, mode, ref, tpc, tsucc,
                   readies, uaf>>

(* tsc_netpoll_wakeup under desc->lock (the CAS on done is compiled out):  *)
(* remove the descriptor from the driver, release the lock.                *)
Wakeup(d) ==
    /\ ppc[d] = "fetched" /\ d \notin locked
    /\ reg' = reg \ {d}
    /\ ppc' = [ppc EXCEPT ![d] = "woke"]
    /\ Touch(d)
    /\ UNCHANGED <<cst, nwaits, locked, done, mode, ref, tpc, tsucc, readies>>

(* ... then vpu_ready(desc->wait).                                         *)
WakeReady(d) ==
    /\ ppc[d] = "woke"
    /\ VpuReady(d)
    /\ ppc' = [ppc EXCEPT ![d] = "none"]
    /\ Touch(d)
    /\ UNCHANGED <<nwaits, locked, reg, done, mode, ref, tpc, tsucc>>

(* core_sched elects the readied coroutine.                                *)
Resume(c) ==
    /\ cst[c] = "ready"
    /\ cst' = [cst EXCEPT ![c] = "resumed"]
    /\ UNCHANGED <<nwaits, locked, reg, done, mode, ref, tpc, tsucc, ppc,
                   readies, uaf>>

ReturnPutTwo(c) ==
    /\ cst[c] = "resumed" /\ tpc[Cur(c)] # "none"
    /\ LET d == Cur(c)
       IN /\ ref' = [ref EXCEPT ![d] = @ - 2]
          /\ tpc' = IF tpc[d] = "armed" THEN [tpc EXCEPT ![d] = "none"] ELSE tpc
    /\ cst' = [cst EXCEPT ![c] = "user"]
    /\ UNCHANGED <<nwaits, locked, reg, done, mode, tsucc, ppc, readies, uaf>>

ReturnNoTimerPut(c) ==
    /\ cst[c] = "resumed" /\ tpc[Cur(c)] # "none"
    /\ LET d == Cur(c)
       IN /\ ref' = [ref EXCEPT ![d] = @ - 1]
          /\ tpc' = IF tpc[d] = "armed" THEN [tpc EXCEPT ![d] = "none"] ELSE tpc
    /\ cst' = [cst EXCEPT ![c] = "user"]
    /\ UNCHANGED <<nwaits, locked, reg, done, mode, tsucc, ppc, readies, uaf>>

(* tsc_net_wait back from vpu_suspend: read desc->mode and drop the      *)
(* waiter's reference. An untimed descriptor has no timer.                 *)
NetWaitReturn(c) ==
    /\ cst[c] = "resumed" /\ tpc[Cur(c)] = "none"
    /\ ref' = [ref EXCEPT ![Cur(c)] = @ - 1]
    /\ cst' = [cst EXCEPT ![c] = "user"]
    /\ UNCHANGED <<nwaits, locked, reg, done, mode, tpc, tsucc, ppc, readies,
                   uaf>>

(* tsc_net_timedwait back from vpu_suspend: delete the timer and, if it    *)
(* had not fired (tsc_del_intertimer == 0), drop the timer's reference;    *)
(* then read desc->mode and drop the waiter's reference.                   *)
NetTimedWaitReturn(c) ==
    /\ cst[c] = "resumed" /\ tpc[Cur(c)] # "none"
    /\ LET d      == Cur(c)
           cancel == tpc[d] = "armed"
       IN /\ ref' = [ref EXCEPT ![d] = @ - (IF cancel THEN 2 ELSE 1)]
          /\ tpc' = IF cancel THEN [tpc EXCEPT ![d] = "none"] ELSE tpc
    /\ cst' = [cst EXCEPT ![c] = "user"]
    /\ UNCHANGED <<nwaits, locked, reg, done, mode, tsucc, ppc, readies, uaf>>

-----------------------------------------------------------------------------
Init ==
    /\ cst = [c \in Co |-> "user"]
    /\ nwaits = [c \in Co |-> 0]
    /\ locked = {}
    /\ reg = {}
    /\ done = [d \in Desc |-> FALSE]
    /\ mode = [d \in Desc |-> "req"]
    /\ ref = [d \in Desc |-> 0]
    /\ tpc = [d \in Desc |-> "none"]
    /\ tsucc = [d \in Desc |-> FALSE]
    /\ ppc = [d \in Desc |-> "none"]
    /\ readies = [d \in Desc |-> 0]
    /\ uaf = FALSE

Next ==
    \/ \E c \in Co : \/ NetWait(c) \/ NetTimedWait(c) \/ CoreWait(c)
                     \/ Resume(c) \/ NetWaitReturn(c)
                     \/ NetTimedWaitReturn(c)
    \/ \E d \in Desc : \/ TimerLock(d) \/ TimerReady(d) \/ TimerPut(d)
                       \/ Fetch(d) \/ Wakeup(d) \/ WakeReady(d)

(* The VPUs keep scheduling and polling, the timer thread keeps running,   *)
(* and a registered descriptor's fd eventually becomes ready.              *)
Fairness ==
    /\ \A c \in Co : WF_vars(CoreWait(c)) /\ WF_vars(Resume(c))
                     /\ WF_vars(NetWaitReturn(c))
                     /\ WF_vars(NetTimedWaitReturn(c))
    /\ \A d \in Desc : /\ WF_vars(TimerLock(d)) /\ WF_vars(TimerReady(d))
                       /\ WF_vars(TimerPut(d)) /\ WF_vars(Fetch(d))
                       /\ WF_vars(Wakeup(d)) /\ WF_vars(WakeReady(d))

Spec == Init /\ [][Next]_vars /\ Fairness
-----------------------------------------------------------------------------
TypeOK ==
    /\ cst \in [Co -> {"user", "suspending", "wait", "ready", "resumed"}]
    /\ nwaits \in [Co -> 0 .. MaxWaits]
    /\ locked \subseteq Desc /\ reg \subseteq Desc
    /\ done \in [Desc -> BOOLEAN]
    /\ mode \in [Desc -> {"req", "none"}]
    /\ ref \in [Desc -> 0 .. 2]
    /\ tpc \in [Desc -> {"none", "armed", "ready", "put", "done"}]
    /\ tsucc \in [Desc -> BOOLEAN]
    /\ ppc \in [Desc -> {"none", "fetched", "woke"}]
    /\ readies \in [Desc -> Nat]
    /\ uaf \in BOOLEAN

(* A parked coroutine is made ready once per wait: by the poller or by the *)
(* deadline timer, never both, and never again during a later wait.        *)
ReadyOnce == \A d \in Desc : readies[d] =< 1

(* No poller, timer or waiter step locks or reads a descriptor after the   *)
(* last tsc_refcnt_put freed it.                                           *)
NoUseAfterFree == ~uaf

(* The holders of a started descriptor: the waiter until it returns from   *)
(* this wait, and the deadline timer until its callback's put.             *)
Holders(d) ==
    (IF Cur(d[1]) = d /\ cst[d[1]] # "user" THEN 1 ELSE 0)
    + (IF tpc[d] \in {"armed", "ready", "put"} THEN 1 ELSE 0)

(* desc->refcnt counts exactly the live holders: the waiter's put, the     *)
(* timer callback's put and the put on tsc_del_intertimer's success         *)
(* together never drop a reference twice or leak one.                      *)
RefcountExact ==
    \A d \in Desc : d[2] =< nwaits[d[1]] => ref[d] = Holders(d)

(* A coroutine that parks in tsc_net_wait / tsc_net_timedwait returns.     *)
WaitReturns == \A c \in Co : cst[c] = "suspending" ~> cst[c] = "user"

=============================================================================
