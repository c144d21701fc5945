-------------------------------- MODULE Vfs --------------------------------
(***************************************************************************)
(* The VFS offload of libcoroc (src/src/vfs.c): coroutines hand blocking   *)
(* file operations to a pool of worker threads and park; the workers run  *)
(* tsc_vfs_routine on a mutex and a condition variable and put finished    *)
(* operations on ready_que, from which core_sched resumes their coroutines *)
(* (tsc_vfs_get_coroutine). An operation is identified with the coroutine *)
(* that submitted it (ops->wait); its kind and result are abstracted.      *)
(***************************************************************************)
EXTENDS Naturals, Sequences, FiniteSets, SequencesExt

CONSTANTS
    Worker,     \* the OS threads created by tsc_vfs_initialize(n)
    Co,         \* coroutines that call the asynchronous VFS API
    MaxOps,     \* bound on the operations one coroutine submits
    NONE        \* no mutex holder / no operation in hand

ASSUME MaxOps \in Nat /\ NONE \notin Worker \cup Co

VARIABLES
    items,      \* tsc_vfs_manager.items
    working,    \* tsc_vfs_manager.working
    waitQue,    \* tsc_vfs_manager.wait_que
    readyQue,   \* tsc_vfs_manager.ready_que
    mutex,      \* holder of tsc_vfs_manager.mutex
    wpc,        \* worker: "top" (loop head), "waiting" in pthread_cond_wait,
                \* "woken" (signalled, reacquiring the mutex), "process"
    hand,       \* the operation a worker took
    vst,        \* coroutine: "user", "suspending" (switching to the
                \* scheduler, mutex still held), "wait" (parked)
    nops,       \* operations submitted per coroutine
    aborted     \* assert(ops != NULL) failed

vars == <<items, working, waitQue, readyQue, mutex, wpc, hand, vst, nops,
          aborted>>

Waiting == {w \in Worker : wpc[w] = "waiting"}

(* pthread_cond_signal: one waiting worker, if any, is woken.              *)
Signal ==
    wpc' = IF Waiting # {}
           THEN [wpc EXCEPT ![CHOOSE w \in Waiting : TRUE] = "woken"]
           ELSE wpc

-----------------------------------------------------------------------------
SubmitNoSignal(t) ==
    /\ vst[t] = "user" /\ mutex = NONE /\ nops[t] < MaxOps
    /\ mutex' = t
    /\ waitQue' = Append(waitQue, t)
    /\ items' = items + 1
    /\ vst' = [vst EXCEPT ![t] = "suspending"]
    /\ nops' = [nops EXCEPT ![t] = @ + 1]
    /\ UNCHANGED <<working, readyQue, wpc, hand, aborted>>

SubmitUnlocked(t) ==
    /\ vst[t] = "user" /\ mutex = NONE /\ nops[t] < MaxOps
    /\ mutex' = NONE
    /\ waitQue' = Append(waitQue, t)
    /\ items' = items + 1
    /\ IF items + 1 = 1 THEN Signal ELSE UNCHANGED wpc
    /\ vst' = [vst EXCEPT ![t] = "suspending"]
    /\ nops' = [nops EXCEPT ![t] = @ + 1]
    /\ UNCHANGED <<working, readyQue, hand, aborted>>

(* __tsc_vfs_add_ops: under the mutex, queue the operation, items++, signal *)
(* on the 0 -> 1 transition, then vpu_suspend with the mutex still held.   *)
Submit(t) ==
    /\ vst[t] = "user" /\ mutex = NONE /\ nops[t] < MaxOps
    /\ mutex' = t
    /\ waitQue' = Append(waitQue, t)
    /\ items' = items + 1
    /\ IF items + 1 = 1 THEN Signal ELSE UNCHANGED wpc
    /\ vst' = [vst EXCEPT ![t] = "suspending"]
    /\ nops' = [nops EXCEPT ![t] = @ + 1]
    /\ UNCHANGED <<working, readyQue, hand, aborted>>

(* core_wait on the scheduler stack: WAIT, then the unlock handler         *)
(* (pthread_mutex_unlock) releases the mutex after the context save.       *)
CoreWait(t) ==
    /\ vst[t] = "suspending"
    /\ vst' = [vst EXCEPT ![t] = "wait"]
    /\ mutex' = IF mutex = t THEN NONE ELSE mutex
    /\ UNCHANGED <<items, working, waitQue, readyQue, wpc, hand, nops, aborted>>

(* Under the mutex: working = true, queue_rem, assert(ops != NULL),        *)
(* items--, unlock.                                                        *)
Take(w) ==
    IF waitQue = <<>>
    THEN /\ aborted' = TRUE
         /\ UNCHANGED <<items, working, waitQue, mutex, wpc, hand>>
    ELSE /\ working' = TRUE
         /\ waitQue' = Tail(waitQue)
         /\ hand' = [hand EXCEPT ![w] = Head(waitQue)]
         /\ items' = items - 1
         /\ wpc' = [wpc EXCEPT ![w] = "process"]
         /\ UNCHANGED <<mutex, aborted>>

(* tsc_vfs_routine, loop head: lock; if items == 0, working = false and    *)
(* wait (the wait releases the mutex); otherwise take an operation.        *)
Lock(w) ==
    /\ wpc[w] = "top" /\ mutex = NONE /\ ~aborted
    /\ IF items = 0
       THEN /\ working' = FALSE
            /\ wpc' = [wpc EXCEPT ![w] = "waiting"]
            /\ UNCHANGED <<items, waitQue, mutex, hand, aborted>>
       ELSE Take(w)
    /\ UNCHANGED <<readyQue, vst, nops>>

(* A signalled worker returns from pthread_cond_wait holding the mutex and *)
(* takes an operation without looking at items again.                      *)
Reacquire(w) ==
    /\ wpc[w] = "woken" /\ mutex = NONE /\ ~aborted
    /\ Take(w)
    /\ UNCHANGED <<readyQue, vst, nops>>

(* The operation runs outside the mutex; its result goes to ready_que.     *)
Process(w) ==
    /\ wpc[w] = "process" /\ ~aborted
    /\ readyQue' = Append(readyQue, hand[w])
    /\ hand' = [hand EXCEPT ![w] = NONE]
    /\ wpc' = [wpc EXCEPT ![w] = "top"]
    /\ UNCHANGED <<items, working, waitQue, mutex, vst, nops, aborted>>

(* core_sched's last resort, tsc_vfs_get_coroutine: resume the coroutine   *)
(* of the first finished operation.                                        *)
GetCoroutine ==
    /\ readyQue # <<>> /\ ~aborted
    /\ vst' = [vst EXCEPT ![Head(readyQue)] = "user"]
    /\ readyQue' = Tail(readyQue)
    /\ UNCHANGED <<items, working, waitQue, mutex, wpc, hand, nops, aborted>>

(* tsc_vfs_working, as read by the deadlock detector under the mutex.      *)
VfsWorking == working \/ Len(readyQue) + Len(waitQue) > 0

-----------------------------------------------------------------------------
(* tsc_vfs_initialize(n): empty queues, every worker at its loop head.     *)
Init ==
    /\ items = 0
    /\ working = FALSE
    /\ waitQue = <<>>
    /\ readyQue = <<>>
    /\ mutex = NONE
    /\ wpc = [w \in Worker |-> "top"]
    /\ hand = [w \in Worker |-> NONE]
    /\ vst = [t \in Co |-> "user"]
    /\ nops = [t \in Co |-> 0]
    /\ aborted = FALSE

Next ==
    \/ \E t \in Co : Submit(t) \/ CoreWait(t)
    \/ \E w \in Worker : Lock(w) \/ Reacquire(w) \/ Process(w)
    \/ GetCoroutine

(* Worker threads and the VPU that saves a suspending coroutine's context  *)
(* keep running; some VPU's core_sched keeps polling ready_que.            *)
Fairness ==
    /\ \A w \in Worker : WF_vars(Lock(w)) /\ WF_vars(Reacquire(w))
                         /\ WF_vars(Process(w))
    /\ \A t \in Co : WF_vars(CoreWait(t))
    /\ WF_vars(GetCoroutine)

Spec == Init /\ [][Next]_vars /\ Fairness
-----------------------------------------------------------------------------
TypeOK ==
    /\ items \in 0 .. Cardinality(Co)
    /\ working \in BOOLEAN
    /\ waitQue \in Seq(Co) /\ readyQue \in Seq(Co)
    /\ mutex \in Co \cup {NONE}
    /\ wpc \in [Worker -> {"top", "waiting", "woken", "process"}]
    /\ hand \in [Worker -> Co \cup {NONE}]
    /\ vst \in [Co -> {"user", "suspending", "wait"}]
    /\ nops \in [Co -> 0 .. MaxOps]
    /\ aborted \in BOOLEAN

(* tsc_vfs_routine's assert(ops != NULL): a worker never takes from an     *)
(* empty wait_que.                                                         *)
AssertHolds == ~aborted

Hands == {hand[w] : w \in Worker} \ {NONE}

(* Lock-after-save for VFS: a worker runs an operation, and ready_que      *)
(* offers its coroutine to core_sched, only once __tsc_vfs_add_ops's       *)
(* vpu_suspend has saved the coroutine's context.                          *)
SavedBeforeVisible ==
    \A t \in Hands \cup Range(readyQue) : vst[t] = "wait"

(* The FIXME of tsc_vfs_working: when it reports no VFS activity (so the   *)
(* deadlock detector may fire), no coroutine is parked on an operation.    *)
VfsWorkingSound ==
    mutex = NONE /\ ~VfsWorking => \A t \in Co : vst[t] = "user"

=============================================================================
