------------------------------ MODULE Runtime ------------------------------
(***************************************************************************)
(* The VPU scheduler (src/src/vpu.c) composed with the VFS offload         *)
(* (src/src/vfs.c), as they meet in a build with ENABLE_VFS and            *)
(* ENABLE_DAEDLOCK_DETECT. A coroutine in VfsCo may call the asynchronous  *)
(* VFS API: __tsc_vfs_add_ops queues its operation under the VFS mutex and *)
(* vpu_suspend parks it through core_wait; a worker runs the operation;    *)
(* core_sched, when core_elect finds nothing, resumes it with              *)
(* tsc_vfs_get_coroutine; and the deadlock detector asks tsc_vfs_working   *)
(* before it declares a deadlock. Every other step is a step of one of the *)
(* two components, leaving the other's variables alone.                    *)
(***************************************************************************)
EXTENDS Integers, Sequences, Functions

CONSTANTS
    Co, Main, P, STEALING, DETECT, THRESHOLD, MAX_SPIN_LOOP_NUM, MaxOps, NIL,
    Worker,     \* VFS worker threads
    VfsCo,      \* coroutines that call the asynchronous VFS API
    MaxVfsOps,  \* bound on the VFS operations of one coroutine
    NONE

ASSUME VfsCo \subseteq Co

VARIABLES
    xt, status, affinity, current, pc, watchdog, idleLoops, idle, alive,
    waitList, nops, halted,
    items, working, waitQue, readyQue, mutex, wpc, hand, vst,
    vnops,      \* Vfs's nops: VFS operations submitted per coroutine
    aborted

schedVars == <<xt, status, affinity, current, pc, watchdog, idleLoops, idle,
               alive, waitList, nops, halted>>
vfsVars   == <<items, working, waitQue, readyQue, mutex, wpc, hand, vst,
               vnops, aborted>>
vars      == <<schedVars, vfsVars>>

S == INSTANCE Scheduler
V == INSTANCE Vfs WITH Co <- VfsCo, MaxOps <- MaxVfsOps, nops <- vnops

(* The coroutine on v runs user code: it is not inside __tsc_vfs_add_ops,  *)
(* whose TSC_SIGNAL_MASK also holds off the watchdog.                      *)
InUser(v) == current[v] \in VfsCo => vst[current[v]] = "user"

(* A peer may vpu_ready only a coroutine parked on a channel, not one      *)
(* parked on the VFS.                                                      *)
ParkedOnChannel(u) == u \in VfsCo => vst[u] = "user"

-----------------------------------------------------------------------------
(* __tsc_vfs_add_ops by the coroutine running on v, up to vpu_suspend.     *)
VfsSubmit(v) ==
    /\ S!Running(v) /\ current[v] \in VfsCo
    /\ nops[current[v]] < MaxOps
    /\ V!Submit(current[v])
    /\ UNCHANGED schedVars

(* vpu_suspend(NULL, &mutex, pthread_mutex_unlock) -> core_wait: WAIT, onto *)
(* wait_list, the VFS mutex released after the save, then core_sched.     *)
VfsSuspend(v) ==
    /\ current[v] \in VfsCo /\ vst[current[v]] = "suspending"
    /\ S!Park(v)
    /\ V!CoreWait(current[v])

(* core_sched after core_elect returned NULL: tsc_vfs_get_coroutine, and   *)
(* the coroutine it returns is run on v like any other candidate. Nothing  *)
(* on this path extracts it from wait_list.                                *)
VfsElect(v) ==
    /\ S!SchedLoop(v) /\ S!Source(v) = -1
    /\ V!GetCoroutine
    /\ LET c == Head(readyQue) IN
         /\ status' = [status EXCEPT ![c] = "RUNNING"]
         /\ affinity' = [affinity EXCEPT ![c] = v]
         /\ current' = [current EXCEPT ![v] = c]
    /\ pc' = [pc EXCEPT ![v] = "run"]
    /\ idle' = idle - 1
    /\ UNCHANGED <<xt, watchdog, idleLoops, alive, waitList, nops, halted>>

(* The scans of ENABLE_DAEDLOCK_DETECT once tsc_vfs_get_coroutine also     *)
(* returned NULL.                                                          *)
NoVfsCandidate == readyQue = <<>>

(* Bug variant: the deadlock declared without asking tsc_vfs_working.     *)
BacktraceNoVfsCheck(v) == NoVfsCandidate /\ S!VpuBacktrace(v)

(* Past the spin threshold as the last alive VPU, tsc_vfs_working (under   *)
(* the VFS mutex) decides: no activity declares the deadlock ...           *)
Backtrace(v) ==
    /\ NoVfsCandidate /\ mutex = NONE /\ ~V!VfsWorking
    /\ S!VpuBacktrace(v)

(* ... while VFS activity sends the VPU round its loop again: alive-- and  *)
(* alive++ cancel out, idle_loops = 0.                                     *)
VfsBusy(v) ==
    /\ S!NoCandidate(v) /\ NoVfsCandidate
    /\ idleLoops[v] + 1 > MAX_SPIN_LOOP_NUM
    /\ alive - 1 = 0
    /\ mutex = NONE /\ V!VfsWorking
    /\ idleLoops' = [idleLoops EXCEPT ![v] = 0]
    /\ UNCHANGED <<xt, status, affinity, current, pc, watchdog, idle, alive,
                   waitList, nops, halted>>
    /\ UNCHANGED vfsVars

(* One step of tsc_vfs_routine on worker thread w. *)
WorkerStep(w) ==
    (V!Lock(w) \/ V!Reacquire(w) \/ V!Process(w)) /\ UNCHANGED schedVars

-----------------------------------------------------------------------------
Init == S!Init /\ V!Init

Next ==
    \/ \E v \in S!Vpu :
        \/ S!Dispatch(v) /\ UNCHANGED vfsVars
        \/ S!Idle(v) /\ NoVfsCandidate /\ UNCHANGED vfsVars
        \/ S!Sleep(v) /\ NoVfsCandidate /\ UNCHANGED vfsVars
        \/ Backtrace(v) /\ UNCHANGED vfsVars
        \/ VfsBusy(v)
        \/ VfsElect(v)
        \/ (S!Spurious(v) \/ S!Resume(v)) /\ UNCHANGED vfsVars
        \/ InUser(v) /\ \E u \in Co : S!Spawn(v, u) /\ UNCHANGED vfsVars
        \/ InUser(v) /\ \E u \in Co : ParkedOnChannel(u) /\ S!Ready(v, u)
                                      /\ UNCHANGED vfsVars
        \/ InUser(v) /\ (S!Park(v) \/ S!Exit(v)) /\ UNCHANGED vfsVars
        \/ InUser(v) /\ (S!Tick(v) \/ S!Yield(v)) /\ UNCHANGED vfsVars
        \/ VfsSubmit(v)
        \/ VfsSuspend(v)
    \/ \E w \in Worker : WorkerStep(w)

(* The worker threads keep running tsc_vfs_routine, and the VPU of a       *)
(* coroutine inside __tsc_vfs_add_ops (runtime code, signals masked) goes  *)
(* on into vpu_suspend. Nothing else is assumed fair.                      *)
Fairness ==
    /\ \A w \in Worker : WF_vars(WorkerStep(w))
    /\ \A v \in S!Vpu : WF_vars(VfsSuspend(v))

Spec == Init /\ [][Next]_vars /\ Fairness

-----------------------------------------------------------------------------
TypeOK == S!TypeOK /\ V!TypeOK

(* Spec 8.2 across the two components: a coroutine resumed from the VFS    *)
(* by core_sched, like one made ready by vpu_ready, is on exactly one      *)
(* queue entry iff READY and runs on exactly one VPU iff RUNNING.          *)
Lifecycle == S!Lifecycle

(* vpu_backtrace declares a deadlock only when nothing can run and no      *)
(* coroutine is waiting for a VFS operation that a worker will finish.     *)
DeadlockSoundVfs ==
    /\ S!DeadlockSound
    /\ halted = "deadlock" => \A t \in VfsCo : vst[t] = "user"

(* The lock-after-save rule of __tsc_vfs_add_ops, with the save done by    *)
(* the VPU's real context switch: no worker runs, and ready_que offers no  *)
(* coroutine whose context core_wait has not saved.                        *)
SavedBeforeVisible == V!SavedBeforeVisible

(* Every operation a coroutine submits is run by a worker and put on       *)
(* ready_que, unless the process has stopped: pthread_cond_signal is sent  *)
(* only when items goes from 0 to 1, so an operation queued behind a busy  *)
(* worker must be found by the worker's loop, not by a signal.             *)
VfsOpCompletes ==
    \A t \in VfsCo :
        vst[t] = "suspending" ~>
            \/ t \in Range(readyQue) \/ vst[t] = "user"
            \/ halted # "no"

(* Under ENABLE_DAEDLOCK_DETECT, wait_list holds the parked coroutines:    *)
(* core_wait adds a coroutine and vpu_ready extracts it, so every          *)
(* coroutine on it is WAIT (vpu_backtrace requeues all of them).           *)
WaitListSound == \A t \in waitList : status[t] = "WAIT"

=============================================================================
