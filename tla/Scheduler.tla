----------------------------- MODULE Scheduler -----------------------------
(***************************************************************************)
(* The VPU scheduler of libcoroc (src/src/vpu.c): P worker threads (VPUs), *)
(* P local ready queues and the global one at index P (xt_index), the      *)
(* core_sched loop with work stealing, the vpu_syscall trampoline into     *)
(* core_wait / core_yield / core_exit, vpu_ready, the watchdog of          *)
(* vpu_clock_handler and, under ENABLE_DAEDLOCK_DETECT, the alive/idle     *)
(* counters, the sleep on the manager condition variable, vpu_wakeup_one   *)
(* and the deadlock declaration of vpu_backtrace.                          *)
(*                                                                         *)
(* What a running coroutine does between two scheduler entries is          *)
(* abstracted to the runtime calls it can make: spawn a coroutine, make a  *)
(* parked one ready (the end of a channel handoff), park itself, exit.     *)
(***************************************************************************)
EXTENDS Naturals, Sequences, FiniteSets, FiniteSetsExt, SequencesExt

CONSTANTS
    Co,                 \* coroutines
    Main,               \* the "init" coroutine created by tsc_vpu_initialize
    P,                  \* number of VPUs (vpu_mp_count)
    STEALING,           \* ENABLE_WORKSTEALING
    DETECT,             \* ENABLE_DAEDLOCK_DETECT
    THRESHOLD,          \* TSC_RESCHED_THRESHOLD
    MAX_SPIN_LOOP_NUM,  \* idle scans before a VPU goes to sleep
    MaxOps,             \* bound on the runtime calls of one coroutine
    NIL                 \* vpu->current is the scheduler coroutine

ASSUME /\ Main \in Co /\ P \in Nat \ {0} /\ STEALING \in BOOLEAN
       /\ DETECT \in BOOLEAN /\ THRESHOLD \in Nat /\ MAX_SPIN_LOOP_NUM \in Nat
       /\ MaxOps \in Nat /\ NIL \notin Co

Vpu == 0 .. P - 1
GQ  == P                \* vpu_manager.xt_index: the global queue

VARIABLES
    xt,         \* xt[i]: ready queue i, i \in 0..P
    status,     \* coroutine status; "NEW" = not yet spawned
    affinity,   \* vpu_affinity
    current,    \* vpu->current (NIL = the scheduler coroutine)
    pc,         \* "sched" in core_sched, "run" on a coroutine's stack,
                \* "sleep" in pthread_cond_wait, "woken" signalled
    watchdog,   \* vpu->watchdog
    idleLoops,  \* core_sched's local idle_loops
    idle,       \* vpu_manager.idle
    alive,      \* vpu_manager.alive
    waitList,   \* vpu_manager.wait_list
    nops,       \* runtime calls made per coroutine (bounded by MaxOps)
    halted      \* "no", "exit" (main exited) or "deadlock" (vpu_backtrace)

vars == <<xt, status, affinity, current, pc, watchdog, idleLoops, idle,
          alive, waitList, nops, halted>>

Status == {"NEW", "READY", "RUNNING", "WAIT", "DEAD"}

Sleepers == {v \in Vpu : pc[v] = "sleep"}

-----------------------------------------------------------------------------
(* vpu_wakeup_one: under the manager mutex, signal the condition variable  *)
(* if some VPU is not alive and no VPU is idle; one sleeper is woken.      *)
WakeupOne ==
    pc' = IF alive < P /\ idle < 1 /\ Sleepers # {}
          THEN [pc EXCEPT ![CHOOSE w \in Sleepers : TRUE] = "woken"]
          ELSE pc

VpuReadyAny(u) ==
    /\ status' = [status EXCEPT ![u] = "READY"]
    /\ waitList' = IF DETECT THEN waitList \ {u} ELSE waitList
    /\ xt' = [xt EXCEPT ![affinity[u]] = Append(@, u)]
    /\ WakeupOne

(* vpu_ready: mark READY, leave the wait list, link onto the affinity      *)
(* queue, wake a VPU. Callers hand it a parked coroutine.                  *)
VpuReady(u) ==
    /\ status[u] = "WAIT"
    /\ status' = [status EXCEPT ![u] = "READY"]
    /\ waitList' = IF DETECT THEN waitList \ {u} ELSE waitList
    /\ xt' = [xt EXCEPT ![affinity[u]] = Append(@, u)]
    /\ WakeupOne

EnterSchedNoIdle(v) ==
    /\ current' = [current EXCEPT ![v] = NIL]
    /\ pc' = [pc EXCEPT ![v] = "sched"]
    /\ idle' = idle
    /\ watchdog' = [watchdog EXCEPT ![v] = 0]
    /\ idleLoops' = [idleLoops EXCEPT ![v] = 0]

(* Back on the scheduler stack after vpu_syscall: per_vpu_initalize runs   *)
(* the syscall and calls core_sched afresh (idle++, watchdog = 0).         *)
EnterSched(v) ==
    /\ current' = [current EXCEPT ![v] = NIL]
    /\ pc' = [pc EXCEPT ![v] = "sched"]
    /\ idle' = idle + 1
    /\ watchdog' = [watchdog EXCEPT ![v] = 0]
    /\ idleLoops' = [idleLoops EXCEPT ![v] = 0]

-----------------------------------------------------------------------------
(* core_sched / core_elect: the queue a candidate is taken from, -1 if    *)
(* none: the local queue, the global queue, then the siblings in id order. *)
Victims(v) == {i \in Vpu \ {v} : xt[i] # <<>>}

Source(v) ==
    CASE xt[v] # <<>>                     -> v
      [] xt[GQ] # <<>>                    -> GQ
      [] STEALING /\ Victims(v) # {}      -> Min(Victims(v))
      [] OTHER                            -> -1

SchedLoop(v) == pc[v] = "sched" /\ halted = "no"

DispatchLifo(v) ==
    /\ SchedLoop(v)
    /\ Source(v) # -1
    /\ LET s == Source(v)
           c == Last(xt[s])
       IN /\ xt' = [xt EXCEPT ![s] = Front(@)]
          /\ status' = [status EXCEPT ![c] = "RUNNING"]
          /\ affinity' = [affinity EXCEPT ![c] = v]
          /\ current' = [current EXCEPT ![v] = c]
    /\ pc' = [pc EXCEPT ![v] = "run"]
    /\ idle' = idle - 1
    /\ UNCHANGED <<watchdog, idleLoops, alive, waitList, nops, halted>>

(* A candidate is found: dequeue it, idle--, run it with affinity v.       *)
Dispatch(v) ==
    /\ SchedLoop(v)
    /\ Source(v) # -1
    /\ LET s == Source(v)
           c == Head(xt[s])
       IN /\ xt' = [xt EXCEPT ![s] = Tail(@)]
          /\ status' = [status EXCEPT ![c] = "RUNNING"]
          /\ affinity' = [affinity EXCEPT ![c] = v]
          /\ current' = [current EXCEPT ![v] = c]
    /\ pc' = [pc EXCEPT ![v] = "run"]
    /\ idle' = idle - 1
    /\ UNCHANGED <<watchdog, idleLoops, alive, waitList, nops, halted>>

NoCandidate(v) == SchedLoop(v) /\ DETECT /\ Source(v) = -1

(* An empty scan below the spin threshold.                                 *)
Idle(v) ==
    /\ NoCandidate(v)
    /\ idleLoops[v] + 1 =< MAX_SPIN_LOOP_NUM
    /\ idleLoops' = [idleLoops EXCEPT ![v] = @ + 1]
    /\ UNCHANGED <<xt, status, affinity, current, pc, watchdog, idle, alive,
                   waitList, nops, halted>>

(* Past the threshold with other VPUs alive: alive--, wait on the cond.    *)
Sleep(v) ==
    /\ NoCandidate(v)
    /\ idleLoops[v] + 1 > MAX_SPIN_LOOP_NUM
    /\ alive - 1 > 0
    /\ alive' = alive - 1
    /\ pc' = [pc EXCEPT ![v] = "sleep"]
    /\ UNCHANGED <<xt, status, affinity, current, watchdog, idleLoops, idle,
                   waitList, nops, halted>>

(* Past the threshold as the last alive VPU, with no netpoll descriptor    *)
(* and no VFS work: vpu_backtrace declares the deadlock and the runtime    *)
(* dumps the parked coroutines and aborts.                                 *)
VpuBacktrace(v) ==
    /\ NoCandidate(v)
    /\ idleLoops[v] + 1 > MAX_SPIN_LOOP_NUM
    /\ alive - 1 = 0
    /\ halted' = "deadlock"
    /\ UNCHANGED <<xt, status, affinity, current, pc, watchdog, idleLoops,
                   idle, alive, waitList, nops>>

(* pthread_cond_wait may return without a signal.                          *)
Spurious(v) ==
    /\ pc[v] = "sleep" /\ halted = "no"
    /\ pc' = [pc EXCEPT ![v] = "woken"]
    /\ UNCHANGED <<xt, status, affinity, current, watchdog, idleLoops, idle,
                   alive, waitList, nops, halted>>

(* Back from pthread_cond_wait: idle_loops = 0, alive++.                   *)
Resume(v) ==
    /\ pc[v] = "woken" /\ halted = "no"
    /\ pc' = [pc EXCEPT ![v] = "sched"]
    /\ idleLoops' = [idleLoops EXCEPT ![v] = 0]
    /\ alive' = alive + 1
    /\ UNCHANGED <<xt, status, affinity, current, watchdog, idle, waitList,
                   nops, halted>>
-----------------------------------------------------------------------------
(* Runtime calls of the coroutine running on VPU v.                        *)
Running(v) == pc[v] = "run" /\ halted = "no"

Call(v) ==
    /\ Running(v)
    /\ nops[current[v]] < MaxOps
    /\ nops' = [nops EXCEPT ![current[v]] = @ + 1]

(* spawn: a new coroutine is READY on the global queue.                    *)
Spawn(v, u) ==
    /\ Call(v)
    /\ status[u] = "NEW"
    /\ status' = [status EXCEPT ![u] = "READY"]
    /\ xt' = [xt EXCEPT ![GQ] = Append(@, u)]
    /\ UNCHANGED <<affinity, current, pc, watchdog, idleLoops, idle, alive,
                   waitList, halted>>

(* A peer completes the operation u is parked on and calls vpu_ready.      *)
Ready(v, u) ==
    /\ Call(v)
    /\ VpuReady(u)
    /\ UNCHANGED <<affinity, current, watchdog, idleLoops, idle, alive,
                   halted>>

(* vpu_suspend -> vpu_syscall(core_wait): switch to the scheduler stack,   *)
(* join the wait list, become WAIT, then core_sched.                       *)
Park(v) ==
    /\ Call(v)
    /\ status' = [status EXCEPT ![current[v]] = "WAIT"]
    /\ waitList' = IF DETECT THEN waitList \cup {current[v]} ELSE waitList
    /\ EnterSched(v)
    /\ UNCHANGED <<xt, affinity, alive, halted>>

(* exit -> vpu_syscall(core_exit): main ends the process, others die.      *)
Exit(v) ==
    /\ Running(v)
    /\ IF current[v] = Main
       THEN /\ halted' = "exit"
            /\ UNCHANGED <<status, current, pc, watchdog, idleLoops, idle>>
       ELSE /\ status' = [status EXCEPT ![current[v]] = "DEAD"]
            /\ EnterSched(v)
            /\ UNCHANGED halted
    /\ UNCHANGED <<xt, affinity, alive, waitList, nops>>

(* vpu_clock_handler below the threshold: the watchdog ticks.              *)
Tick(v) ==
    /\ Running(v)
    /\ watchdog[v] + 1 =< THRESHOLD
    /\ watchdog' = [watchdog EXCEPT ![v] = @ + 1]
    /\ UNCHANGED <<xt, status, affinity, current, pc, idleLoops, idle, alive,
                   waitList, nops, halted>>

(* Past the threshold: vpu_syscall(core_yield) puts the coroutine READY on *)
(* the global queue and re-enters core_sched.                              *)
Yield(v) ==
    /\ Running(v)
    /\ watchdog[v] + 1 > THRESHOLD
    /\ status' = [status EXCEPT ![current[v]] = "READY"]
    /\ xt' = [xt EXCEPT ![GQ] = Append(@, current[v])]
    /\ EnterSched(v)
    /\ UNCHANGED <<affinity, alive, waitList, nops, halted>>

-----------------------------------------------------------------------------
(* tsc_vpu_initialize: "init" on the global queue, every VPU in core_sched *)
Init ==
    /\ xt = [i \in 0 .. P |-> IF i = GQ THEN <<Main>> ELSE <<>>]
    /\ status = [t \in Co |-> IF t = Main THEN "READY" ELSE "NEW"]
    /\ affinity = [t \in Co |-> GQ]
    /\ current = [v \in Vpu |-> NIL]
    /\ pc = [v \in Vpu |-> "sched"]
    /\ watchdog = [v \in Vpu |-> 0]
    /\ idleLoops = [v \in Vpu |-> 0]
    /\ idle = P
    /\ alive = P
    /\ waitList = {}
    /\ nops = [t \in Co |-> 0]
    /\ halted = "no"

SchedStep(v) == Dispatch(v) \/ Idle(v) \/ Sleep(v) \/ VpuBacktrace(v)

Next ==
    \E v \in Vpu :
        \/ SchedStep(v)
        \/ Spurious(v) \/ Resume(v)
        \/ \E u \in Co : Spawn(v, u) \/ Ready(v, u)
        \/ Park(v) \/ Exit(v)
        \/ Tick(v) \/ Yield(v)

(* Each VPU thread keeps looping in core_sched, a woken thread reacquires  *)
(* the mutex, and the clock signal keeps arriving (ENABLE_TIMER). User     *)
(* code has no fairness: a coroutine may spin without calling the runtime. *)
Fairness ==
    \A v \in Vpu : /\ WF_vars(SchedStep(v))
                   /\ WF_vars(Resume(v))
                   /\ WF_vars(Tick(v) \/ Yield(v))

Spec == Init /\ [][Next]_vars /\ Fairness

(* A build without ENABLE_DAEDLOCK_DETECT (DETECT = FALSE) has no idle      *)
(* accounting, sleep, wake-up or backtrace code: its VPUs only dispatch,   *)
(* and its coroutines run. The disjuncts left out are disabled there.      *)
NextNoDetect ==
    \E v \in Vpu :
        \/ Dispatch(v)
        \/ \E u \in Co : Spawn(v, u) \/ Ready(v, u)
        \/ Park(v) \/ Exit(v)
        \/ Tick(v) \/ Yield(v)

SpecNoDetect == Init /\ [][NextNoDetect]_vars /\ Fairness

-----------------------------------------------------------------------------
TypeOK ==
    /\ xt \in [0 .. P -> Seq(Co)]
    /\ status \in [Co -> Status]
    /\ affinity \in [Co -> 0 .. P]
    /\ current \in [Vpu -> Co \cup {NIL}]
    /\ pc \in [Vpu -> {"sched", "run", "sleep", "woken"}]
    /\ watchdog \in [Vpu -> 0 .. THRESHOLD]
    /\ idleLoops \in [Vpu -> 0 .. MAX_SPIN_LOOP_NUM]
    /\ idle \in 0 .. P /\ alive \in 1 .. P
    /\ waitList \subseteq Co
    /\ nops \in [Co -> 0 .. MaxOps]
    /\ halted \in {"no", "exit", "deadlock"}

QueueEntries(t) ==
    {e \in UNION {{i} \X DOMAIN xt[i] : i \in 0 .. P} : xt[e[1]][e[2]] = t}

RunsOn(t) == {v \in Vpu : current[v] = t}

(* Spec 3 (coroutine): a coroutine is on exactly one ready queue entry iff *)
(* READY and runs on exactly one VPU iff RUNNING; vpu_ready, core_yield    *)
(* and core_sched's dequeue keep the two in step across VPUs.              *)
Lifecycle ==
    \A t \in Co :
        /\ Cardinality(QueueEntries(t)) = IF status[t] = "READY" THEN 1 ELSE 0
        /\ Cardinality(RunsOn(t)) = IF status[t] = "RUNNING" THEN 1 ELSE 0

(* vpu_backtrace declares a deadlock only when no coroutine can run: the   *)
(* last VPU to go idle has scanned every queue it may take work from.      *)
DeadlockSound ==
    halted = "deadlock" => \A t \in Co : status[t] \notin {"READY", "RUNNING"}

(* Spec 4.1 and E6: every coroutine made ready is eventually run (a sleeping *)
(* VPU is woken by vpu_wakeup_one when a coroutine is readied onto its     *)
(* queue), unless the process ended.                                       *)
ReadyEventuallyRuns ==
    \A t \in Co : status[t] = "READY" ~> (status[t] = "RUNNING" \/ halted # "no")
=============================================================================
