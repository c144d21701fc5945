# TLA+ models of libcoroc

This directory holds TLA+ models of the libcoroc coroutine runtime
(`src/`), the TLC configurations that check them, and `PROJECT.json`, which
maps every modelled definition to the source lines it stands for and lists
the runs, mutants, findings and hazards.

## 1. The system

libcoroc is an M:N runtime: `P` kernel threads (VPUs) cooperatively run many
coroutines that talk over channels with CSP-style select.

| Component | Source | State it keeps | Operations |
|---|---|---|---|
| Channels | `src/channel.c` | ring buffer `buf` with `sendx`, `recvx`, `nbuf`; wait queues `send_que`, `recv_que` of quanta; spin `lock` | `_channel_send`, `_channel_recv` (blocking or not), `fetch_quantum`, `channel_allocate`, `channel_dealloc` |
| Select | `src/channel.c` | select set: list of elems (type, chan, buf) and a lock chain; per coroutine `qtag` | `chan_set_send`, `chan_set_recv`, `_chan_set_select` (fast path, park, resume) |
| VPU scheduler | `src/src/vpu.c`, `src/src/vpu.h` | per VPU `current`, `scheduler`, `watchdog`, `ticks`; manager: `P+1` ready queues (`xt[P]` global), `alive`, `idle`, condition variable, `wait_list` | `core_sched`, `core_elect` (work stealing), `vpu_syscall`, `core_wait`, `core_yield`, `core_exit`, `vpu_suspend`, `vpu_ready`, `vpu_wakeup_one`, `vpu_clock_handler`, `vpu_backtrace` |
| Coroutine lifecycle | `src/src/vpu.c` (coroutine.c is not in `src/`) | status READY/RUNNING/WAIT/DEAD, `syscall` flag, `hold`/`unlock_handler`, affinity | spawn onto the global queue, yield, exit, wait |
| Netpoll | `src/src/netpoll.c` | poll descriptor: `done`, `mode`, `wait`, `lock`, refcount, optional deadline timer | `tsc_net_wait`, `tsc_net_timedwait`, `__tsc_netpoll_timeout`, `tsc_netpoll_wakeup` |
| VFS offload | `src/src/vfs.c` | manager: `items`, `working`, mutex, condition, `wait_que`, `ready_que` | `__tsc_vfs_add_ops`, `tsc_vfs_routine` (worker threads), `tsc_vfs_get_coroutine`, `tsc_vfs_working` |
| Services | `src/src/dist/service.c` | service: `comm`, `quit` channels, client count | message pump (select over comm, quit, timer), client/server loops |
| Examples | `src/examples/C/findmax.c`, `src/timeshare.c` | - | fan-out max over rendezvous channels; yield loop |

How they interact. A channel operation runs under the channel's spin lock
with signals masked. When it must block it links a quantum (on its own stack)
into a wait queue and calls `vpu_suspend(NULL, lock, handler)`:
`vpu_syscall` saves the coroutine's context and switches to the VPU's
scheduler stack, where `core_wait` marks it WAIT and only then calls the
unlock handler. A peer that later pops the quantum copies the value and calls
`vpu_ready`, which marks the waiter READY and links it onto the ready queue of
its affinity VPU. `core_sched` elects from the local queue, then the global
queue, then (with `ENABLE_WORKSTEALING`) the other VPUs' queues, then the VFS
ready queue. Select parks one quantum per registered operation, all under its
lock chain; the first peer whose `TSC_CAS(&qtag, NULL, chan)` succeeds wins,
and the others, finding the CAS failed, drop the quantum. Netpoll and VFS
park coroutines the same way (`vpu_suspend` with their own lock) and wake
them from a poller, a timer or a worker thread. With
`ENABLE_DAEDLOCK_DETECT`, idle VPUs sleep on a condition variable and the
last one going idle declares a deadlock.

What is hard:
- concurrency: several VPUs run channel operations on different channels at
  once; select holds several locks; wakers run on other VPUs than the waiter;
- the lock-after-save rule: a waiter must not be visible to wakers before its
  context is saved;
- select's claim protocol and its cleanup of the losing quanta;
- ordering: buffered values and parked senders, FIFO wait queues (stated
  as a whole by the refinement of `Channel` to `AbstractChannel`);
- timeouts racing wakeups in netpoll; worker threads and condition variables
  in VFS; sleeping VPUs and the wakeup condition.

Properties that make each part correct:
- channels: `nbuf <= bufsize`; a live sender is parked only behind a full
  buffer and a live receiver only in front of an empty one; no value lost or
  duplicated; per-producer FIFO; no lost wakeup;
- select: at most one operation completes a blocked select, `active` names
  it, and no losing quantum outlives the call; lock chains of overlapping
  selects never wait on each other in a cycle;
- scheduler: a coroutine is on a ready queue exactly when READY, runs on at
  most one VPU, and every ready coroutine is eventually run; a sleeping VPU
  is woken when work appears;
- netpoll: a parked coroutine is readied exactly once, whether the poller or
  the timeout gets there first; the descriptor is not used after release;
- VFS: every submitted operation is executed once and its coroutine
  returned; a worker never takes from an empty queue.

## 2. Modules

### Channel (`Channel.tla`, instantiated by `MCChannel.tla`)

Models `src/channel.c` whole, with the parts of `vpu.c` a channel operation
drives (`vpu_suspend`/`vpu_syscall`, `core_wait`, `vpu_ready`, and the
election in `core_sched`).

- State: `ring`, `sendx`, `recvx`, `nbuf`, `sendq`, `recvq`, `lock` per
  channel; `status`, `qtag` per coroutine; `pc` says where a coroutine is
  (`user`, `chain` = spinning on the lock chain of a new select (`want`
  holds that select), `core_wait` = switched to the scheduler with the lock still held,
  `parked`, `sel_resume` = back from a select's suspend); `runq` abstracts
  the `P+1` ready queues to one sequence any entry of which may be elected.
  History variables `log` (values received per channel), `accepted` (sends
  completed) and `done` (channels that completed the current park) exist for
  the properties only.
- Actions: `ChannelSend`, `ChannelRecv` (one atomic step under the lock:
  `SendHandoff` / `SendBuffer` / `SendBlockOrBusy` and the receive
  counterparts), `SelectBegin` (entry of `_chan_set_select`),
  `LockChainStep` (one spin-lock acquisition of `lock_chain_acquire`, on
  entry and again on the resume path), `ChanSetSelect` (with the chain held:
  fast path in registration order with the stale quanta each failed try
  drops, park, busy and release), `SelectResume` (with the chain re-held:
  extract losers, return `qtag`, release), `CoreWait`, `Dispatch`.
- Values are `<<producer, n>>` pairs, so conservation and FIFO can be read
  off the history. Operations per coroutine are bounded by `MaxOps[t]`, the
  programs by `Prog` (a set of send/recv/select operations per coroutine).
- The lock chain: `lock.h` is not in `src/`, so the chain is modelled from
  the spec: the distinct channel locks of the set, taken one per step in a
  canonical order (`LockOrder`, by address) and released together.

### AbstractChannel (`AbstractChannel.tla`)

What a channel promises with no locks, quanta or scheduler: a FIFO buffer
`buf[c]` of at most `Cap[c]` values (`Put`, `Get`) and direct transfers
(`Handoff`) that happen only at an empty buffer (a receiver was waiting) or a
full one (a sender was waiting, and its value overtakes the buffered ones:
the `channel_fifo` finding, stated here as the code's actual contract).
`Channel` instantiates it with the refinement mapping `buf <- Buffered(c)`
(the ring read from `recvx`, `nbuf` long), `log` and `accepted` unchanged;
every other `Channel` step is an abstract stutter. `ImplementsAbstract`
(`Abstract!Spec`) is checked as a property of `channel_safety`.

### Scheduler (`Scheduler.tla`, instantiated by `MCScheduler.tla`)

Models `src/src/vpu.c`: the VPU threads, the ready queues and what moves
coroutines between them.

- State: `xt[0..P]` (the `P` local queues and the global queue `xt[P]`),
  per coroutine `status` and `affinity`, per VPU `current` (NIL = the
  scheduler coroutine), `watchdog`, `idleLoops` (core_sched's local
  `idle_loops`) and `pc` (`sched` in the core_sched loop, `run` on a
  coroutine's stack, `sleep` in `pthread_cond_wait`, `woken` signalled but
  not yet holding the mutex); the manager's `idle`, `alive` and `wait_list`;
  `halted` records that main exited or that `vpu_backtrace` declared a
  deadlock (the runtime dumps the parked coroutines and aborts).
- Scheduler actions, one per branch of a `core_sched` iteration: `Dispatch`
  (candidate from the local queue, the global queue, or with `STEALING` the
  lowest-numbered non-empty sibling; `idle--`, affinity := this VPU),
  `Idle` (empty scan under the spin threshold), `Sleep` (`alive--`, wait on
  the condition), `VpuBacktrace` (last alive VPU), `Spurious` and `Resume`
  (return from `pthread_cond_wait`, `alive++`).
- Coroutine actions: `Spawn` (from the spec: `coroutine.c` is not in `src/`),
  `Ready` (a peer's `vpu_ready`, including `vpu_wakeup_one` with its
  `alive < P && idle < 1` condition), `Park` (`vpu_suspend` ->
  `vpu_syscall(core_wait)`), `Exit` (`core_exit`: main ends the process),
  `Tick` and `Yield` (`vpu_clock_handler`, `core_yield` to the global queue).
  Each syscall re-enters `core_sched` (`EnterSched`: `idle++`,
  `watchdog = 0`). A coroutine makes at most `MaxOps` runtime calls; ticks
  are unbounded, so a coroutine can loop forever (E6, `timeshare.c`).
- Build options are constants: `STEALING` (`ENABLE_WORKSTEALING`), `DETECT`
  (`ENABLE_DAEDLOCK_DETECT`); the timer is on.

### Vfs (`Vfs.tla`, instantiated by `MCVfs.tla`)

Models `src/src/vfs.c`: coroutines hand blocking file operations to worker
threads.

- State: `items`, `working`, `waitQue`, `readyQue` and the holder of the
  VFS `mutex`; per worker `wpc` (`top` of the loop, `waiting` in
  `pthread_cond_wait`, `woken` by a signal but not yet holding the mutex,
  `process`) and the operation in its `hand`; per coroutine `vst` (`user`,
  `suspending` = switching to the scheduler with the mutex held, `wait`);
  `aborted` records a failed `assert(ops != NULL)`. An operation is named by
  its coroutine (`ops->wait`); its kind and result are left out.
- Actions: `Submit` (`__tsc_vfs_add_ops`: queue, `items++`, signal on
  0 -> 1, suspend holding the mutex), `CoreWait` (the unlock after the
  save), `Lock` (loop head: wait if `items == 0`, else take), `Reacquire`
  (a signalled worker takes without re-checking), `Process` (the operation
  and the `ready_que` add), `GetCoroutine` (`tsc_vfs_get_coroutine` from
  `core_sched`). `VfsWorking` is `tsc_vfs_working`.

### Netpoll (`Netpoll.tla`, instantiated by `MCNetpoll.tla`)

Models `src/src/netpoll.c`: a coroutine whose fd would block parks on a poll
descriptor until a VPU polling the driver, or its deadline timer, readies it.

- State: per coroutine `cst` (`user`, `suspending` with `desc->lock` held,
  `wait`, `ready`, `resumed`) and `nwaits`; descriptor `<<c, k>>` is the k-th
  wait of coroutine c. Per descriptor: whether its lock is held by the
  parking coroutine (`locked`), whether it is registered with the driver
  (`reg`), `done`, `mode`, `ref` (`refcnt`), the timer callback's position
  `tpc` and CAS outcome `tsucc`, the poller's position `ppc`, and the number
  of `vpu_ready` calls made for it (`readies`). `uaf` records a step that
  touched a descriptor after its last put.
- Actions: `NetWait` / `NetTimedWait` (through `Park`: `DescInit`
  (`__tsc_poll_desc_init`), lock, add, arm
  the timer with a second reference, suspend), `CoreWait` (the unlock after
  the save), `TimerLock` / `TimerReady` / `TimerPut` (the three steps of
  `__tsc_netpoll_timeout`: CAS under the lock; `vpu_ready` after the unlock;
  the put), `Fetch` (the driver returns a registered descriptor to
  `core_sched`'s poll), `Wakeup` / `WakeReady` (`tsc_netpoll_wakeup`: remove
  under the lock, then `vpu_ready` after it; the CAS is `#if 0` in the code),
  `Resume` (`core_sched` elects the readied coroutine), `NetWaitReturn`
  (`tsc_net_wait` after the suspend: read `mode`, put) and
  `NetTimedWaitReturn` (`tsc_net_timedwait` after the suspend: delete the
  timer, put its reference if it had not fired, read `mode`, put).
- The driver and the timer heap are abstracted: any registered descriptor
  may be fetched, any armed timer may fire, in any order.

### Runtime (`Runtime.tla`, instantiated by `MCRuntime.tla`)

Composes Scheduler and Vfs as they meet in a build with `ENABLE_VFS` and
`ENABLE_DAEDLOCK_DETECT`: `S == INSTANCE Scheduler` and
`V == INSTANCE Vfs WITH Co <- VfsCo, ...` share no variable (Vfs's `nops` is
renamed `vnops`); a step of one component leaves the other's tuple
unchanged, and the interaction steps change both.

- `VfsSubmit`: the coroutine running on a VPU calls an asynchronous VFS
  wrapper (`__tsc_vfs_close` as representative), i.e. `V!Submit`.
- `VfsSuspend`: `vpu_suspend` -> `core_wait` on that VPU: `S!Park` (WAIT,
  onto `wait_list`, back to the scheduler) together with `V!CoreWait` (the
  VFS mutex released after the save).
- `VfsElect`: `core_sched` after `core_elect` returned NULL takes
  `tsc_vfs_get_coroutine`'s coroutine and runs it (`idle--`, RUNNING,
  `current`) -- without touching `wait_list`, as in the code.
- `Backtrace` / `VfsBusy`: the last alive VPU past `MAX_SPIN_LOOP_NUM`
  declares a deadlock only when `tsc_vfs_working` (under the VFS mutex) says
  no activity; otherwise it goes round its loop again.
- The scheduler's `Idle` and `Sleep` also require the VFS ready queue empty
  (they follow the `NULL` from `tsc_vfs_get_coroutine`); user-code steps
  (spawn, ready, park, exit, yield) are taken only by a coroutine that is not
  inside `__tsc_vfs_add_ops`, whose signal mask also holds off the watchdog,
  and a peer readies only a coroutine parked on a channel, not on the VFS.

### FindMax (`FindMax.tla`, instantiated by `MCFindMax.tla`)

Models `src/examples/C/findmax.c` (scenario E4): main and the tree of
`find_max` coroutines it spawns, each parent talking to each child over its
own capacity-0 channel.

- A coroutine is its path in the spawn tree (main `<<>>`, its child `<<0>>`,
  the k-th child of p `Append(p, k)`); `Node` is every path the split of
  `MAX` can reach (`Depth`, recursive). State per coroutine: `pc`, the
  locals `size`, `start`, `max[2]` (`mx`), the loop index `i`; the global
  `array`, nondeterministic over `Vals` (`gen_array_elem`'s `rand()`); `oob`
  records a read past the array.
- Actions: `Spawn` (channel and coroutine allocation), `SendSize` and
  `SendStart` (a parent's send meeting the child's recv; a size <= 0 child
  exits), `Read` (`max[0]`, `max[1]` read unconditionally, a read past the
  array yielding any value), `Cmp`, `Reply` (the child's send meeting the
  parent's recv into `max[k]`, then the child's exit; for main, the check
  and exit). A send and its recv on a capacity-0 channel are one step: the
  `Handoff` of AbstractChannel, which `channel_safety` shows Channel refines.

## 3. Runs

| Run | Config | Expect | What it shows |
|---|---|---|---|
| `channel_safety` | `MCChannel.cfg` | pass | three coroutines: t1 sends (blocking on a, blocking and non-blocking on b), t2 receives (blocking and non-blocking on a) and polls with a non-blocking select registered `recv b`/`recv a`, t3 selects (blocking `recv a`/`recv b`, blocking `send b`/`recv a`, non-blocking `send a`/`recv b`); channel a has bufsize 2, b is a rendezvous channel; three operations for t1 and t2, two for t3. Checks `TypeOK`, `ChannelInv`, `SelectClaimUnique`, `ReadyQueueSound`, `NoStaleQuantum`, `BufferConservation`, `NoLockCycle` (no two lock chains wait on each other), `ClaimedWaiterResumes` (a waiter completed by a peer always gets back to user code) and `ImplementsAbstract` (Channel refines AbstractChannel). |
| `channel_fifo` | `MCChannelFIFO.cfg` | violation | t1 sends three values on a (bufsize 2), t2 receives: the third value, parked, is received first. |
| `sched_liveness` | `MCSchedulerLive.cfg` | pass | two VPUs with stealing; main spawns two coroutines, all may yield (watchdog), park, ready each other, exit; deadlock detection off (`SpecNoDetect`: the build without `ENABLE_DAEDLOCK_DETECT` has no sleep, wake-up or backtrace steps; the detector's steps are exercised in `runtime_safety`): `ReadyEventuallyRuns`, also while a coroutine loops forever and is only preempted by the watchdog. |
| `sched_sleeper` | `MCSchedulerSleep.cfg` | violation | deadlock detection on: `ReadyEventuallyRuns` fails. VPU 0 sleeps; main, readied onto VPU 0's queue, starves while VPU 1 keeps re-electing a looping coroutine from the global queue. |
| `vfs_working` | `MCVfsWorking.cfg` | violation | two workers: `VfsWorkingSound` (when `tsc_vfs_working` reports no activity, no coroutine is parked on an operation) fails, w2 clears `working` on going to wait while w1 runs an operation. |
| `vfs_assert` | `MCVfsAssert.cfg` | violation | two workers: `AssertHolds` fails, a busy worker takes the only operation before the signalled one reacquires the mutex. |
| `runtime_safety` | `MCRuntime.cfg` | pass | Scheduler and Vfs composed: two VPUs, stealing and deadlock detection on, main spawns a and b, each may submit one VFS operation, one worker. `TypeOK`, `Lifecycle` (exactly one queue entry iff READY, exactly one VPU iff RUNNING, also for coroutines resumed from the VFS), `DeadlockSoundVfs` (a deadlock is declared only when nothing is READY or RUNNING and no coroutine waits on a VFS operation), `SavedBeforeVisible` (no worker takes, and `ready_que` offers, no coroutine whose context `core_wait` has not saved, with the VPU's real switch), `VfsOpCompletes` (every submitted operation reaches `ready_que` although the worker is signalled only when `items` goes 0 -> 1, so b's operation queued behind a's must be found by the worker's loop). |
| `runtime_waitlist` | `MCRuntimeWaitList.cfg` | violation | `WaitListSound` fails: a submits, parks, the worker finishes, `core_sched` runs a while a is still on `wait_list`. |
| `findmax` | `MCFindMax.cfg` | pass | `MAX = 6` over every array in `{0,1}^6` (6 -> 3 + 3 -> (1 + 2) + (1 + 2), seven `find_max` coroutines): `TypeOK`, `ResultIsMax` (main's `check_max_elem` passes and the result is an element), `NoOutOfBoundsRead` (the unconditional `array[start + 1]` stays inside), `Terminates` (every coroutine reaches its exit, under weak fairness of the program's steps). |
| `netpoll_safety` | `MCNetpoll.cfg` | pass | two coroutines, two waits each, timed or untimed, timers racing the poller: `TypeOK`, `RefcountExact` (`refcnt` equals the waiter plus the timer while each still holds it), `WaitReturns` (a parked coroutine gets back to user code). |
| `netpoll_double_ready` | `MCNetpollDouble.cfg` | violation | `ReadyOnce` fails: timer and poller both call `vpu_ready` for one wait. |
| `netpoll_uaf` | `MCNetpollUaf.cfg` | violation | `NoUseAfterFree` fails: the poller locks a descriptor freed by the waiter's and the timer's puts. |

Bounds. Two channels (one buffered with two slots, so that `sendx` and
`recvx` wrap, one rendezvous), three coroutines (a producer, a consumer and a
selector, enough for a select to be raced by two peers on different channels
and for a stale quantum to meet a later operation; the consumer's select
registers the channels in the opposite order to the selector's, so two
chains overlap), three operations for t1 and t2 and two selects for t3
(a blocking select and a later one that meets its stale quanta). About
216 000 distinct states. Scheduler: two VPUs (enough for a sleeper
beside an awake VPU, stealing, and a last-alive VPU), three coroutines (main
and two it spawns, so one can loop while another waits on a queue),
`MaxOps = 2` runtime calls each, `THRESHOLD = 1` so the watchdog preempts
after one tick, and the code's `MAX_SPIN_LOOP_NUM = 2`. The
non-stealing build (`STEALING = FALSE`) is not among the runs; with it the
last awake VPU can declare a deadlock while main is READY on the sleeping
VPU's queue. Runtime: the same scheduler bounds, with a and b using the
VFS (`MaxVfsOps = 1` each, enough for one operation to queue behind the
other's while the worker is busy, and for a coroutine resumed by
`core_sched` to park or exit again) and one worker; about 610 000 distinct
states, no symmetry since main differs from a and b. FindMax: `MAX = 6` rather than the program's 16, so that the split reaches
odd sizes and one-element segments (16 only halves into twos); values
`{0, 1}` give every position of the maximum; 34 240 distinct states. Vfs runs alone only
in the two violation runs, with two workers and two coroutines of two
operations each; with one worker its properties are checked inside
`runtime_safety`. Netpoll: two coroutines with two
waits each (a second wait reuses nothing, but lets a stale poller or timer of
the first wait meet the second); about 212 000 distinct states with timers.

Fairness. `CoreWait`, `Dispatch` and `SelectStep` (a coroutine's steps
inside `_chan_set_select`: chain acquisition, the body with the chain held,
the resume path) are weakly fair: the scheduler loop never stops,
`core_wait` runs right after the switch to the scheduler stack, and a
coroutine inside select is a running thread executing runtime code with
signals masked. Without fairness on the select body a chain holder could
stop forever and starve every coroutine spinning on its locks. Fairness of `Dispatch` is an assumption about `core_sched` that the
Scheduler module is to check (a coroutine on the queue of a VPU that sleeps,
without work stealing, is not elected). User operations have no fairness: a
coroutine may stop at any time. Deadlock checking is off because programs can
legitimately block forever (all coroutines parked), which the runtime itself
reports through its deadlock detector.

In Scheduler every VPU's `core_sched` iteration is weakly fair (the loop never
stops), a signalled VPU reacquires the mutex (`Resume` weakly fair), and the
clock keeps ticking while a coroutine runs (`Tick \/ Yield` weakly fair,
`ENABLE_TIMER`). Spurious wakeups may happen but are not assumed. Deadlock
checking is off: main's exit and `vpu_backtrace` end the process.

In Runtime the worker threads (`WorkerStep`) and the VPU of a coroutine
inside `__tsc_vfs_add_ops` going on into `vpu_suspend` (runtime code with
signals masked) are weakly fair; the scheduler's steps are not, so
`VfsOpCompletes` stops at `ready_que`: `core_sched` takes from it only when
no other coroutine is runnable (hazard at `vpu.c:78`). Weak fairness of a
worker suffices although the mutex is only intermittently free, because
the coroutines submit a bounded number of operations. Spurious wakeups of
`pthread_cond_wait` are not modelled: they would fail `assert(ops != NULL)`
with one worker too, which `vfs_assert` already shows failing with two. Deadlock checking is off because
the pool rightly idles on its condition variable once every coroutine has
made its last call.

In Netpoll every step of the poller, the timer thread and the scheduler is
weakly fair, and so is `Fetch`: a registered descriptor's fd eventually
becomes ready (an untimed wait has nothing else to end it). Deadlock checking is off: the model stops once every wait is done.

In FindMax, `WF_vars(Next)`: every behaviour of the program is finite
unless some coroutine blocks forever, so weak fairness of the whole program
(the scheduler running some ready coroutine, which `sched_liveness` checks
for the build without the deadlock detector) suffices for `Terminates`; a
violation of it is a coroutine left waiting on a channel nobody serves.

## 4. Findings

- `channel_fifo`: `__channel_recv` (`src/channel.c:110`) serves a parked
  sender before the buffer. With bufsize >= 1, a sender that blocked behind a
  full buffer has its value received before the values already buffered,
  contrary to spec 8.4 and scenario E2.

- `sched_sleeper`: `vpu_wakeup_one` (`src/src/vpu.c:391`) signals only when
  `idle < 1`, but a sleeping VPU is itself counted in `idle`, so no sleeper
  is ever signalled. A coroutine readied onto a sleeper's queue starves while
  the awake VPU re-elects a looping coroutine from the global queue (which
  it checks before stealing). Spec 4.1 step 6 and E6 say otherwise.

- `vfs_working`: `tsc_vfs_working` (`src/src/vfs.c:135`, marked FIXME)
  reads one `working` flag that any worker clears on going to wait (line
  38), so with two workers it reports no activity while an operation runs,
  and the deadlock detector (`vpu.c:112-115`) may fire on its coroutine.
- `vfs_assert`: `tsc_vfs_routine` (`src/src/vfs.c:37`) waits under `if`,
  not `while`; with two workers the signalled one finds the queue empty and
  fails `assert(ops != NULL)`.
- `runtime_waitlist`: `core_sched` (`src/src/vpu.c:79`) runs the coroutine
  `tsc_vfs_get_coroutine` returns without extracting it from `wait_list`
  (only `vpu_ready`, `vpu.c:295`, does). A RUNNING coroutine stays listed as
  waiting: `vpu_backtrace` would requeue it, and its next `core_wait` adds
  its `wait_link` a second time.

- `netpoll_double_ready`: `tsc_netpoll_wakeup` (`src/src/netpoll.c:146`)
  has its CAS on `done` compiled out, so a poller that fetched a descriptor
  before the timeout removed it readies the coroutine a second time.
- `netpoll_uaf`: the descriptor a poll returns carries no reference
  (`src/src/netpoll.c:145`); the waiter and the timer can free it before the
  poller locks it. Re-enabling the CAS would not fix this.

## 5. Not modelled

- `channel_dealloc`: frees memory only; its TODO (wake sleepers) is not
  implemented, and there is no close operation in `src/channel.c` although
  the spec and `service.c` use `tsc_chan_close`.
- Context save/restore and signal masks: the save and the switch are one step
  of the model; the mask only makes a channel operation atomic with respect to
  the watchdog, which the model assumes.
- The netpoll drivers (epoll/kqueue, not in `src/`) and the timer heap:
  abstracted to nondeterministic `Fetch` and timer steps.
- Spawn and the coroutine record (`coroutine.c`, not in `src/`): spawn is
  modelled from the spec; stacks, priorities and refcounts are left out.
- Services: applications of channels and select, out of scope.
- `timeshare.c`: its coroutines only loop yielding or being preempted, which
  are the Scheduler's `Spawn`, `Yield` and `Tick`; it has no module of its own.
- VFS operation kinds and results: `Vfs` follows an operation through the
  queue, the worker and the ready queue, not what it computes. Two result
  defects are read from the worker's switch instead (listed as hazards):
  an asynchronous close always returns 0 (`vfs.c:60`), and an asynchronous
  lseek on a driver without `lseek` returns an uninitialised `off`
  (`vfs.c:83`), where the synchronous paths return the driver's result or -1.
- The user-level retry loops `tsc_net_read`, `tsc_net_write` and
  `tsc_net_timed_read` (`netpoll.c:15-51`): they only repeat `tsc_net_wait`
  / `tsc_net_timedwait`, which `Netpoll` lets a coroutine call up to
  `MaxWaits` times.
- The stack-allocated deadline timer (`netpoll.c:116`): whether its callback
  can outlive the waiter's frame depends on `tsc_del_intertimer`, which is
  not in `src/`.
