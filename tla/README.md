# A TLA+ model of mipOS

mipOS is a cooperative multitasking kernel in C for small targets. This directory
holds TLA+ modules that model it, TLC configurations that check them on small
instances, and proofs that TLAPS checks for every value of the constants.
`PROJECT.json` lists the runs, the source lines behind every definition, the
hazards and the theorems.

## The system

| part | source | state | model |
|---|---|---|---|
| task scheduler | `mipos_kernel.c`, `mipos_kernel.h`, `mipos_task.c` | `task_table`, `current_task`, `task_context_ptr`, `rtc_counter` | `MiposKernel` |
| software timers | `mipos_timer.c`, `mipos_kernel.c:176-250` | `timer_table`, `timer_bitmap`, `next_rtc_timeout` | `MiposTimers` |
| message queue | `mipos_queue.c` | ring, count, `suspended_tid` | `MiposQueue`, `MiposFifo` |
| mutex | `mipos_mutex.h` | `state` | `MiposMutex` |
| memory pool | `mipos_mpool.c` | free list in the blocks | planned |
| heap | `mipos_malloc.c` | list of free and list of used blocks | planned |
| file system | `mipos_tfs.c` | cluster table, descriptors, file locks, disk | planned |
| stdio | `mipos_stdio.c` | none of its own | planned |
| console | `mipos_console.c` | transmit pool and queue, receive buffer | planned |
| disk registry, host disk | `mipos_diskio.c`, `arch/qemu-arm/mipos_qemu_hostdisk.c` | driver table, open image | planned |
| tick interrupt, critical sections | `arch/*` | pending ticks, interrupt mask | planned |
| lwIP interface | `net/lwip` | packet buffers of lwIP | not modelled |
| FatFs, STM8 library | `fatfs`, `arch/stm8/stm8s_lib` | third party | not modelled |
| examples, tests | `examples`, `tests` | applications | not modelled |

There is one thread of control. A task runs until it blocks, yields or returns;
then the scheduler serves the software timers, runs the real-time tasks it meets
in its search, and dispatches the next task. The only asynchronous event is the
tick interrupt that advances the RTC. Tasks therefore interleave at their
blocking calls only, and callbacks (timer handlers, real-time tasks, the idle
callback) make kernel calls between the steps of the scheduler. The queue, the
mutex and the file system rest on nothing else than this.

## Modules

**MiposKernel.** `task` is the task table; a status is the set of its bits.
`pc` tells where the thread of control is: the label `scheduler`, the search
loop, a real-time task, the idle task, the state machine (TSM), a task, or
`"wild"` after control is lost (a jump to a context that is not live, or a write
outside of the table). A saved context
(`reg_state`) is reduced to whether it belongs to the task now in the slot
(`ctx`) and which call saved it (`ctxSig`). Each kernel step, each blocking call
and each other call is one action. A real-time task may return 0, or a value that
the kernel takes for the id of a task (DPC). A task body may make any of the calls in the
constant `Ops`, so a model holds for all applications that use those calls.

**MiposTimers.** One action per timer call, and the timer block of the scheduler
as a loop (`pc` in scan, expire, cancel, select), so that handlers make timer
calls in the middle of the scan. Tasks are reduced to the calls they make.

**MiposQueue** is the ring with the registration and notification of the waiting
task. **MiposFifo** says what it promises: a bounded first-in first-out queue.

**MiposMutex** is the state byte and the polling loop of `mipos_mu_lock`. Test and
set of the byte are one action because the code has no yield between them and no
interrupt handler takes a mutex.

Both have the same small model of the scheduler: the search goes round the tasks
(`cur`), one visit per step. A visit passes by a task with nothing to do, wakes a
suspended one (`mipos_kernel.c:341-373`: counts down its delay, or makes it READY
and goes on with the search), or dispatches a READY one. A task that waits thus
needs two visits to run again, and others run in between. `visits` in `MiposMutex`
is the number of visits until a task is READY, `ready` in `MiposQueue` the set of
waiters that the first visit has made READY. Which other tasks exist, and when
they block, is left open.

`MCMipos*` give constants values for TLC. `*Proofs` hold the proofs.
In every module the definitions marked "Mutant" are deliberately wrong forms of
the definition that follows; the properties are known to tell them apart.

## Runs

Passing runs:

| run | shows |
|---|---|
| `kernel_lifecycle` | tasks that signal, freeze, delete, create and restart each other: no panic, no resume of a dead context, no wait with leftovers, no lost signal, no unasked thaw, idle only when nothing can run |
| `kernel_realtime` | the same safety with real-time tasks, DPCs for suspended tasks, and calls from callbacks; no search goes on for more than its bound although DPCs move `current_task` |
| `kernel_anydpc` | no panic even when real-time tasks return any value (a value outside of the table loses control) and tasks reuse their slot |
| `kernel_delays` | liveness with freezes, deletions and restarts: delays end, awaited signals and ready tasks are served, searches end |
| `timers_all` | handlers always exist, one-shots expire once |
| `timers_served` | the cached deadline is never beyond an active one; liveness: timers fire, cancellations are notified. No handler cancels or replaces its own timer, no timer is restarted, and no task starts a timer between a cancellation and its next yield |
| `queue_shared` | bounded FIFO, no lost wake-up, the waiter is remembered and resumed by the round-robin search, with two receivers and deletions |
| `mutex_polite` | mutual exclusion, a state byte that tells the truth, the waiter gets the mutex; two tasks share it among three that come and go, a task yields after an unlock, no holder is deleted, and tasks are created while none waits for the mutex |

Violation runs state what a comment or a document says and show that the code
does otherwise; `findings` in `PROJECT.json` quotes the line. Each adds to a
disciplined application the call that makes the difference.

| run | the code |
|---|---|
| `kernel_self_freeze` | a task that freezes itself is thawed by its next blocking call |
| `timers_restart` | a restarted timer never expires |
| `queue_two_receivers` | a blocking receive returns without an item while another task waits; it returns 0 then, which `docs/wiki/Programming-Model.md:266` takes for success (the code and the tests have 1 for an item) |
| `mutex_foreign_unlock` | an unlock by another task breaks exclusion |

### Conditions on the application

The passing runs and some theorems leave calls out of `Ops`. These are left out
because TLC finds a counterexample with them, which a reader can reproduce by
adding them to the `Ops` of a run that checks the property:

- `dpc_any`: a real-time task returns the id of a task that is not suspended. The
  kernel sets `wkup` and READY regardless (`mipos_kernel.c:280`): a task that has
  never run is resumed from a dead context (`OwnContext`), a frozen one is thawed
  (`FrozenUntilUnfrozen`), and for a deleted or real-time one the search need not
  end (`SearchBounded`).
- `dpc` in a table of four: a real-time task that promotes the same task in every
  search keeps the search from the slots behind its own (`ReadyRuns`). In the
  table of three of `kernel_delays` there is no such slot.
- `reuse_own_slot` with two calls between scheduling points: a task deletes itself
  and creates another, which gets its slot; the creator's next blocking call takes
  the slot over (`OwnContext`).
- `sleep` with count 0 while the RTC is 0: deadline 0 means "none", the sleep
  never ends (`DelayEnds`; `mipos_kernel.c:354`).
- `create_rt` in `kernel_lifecycle`: a real-time task that creates a task in the
  middle of a search, in a slot the search has passed, makes the idle task run
  although that task is READY (`IdleMeansNothingToRun`); the next search finds it.
- `restart`, `reuse_in_expire` of timers: the timer is not, or no longer, in the
  set of active timers and never expires (`TimerFires`).
- `cancel_in_expire`: a one-shot timer cancelled in its own handler is never
  notified (`CancelNotified`).
- `cancel_start`: the start defines the deadline that the cancellation had made
  undefined, and another timer is served late (`NextIsEarliest`).
- `delete` with `BlockingReceiveDelivers`: the id of a deleted waiter stays in the
  queue (`mipos_queue.c:85`), and later receives do not block, even with a single
  receiver that is created again.
- For `LockAcquired`: `relock` (a task locks again before it yields), `lock_held`
  and `delete_holder` (the mutex stays locked), `create_any`, and a third task in
  `Users`. With three users all of which yield after every unlock, two can take
  turns such that the third always polls while one of them holds the mutex.

Others are left out for the size of the state space only. TLC finds no
counterexample to the properties of `kernel_delays` when `waitfor`, `timer_cbk`,
`idle_cbk`, `create_rt`, or `create_rt` with `dpc` is added to it, one at a time.

One more fact is visible in the model without a property: the search runs a
real-time task before it looks at FROZEN (`mipos_kernel.c:266`).

### Bounds

Three table entries (idle and two tasks) give every pairwise interleaving of
calls, and a search that wraps. `MaxCalls` bounds the calls between two
scheduling points: 2 where a pair of calls matters (delete then create, freeze
then unfreeze). Two timers make a scan with a neighbour before and after the one
served; `MaxRtc` leaves room for several periods. A ring of three with three
tasks turns over many times. The mutex has a third task that does not use it, so
that the two users can be next to each other or not when the search comes round,
and delays of zero and one, so that a task skips polls of the other. Signals are the reserved ones and at most one user
signal. `CHECK_DEADLOCK FALSE` is used where a model really stops: after control
is lost, or when bounded time has run out.

### Fairness

The kernel loop never stops, so its steps (in the queue and the mutex, the visits
of the search) are weakly fair. A task that runs comes to its next yield: this is
the contract of a cooperative kernel, without which nothing else runs. A task
that does nothing but call `mipos_q_receive` while another one waits breaks it,
since that call does not block (`queue_two_receivers`); `ReceiverServed` is about
applications that keep it. The RTC keeps advancing up to its bound.

No fairness is assumed between tasks, nor on their resumption; the search has to
provide it. The mutex adds what its holder owes the others: what it blocks for
comes to pass, and it does not run forever without its unlock (strong fairness,
because it may block and be resumed any number of times before).

## Proofs

All theorems hold for every value of the constants that satisfies the named
`ASSUME` of the module, in particular for every number of tasks, timers, queue
entries and for any bound.

- `MiposKernelProofs`. `StatusInv` adds to the types the shapes a status can
  have (one base bit, possibly with FROZEN) and that at `tsm` the selected task
  has passed the search's filter. It gives `TypeCorrect` and `NeverPanics`.
  `ContextInv` relates status, `wkup` and the saved context: a task that is
  suspended or marked `wkup` has a context of its own, saved by the call it waits
  in. `ContextsAreOwn`, `RetiredTasksReturned` and `WaitsMatch` follow for
  applications without `dpc_any` and `reuse_own_slot`.
- `MiposSignalProofs`. How `pending` changes in each step gives `NoSignalLost`,
  `NoTimeoutLeftOver`, for every set of calls, and `FrozenStaysFrozen` (without
  `dpc_any`, `reuse_own_slot` and `freeze_self`).
- `MiposTimersProofs`. `TimersInv` gives `NoNullHandler` and
  `OneShotsExpireOnce`. `DeadlineInv` bounds the cached deadline in
  the select loop, for the timers it has visited, and while tasks run; without
  `cancel_start` and with positive intervals it gives `DeadlineIsEarliest`.
- `MiposQueueProofs`. `QueueInv` ties `count` to the indices and the registered
  task to its wait. It gives `NoWakeupLost`, `WaiterIsRemembered` and, with the
  contents of the ring as refinement mapping, `QueueIsFifo`.
- `MiposMutexProofs`. `Exclusion` when only a holder unlocks; `StateTellsHolder`
  when moreover no holder is deleted. Both for any number of tasks and users.

Only model-checked: all liveness properties (outside of the prover's reach), and
`IdleMeansNothingToRun` and `SearchBounded`, whose proof needs an invariant about
the part of the table the current search has visited.

## Not modelled, and the plan

Machine state (stacks, registers, the assembly of the ports) is not modelled
beyond `ctx`. The RTC does not wrap and is read in one piece. Interrupts only
advance the RTC: a notification from an interrupt handler, which
`docs/mipos-internals.md:635` allows on some ports, could fall between the read and
the write of `signal_pending` in `mipos_kernel.h:369` and be lost, and is not
modelled. Timer ids are those of the table; `mipos_timer_restart` does not compare
them with its size. The next modules:

1. `MiposMalloc`, `MiposMpool`: the arena stays a partition into blocks; merging
   and compaction; realloc when memory is short; conservation lemmas.
2. `MiposTfs`: cluster chains, descriptors and file locks with tasks interleaving
   at the yields; the disk copy and restarts.
3. `MiposConsole`: transmit pool over `MiposQueue`, receive buffer, splitting.
4. `MiposRtc`: tick interrupt, pending count, torn reads, nesting of critical
   sections, wrap-around; the disk registry and the host disk's range check.
5. `MiposCoop`, an abstract cooperative scheduler that `MiposKernel` implements
   and on which the queue, the mutex and the file system rest; the sweep
   invariant for the two search properties.
