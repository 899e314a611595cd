# Minix-rt in TLA+

Models of Minix-rt in TLA+, the TLC runs that check them on small instances, and
TLAPS proofs of the properties that matter most for every number of tasks, CPUs
and nodes. `PROJECT.json` lists components, runs, mutants, hazards and theorems,
and maps every definition that models code to its source lines. A mapped range
starts at the comment that documents the function, where there is one. Paths
below are relative to `src/`.

## The system

Minix-rt is a microkernel for arm64. The kernel schedules tasks on several CPUs,
manages memory, interrupts and time, and passes messages; servers (the system
task, pm, vfs, drivers) receive requests at endpoints and reply. The parts meet
like this.

- A system call is a message. `core/ipc.c` queues it at the endpoint of a server
  and puts the sender to sleep on a wait queue until the reply. The server may
  call another server before it replies.
- Sleeping and waking go through the scheduler: `try_to_wake_up`, the runqueues
  of the CPUs, the classes that order a runqueue, load balancing between
  runqueues, and the idle loop of a CPU that has nothing to do.
- Below them are the locks (mutexes and queued spinlocks), function calls to
  other CPUs, interrupts and softirqs, high resolution timers, and the clocks.
- Memory comes from memblock at boot, which hands it to the page allocator; slab
  caches take pages from it; address spaces take pages for their tables. CPUs
  switch between address spaces with ASIDs.
- At boot the device tree blob is read with libfdt, scanned for memory, and
  unflattened into the live tree from which CPUs, interrupt controllers and
  addresses are found. Then the secondary CPUs are started.
- The base library (strings, printing, bitmaps, lists, trees) is used everywhere.

## Modules

A module has the state of its component as variables, an action for each
operation or for each section of one that other CPUs cannot divide, and its
properties at its end. Definitions keep the names of the code where they can.

| Module | Code | What a step is |
|---|---|---|
| `Ipc` | `kernel/core/ipc.c`, `wait.h`, `sched/wait.c` | one critical section of `ep_list_lock`, one wake-up, one store to a message node |
| `Sched` | `kernel/core/sched/core.c` | one section under a runqueue lock; where the code drops a lock inside an operation there is a state |
| `SchedClass` | `sched/fair.c`, `rt.c`, `idle.c`, the parts of `core.c` that call them | what one caller does under `rq->lock`, with the arithmetic of weights and virtual times |
| `LoadBalance` | domains, load averages, placement and pulling in `sched/core.c` | one store to a group or a domain, one step of a lockless walk, one placement or pull |
| `Idle` | `sched/idle.c`, `resched_task`, `select_nohz_load_balancer` | one access to a flag, a mask or the owner |
| `Mutex` | `core/locking/mutex.c`, `mutex-dec.h` | one atomic operation on `count` |
| `QSpinlock` | `core/locking/qspinlock.c` | one access to the lock word or to a queue node |
| `SmpCall` | `core/smp.c`, `llist.c` | one access to a list, an entry or a flag |
| `Interrupt` | `core/irq/handle.c`, `irq-gic.c`, `softirq.c`, `preempt.h` | entry, handler, end of interrupt, one softirq |
| `Hrtimer` | `core/time/hrtimer.c`, `clockevents.c`, `jiffies.c` | one section under `cpu_base->lock` |
| `Timekeeping` | `timekeeping.c`, `sched_clock.c`, `clocksource.c`, `seqlock.h` | one load or store of a field behind a sequence count |
| `CpuBoot` | `arch/arm64/core/smp.c`, `head.S`, `core/cpu.c`, `psci.c` | one step of the boot CPU or of a secondary |
| `Process` | `core/pid.c`, `fork.c`, `signal.c`, `exit.c` | a piece of a function between two points where another CPU matters |
| `Mmap` | `kernel/mm/mmap.c`, `core/system/*.c`, `uaccess.h`, `arch/arm64/mm/context.c` | one request of the system task, one page of a copy, one access of the ASID allocator |
| `PageAlloc` | `kernel/mm/page_alloc.c` | entering a page list, working on it, or one section under `zone->lock` |
| `Slub` | `kernel/mm/slub.c` | one section under a slab's bit lock or the list lock |
| `Memblock`, `MemblockSpec` | `lib/memalloc/src/memblock.c` | one call |
| `Fdt`, `FdtWrite`, `FdtOverlay` | `lib/of/src/fdt/libfdt/` | one call; one pass of `fdt_overlay_apply` |
| `OfUnflatten`, `OfTree` | `lib/of/src/*.c` | one node of a pass; lookups are operators |
| `OfBoot` | `kernel/drivers/of/`, `arch/arm64/mm/init.c` | one call of a scan's callback |
| `Bitmap`, `List`, `RbTree` | `lib/base/` containers, `timerqueue.c` | one call, or one round of a loop whose body changes the list |
| `ArmLib`, `Printf` | `lib/base/` strings and numbers, `arch/arm64/lib/*.S` | one instruction of a copy; one call |

`MC...` modules compose components into suites. In all of them but `MCIpc` and
`MCSched` a variable `part` chooses one component, or one instance of a
component, at the start, and the state of the others stays initial: parts that
share no state in the code are checked in one run without multiplying their
states. Components that do interact are composed inside a part: wait queues and
IPC, the migration threads and the runqueues, the tick and the timers, the idle
loop and the interrupts that end it, the areas and the page tables.

Data is abstracted to what the properties tell apart. Messages are records of
sender and kind; pages, slabs and nodes are numbers; a copied byte is the name
of the byte it comes from; words are sets of bits of a small width. Numbers that
can overflow keep a width, scaled down: virtual run times, the time counter,
clocksource factors, addresses in `Mmap`, the integers of `Printf`.

### Memory model

Accesses are sequentially consistent. This is an assumption for the code that
orders accesses with barriers (`QSpinlock`, `SmpCall`, `Idle`, `Timekeeping`,
`Hrtimer`'s `hrtimer_active`): what is shown is that the protocol is right if the
barriers do their work, not that the barriers are enough.

## Runs

`tlc -workers 2 -config X.cfg M` with the configuration and module `PROJECT.json`
names. Each run takes between a few seconds and four minutes.

| Run | Instance | Properties |
|---|---|---|
| `ipc` | two clients, one server that starts late, two heap nodes; clients send, notify and time out, one of them also tries to receive | `ReceiveFindsRequest`, `ReplyGoesToReceived`, `QueuedOnce`, `NoLostWakeup`, `RepliesSound` |
| `ipc_servers` | a client calls vfs, which calls the system task, in the loops of their `main()` | `ServersAnswer` |
| `sched` | two CPUs, two tasks, two migration threads; four parts | `OneCpu`, `QueuedWhereItSays`, `HandshakesSound`, `ExecComesBack` |
| `sched_policy` | three tasks on a runqueue; three CPUs for domains and placement; a reader beside the writers of the clocks; ten parts | `RunqueueExact`, `DomainsRight`, `BalancesRight`, `TurnsAreFair`, `ClocksSound` |
| `locking` | three threads on a mutex, three CPUs on a spinlock, three and two CPUs that call each other | `MutualExclusion`, `NoStrandedWaiter`, `SpinExclusion`, `SuccessorExists`, `CallsRunOnce`, `WaitsEnd` |
| `time` | two CPUs with interrupts, ticks, timers, sleepers and the idle loop; six parts | `InterruptsSound`, `KickReachesSleeper`, `OwnerSound`, `TimersSound`, `NoFalseNegative`, `WokenRuns` |
| `memory` | four pages, two slabs, sixteen virtual pages, four ASIDs, two CPUs; ten parts | `PagesSound`, `SlabsSound`, `UserMemorySound`, `AsidsSound` |
| `boot` | all device trees of up to four CPU nodes, CPUs that come late, five tasks that fork, signal and exit, memblock over four addresses | `SecondariesSound`, `PidsSound`, `BootCompletes`, `TablesMean` |
| `device_tree` | small blobs edited, written and overlaid; small trees with buses, interrupt maps, ports, disabled nodes; memory layouts; eleven parts | `BlobsSound`, `QueriesAnswered`, `BootScansRight` |
| `library` | all short strings, bitmaps of two words, lists of two or three entries, trees of a few nodes; fifteen parts | `TextExact`, `ContainersHold` |
| `process_exit` | one task forks, three children exit | `UsageHeld`, violated |
| `softirq_lost` | the interrupt part of `time` with three events | `RaisedSoftirqRuns`, violated |

The comment before each property says what it means and names the functions it
is about; the header of each `MC` module says what its parts are. Every property
of a passing run has a mutant in `PROJECT.json`: a definition of the model
changed the way a mistake in that code would change it, with which TLC finds the
property violated.

`TablesMean` includes a refinement. `MemblockSpec` says what memblock promises in
terms of sets of addresses; `Memblock` has the two arrays of regions. `Refines`
is `MemblockSpec`'s specification under the mapping of arrays to the addresses
they cover, so every operation on the arrays, with its splitting, merging and
failing for want of entries, is a step of the sets or none.

### Why the bounds are enough to be interesting

- IPC: two nodes and two clients are the least with which a node is freed and
  reused while the server still works on its first owner's request.
- Scheduler: two CPUs and their migration threads meet every pair of a wakeup, a
  pull, a schedule and a migration; active balancing, affinity, exec each have a
  part of their own. The run starts after boot, with each migration thread on
  its own CPU (`MigCpu <- Home`): what happens before is not covered by
  `OneCpu` and the others, and is among the disagreements below.
- Classes: virtual times have six bits and start just below the wrap, so that the
  wrap happens within a few steps, as it does soon after boot in the code.
- Locks: three contenders give the spinlock an owner, a pending CPU and a queue,
  and the mutex an owner, a sleeper and a thread that barges in.
- Timers: the hardware's range (`MaxDelta`) is shorter than the time of the run,
  so a device has to be programmed more than once; `HangMax` is reached.
- Clocks: the counter wraps after three cycles, and the time of a run is longer.
- Memory: tables have two entries, so areas share tables at each of the three
  levels; slabs hold one or two objects, so they become full, partial and empty;
  there are as few ASIDs as `asids_init` accepts, so the generation rolls over.
- memblock: the arrays fill up (`MaxRegions`).
- Processes: three children of one task go in every order, so pids come from the
  cache and from the end; a structure is reused while its task still exits.
- Device tree: blobs with and without spare room, cells of every width in use,
  lists that are cut short; disabled nodes with and without available ones below
  them; chains of nodes up to and past `FDT_MAX_DEPTH`, scaled down; initrds
  that begin and end inside a page; empty `dma-ranges` up to the root; interrupt
  levels without a map between specifiers of different widths.

`SYMMETRY` is used in `sched_policy` alone, over tasks no definition tells apart;
that run has no liveness property.

### What follows a failure

Where the code leaves the states it was written for, the model takes the step
that leaves them and records it, and a property says what holds before, or what
exactly is different afterwards.

- `torn` (`PageAlloc`): `drain_pages_zone` and another CPU wrote one page list at
  once. Nothing is modelled after it, and `PagesSound` holds before it.
- `bug`, `hole` (`Mmap`): a `BUG_ON` was met; a shrinking break left a hole in the
  heap. `UserMemorySound` says that only brk after a hole meets one.
- `raced`, `panic`, `owed` (`Process`): two calls of `pid.c` overlapped; the task
  that reaps met a `BUG()` or a loop without end; a task was freed with steps of
  its exit to do. `PidsSound` says that no two tasks have one pid, and that
  the cache holds only free ones unless `raced`.
- `missed` (`CpuBoot`): a secondary came after the boot CPU gave up on it.
  `SecondariesSound` speaks of the others.
- `over` (`LoadBalance`): the domain of a balancer was rebuilt while it walked.
- `Wild` (`OfUnflatten`): the array of parents was left, or an entry that nobody
  wrote was used. `NpsInBounds` says for which blobs.
- `race` (`Ipc`): a sender left its wait between the store of `is_finish` and the
  end of `__ipc_reply`. `ReplyIntegrity` and `NoLeak` in `RepliesSound` are stated
  for histories without it.

Runs with `CHECK_DEADLOCK FALSE` have an end: a boot completes, a bounded clock
runs out, a task may go back to user mode for good. `ipc`, `ipc_servers` and
`locking` are checked for deadlock.

### Fairness

- `ipc_servers`: weak fairness for every task's next step: a task that can run
  is scheduled. Strong fairness for the time-out of a send to a server that
  is not up: a timer that keeps being armed eventually fires.
- `sched`, part exec: weak fairness for what a CPU does with interrupts off,
  strong fairness for picking the waiting task and for its next step: the
  classes give every queued task its turn, and a picked task runs for its slice.
- `locking`: weak fairness of a CPU in the slow path and of an owner that
  unlocks. For cross calls, weak fairness of handlers, strong fairness of the
  caller, whom interrupts keep interrupting, and of `llist_add`'s compare and
  exchange, which another CPU may defeat but not for ever.
- `time`: weak fairness of interrupt handlers, strong fairness of the idle task,
  which ticks interrupt.
- `boot`, part late: weak fairness of the boot CPU. Secondaries have weak fairness
  too, but may choose to park.

The other runs state no fairness and check safety only.

## Proofs

`tlapm M.tla` checks a proof module. Each extends the component's module, states
an inductive invariant, shows that `Init` establishes it and every action keeps
it, and draws the properties from it. None bounds the number of tasks, CPUs,
endpoints or nodes.

| Module | Theorems | Invariant |
|---|---|---|
| `IpcProofs` | `TypeCorrect`, `ReceiveSafe`, `ReplySafe` | `IInv`: what a task knows at each point of its call, and what the request counter of an endpoint means |
| `IpcNodeProofs` | `QueuedSafe` | `NodeInv`: a node is in one place, with one task that will free it |
| `IpcWakeProofs` | `WakeupSafe` | `WakeInv`: a sleeper is on the queue it waits for, and if what it waits for has happened its waker is on the way |
| `IpcFlowProofs` | `AnswersReturn` | `FlowInv`: the sender's name follows a request from its node over the server and back |
| `SchedProofs` | `SchedTypes`, `RunsOnOneCpu`, `QueuesAgree`, `HomeForcesOff` | `IInv`, `HandlingInv`: queues, `on_rq`, `p->cpu` and `curr` agree, idle threads are never queued, a migration thread stays home |
| `MutexProofs` | `MutexTypes`, `Exclusive`, `IsLockedRight`, `WaitersRemembered` | `IInv`: what a thread in a slow path knows of `count`, and who wakes the waiters |
| `QSpinlockProofs` | `SpinExclusive`, `PendingIsOnes`, `SuccessorComes`, `LinksToWaiting` | `SpinInv`: the nodes form one queue from head to tail, the pending bit has one owner |
| `IdleProofs` | `KickNeverLost`, `OwnersAgree` | `IdleInv`: where a CPU is in the idle loop, what it owns, whom it is about to kick |

Why the properties are not inductive themselves:

- IPC. `ReceiveFindsRequest` speaks of the moment the server reads the head of
  its list. Before that it slept, and what kept the list from being empty is the
  meaning of `EP_STATE_WAITTING`: the server set it under the lock that senders
  take, and only a sender that has queued something resets it. That a node is on
  one list (`QueuedOnce`) needs to know where every node is, including those no
  list holds. The proofs build on each other: `NodeInv` and `WakeInv` use `IInv`,
  `FlowInv` uses `NodeInv`.
- Scheduler. That no thread runs on two CPUs follows from the agreement of the
  queues with `p->cpu`, and that, where a lock is dropped, from what the waking
  CPU and `double_lock_balance` may still assume. The theorems suppose
  `MigratorsHome`: every migration thread is on its own CPU. The code starts them
  on the boot CPU (see below), and `HomeForcesOff` is false until then.
- Mutex. A thread that exchanged `count` for -1 and got the lock stores 0 later
  without looking; the proof needs that nobody can have incremented it.
- Spinlock. The queue exists only in the links, some of which are not made yet.
  `QueueInv` says that there is a sequence `q[lo..hi-1]` of the waiting CPUs with
  which tail, links and grants agree; joining moves `hi`, leaving moves `lo`.
- Idle. A CPU that sleeps with its flag set has an IPI pending or a kicker who
  has yet to send it; the kicker holds the runqueue lock in between, which keeps
  a second one away.

Assumptions on constants are named in the modules that declare them
(`IpcAssumption`, `SchedAssumption`, `MutexAssumption`, `QSpinlockAssumption`,
`IdleAssumption`), and TLC evaluates them in the runs. They say that an endpoint has one owner and a task at
most one endpoint, that idle and migration threads are different threads, that
the values for "none" are none of the others, and that CPU numbers are naturals.

Only model-checked: liveness (`ServersAnswer`, `ExecComesBack`, `WaitsEnd`,
`WokenRuns`, `BootCompletes`), because the prover has no fairness and no
`ENABLED`; everything recursive (trees, blobs, strings, printing), because what a
recursive definition computes cannot be proved by induction with the installed
provers; the refinement of `MemblockSpec`; and the components whose interest is
in arithmetic or in allocation (`SchedClass`, `LoadBalance`, `Timekeeping`,
`Hrtimer`, `Interrupt`, `PageAlloc`, `Slub`, `Mmap`, `CpuBoot`, `Process`,
`SmpCall`).

## What disagrees with the code's own words

Two disagreements are runs of their own, with the trace TLC finds:

- `process_exit`: every exit drops both references `task_create_tsk` took, and
  ends in the `BUG()` of `put_task_struct` (`kernel/core/exit.c:23`).
- `softirq_lost`: the requery stores a truth value over the pending word and the
  loop renumbers it, so a softirq raised at that moment runs no action
  (`kernel/core/softirq.c:92`).

The others were met while modelling. The models do what the code does, and the
properties above are stated for what remains true.

Processes and IPC:

- `core/ipc.c:192`: `is_finish` is stored before the answer is copied; a sender
  that is awake at that moment leaves, frees its node, and the server writes into
  a freed or reused one.
- `core/pid.c:110`: two forks on two CPUs take the same pid; the second insertion
  fails, against the `BUG_ON` at line 111. A removal beside a fork can leave a
  pid in the cache that is in use.
- `core/pid.c:127`: the largest pid is not cached when it goes. When the pids 3, 4
  and 2 go in that order the cache keeps 3, and 2 is given out again only once
  it follows the largest pid in use.
- `core/signal.c:30`: the default action frees the stack of every task on
  `children_exit`, also of one that has not left it yet (`sched/core.c:1150`);
  `20`: one that left a code, as `do_exit` always does, is a `BUG()`; `23`: the
  loop over a child's children follows the list it moves them to.
- `core/signal.c:54`: a signal wakes nobody, so `wait_event_interruptible` and
  `mutex_lock_interruptible` sleep on (`wait.h:228`, `mutex.c:235`).

Scheduler:

- `core/system.c:104`: migration threads start on the boot CPU, and until a
  balancer pulls one home, `__migrate_task` moves a thread that executes
  (`sched/core.c:3326`, `3423`).
- `sched/fair.c:463`: `exec_start` is not set when a task becomes current, so its
  first charge covers the time it did not run (`fair.c:346`).
- `sched/fair.c:608`, `815`: virtual times are compared as unsigned numbers across
  the wrap in `yield_task_fair` and `task_new_fair` (`fair.c:66`, `612`).
- `sched/core.c:2943`: services have a `static_prio` below `MAX_RT_PRIO`; made
  `SCHED_NORMAL` one gets a real-time priority in the fair class (`prio.h:5`).
- `sched/core.c:755`: a load of 2^22 wraps in the `u32` of `sg_div_cpu_power`, and
  the heaviest group is taken for the lightest (`core.c:803`).
- `sched/core.c:1549`: `all_pinned` is what the class called last says
  (`core.c:1953`).
- `sched/core.c:2369`: a nomination whose trylock fails is not tried again
  (`core.c:2168`).
- `sched/core.c:3837`: groups are relinked under a balancer that walks them
  (`sched.h:108`), if `partition_sched_domains` is ever called; `3871`: the fallback partition is compared with itself
  (`core.c:3845`).

Interrupts and time:

- `core/irq/handle.c:85`: no end of interrupt when the mask has one CPU
  (`irq.h:235`).
- `preempt.h:200`: `__irq_exit` runs softirqs although its comment says not.
- `core/time/hrtimer.c:1202`: `usleep_range` woken early takes the remaining time
  for an absolute one and returns (`hrtimer.c:1201`).
- `core/time/timekeeping.c`: `ktime_get_real_ts64` adds a negative offset as an
  unsigned number before it divides into seconds. A change of clocksource calls
  `timekeeping_init`, which starts time at 0 again. `sched_clock()` may step back
  by a nanosecond at an update, as each rounds its epoch down; `ClocksSound`
  allows exactly that.

Memory:

- `mm/page_alloc.c:885`: `drain_pages_zone` works on another CPU's list without
  its protection (`page_alloc.c:788`).
- `core/system/brk.c:130`: a shrinking brk leaves an area that ends at
  `mmap_base`, and a later one meets the `BUG_ON` at line 127.
- `memblock.c:373`: a covered addition returns before merging (`memblock.c:304`);
  `1229`: `memblock_trim_memory` leaves `total_size` (`memblock.c:231`).
- `arch/arm64/mm/init.c:140`, `151`: the initrd's last page may stay unreserved,
  and its end is compared with the wrong base (`init.c:143`, `162`).

CPUs:

- `arch/arm64/core/head.S:514`: a secondary that is later than a second uses
  whatever `secondary_data` holds by then (`smp.c:57`).
- `arch/arm64/core/smp.c:515`: two CPUs that stop the others at once both go on
  (`process.c:46`).

Device tree:

- `lib/of/src/fdt.c:379`: children of a skipped node get the wrong parent;
  `383`: the deepest node is stored behind the array (`fdt.c:375`).
- `lib/of/src/base.c:711`: alias, relative path and options together are not found,
  nor are options behind "/" (`base.c:685`); `1375`: updating a node with its own property revives removed
  ones (`base.c:1345`).
- `lib/of/src/property.c:116`: the length wraps for a large index
  (`property.c:106`).
- `fdt_address.c:68`: a range that ends at the last address is empty;
  `address.c:272`: a second bus level panics (`address.c:259`); `577`: with empty
  `dma-ranges` up to the root the code goes on with no bus (`address.c:559`).
- `lib/of/src/irq.c:236`: a level without a map hands the specifier on in its own
  width, whatever the controller takes.

Library:

- `bitmap.c:801`: `bitmap_onto` is not the loop its comment gives (`794`); `459`:
  malformed lists parse (`410`).
- `vsprintf.c:610`: `vscnprintf` of size 0 returns -1 (`599`); `771`: a `%n` after
  white space at the end of the input stays unfilled (`912`).
- `arch/arm64/lib/clear_user.S:57`: the fixup returns the whole size (`28`).

## What is not modelled

`PROJECT.json` lists these components with their reasons: device drivers and the
console (input and output), exception entry and faults (assembly whose effects
are actions elsewhere), the construction of the kernel's page tables and the CPU
feature tables (sequential, fixed by the architecture), signal frames (layout),
loading of executables, the user library, pm and init, checksums and integer
helpers. Inside modelled components the notes say what is left out; the larger
omissions are

- weak memory (see above);
- unflattening under an existing node (`dad` in `unflatten_dt_nodes`): the only
  caller passes none;
- a task structure that is freed while `pid_root` still holds it, because there
  was no memory for the cache entry, and is then allocated again;
- the nesting of four contexts per CPU in `qspinlock.c`: one context holds or
  waits for a lock at a time;
- `sched_clock_suspend` and `sched_clock_resume`, `mmap_strcpy_from_vma` and
  `mmap_strcpy_to_vma`, `memblock_set_current_limit` and
  `memblock_set_bottom_up`: nothing calls them;
- `gic_set_affinity`: it is installed in the chip of the controller, and the
  descriptors use `gic_chip`, so `irq_set_affinity` does nothing;
- multi-level scheduling domains, which are never built here;
- the contents of pages and messages, and the wording of output.
