-------------------------------- MODULE Idle --------------------------------
(***************************************************************************)
(* The idle loop and the two protocols that run through it: a remote CPU   *)
(* that asks an idle one to reschedule skips the IPI while the idle task   *)
(* polls its flag (idle.c, resched_task in core.c), and the idle CPUs      *)
(* agree on an owner of idle load balancing (select_nohz_load_balancer,    *)
(* trigger_load_balance in core.c).                                        *)
(*                                                                         *)
(* A run queue is the number of its runnable tasks; its lock is explicit,  *)
(* because resched_cpu gives up when it cannot take it.  What busy CPUs do *)
(* to each other's queues is Sched's and SchedClass's subject.             *)
(***************************************************************************)
EXTENDS Integers, FiniteSets

CONSTANTS NohzCpu,      \* 0 .. n-1, all online
          MaxTasks, \* bound on the runnable tasks of a queue
          Ticking,  \* the CPUs whose ticks are followed
          Wakeable  \* the CPUs on which tasks are woken

\* CPUs are numbered: every set of them has a first one (cpumask_first).
ASSUME IdleAssumption ==
    /\ NohzCpu \subseteq Nat /\ Wakeable \subseteq NohzCpu /\ MaxTasks \in Nat
    /\ \A s \in SUBSET NohzCpu : s # {} => \E c \in s : \A d \in s : c <= d

VARIABLES
    at,       \* where each CPU's idle task is, or "busy"
    nr,       \* nr_running of each run queue
    flag,     \* TIF_NEED_RESCHED of the CPU's current task
    polling,  \* TIF_POLLING_NRFLAG of the CPU's idle task
    ipi,      \* a reschedule IPI is on its way
    lock,     \* holder of the run queue lock
    mask,     \* nohz.cpu_mask
    owner,    \* nohz.load_balancer
    recent,   \* in_nohz_recently
    idleTick, \* idle_at_tick
    tick,     \* where the CPU's tick handler is, "none" outside it
    kick      \* the CPU this one is asking to reschedule, or None

nohz == <<mask, owner, recent, idleTick>>
idleVars == <<at, nr, flag, polling, ipi, lock, nohz, tick, kick>>

None == -1

\* Interrupts are off between cpuidle_idle_call's local_irq_disable and the
\* end of the wait for an interrupt, and in schedule().
IrqsOff(c) == at[c] \in {"check", "clear", "test", "wfi", "schedule"}

IdleLowest(s) == CHOOSE c \in s : \A d \in s : c <= d

IdleInit ==
    /\ at = [c \in NohzCpu |-> "enter"]
    /\ nr = [c \in NohzCpu |-> 0]
    /\ flag = [c \in NohzCpu |-> FALSE]
    /\ polling = [c \in NohzCpu |-> TRUE]
    /\ ipi = [c \in NohzCpu |-> FALSE]
    /\ lock = [c \in NohzCpu |-> None]
    /\ mask = {}
    /\ owner = None
    /\ recent = [c \in NohzCpu |-> FALSE]
    /\ idleTick = [c \in NohzCpu |-> FALSE]
    /\ tick = [c \in NohzCpu |-> "none"]
    /\ kick = [c \in NohzCpu |-> None]

IdleGoto(c, where) == at' = [at EXCEPT ![c] = where]

\* The idle task runs only outside the CPU's tick handler.
InIdle(c, where) == at[c] = where /\ tick[c] = "none" /\ kick[c] = None

-----------------------------------------------------------------------------
(* resched_task: the flag first, then the look at the polling bit.         *)

KickUnflagged(c, d) ==
    /\ UNCHANGED flag
    /\ IF flag[d] \/ c = d
       THEN UNCHANGED <<kick, lock>>
       ELSE /\ kick' = [kick EXCEPT ![c] = d]
            /\ lock' = [lock EXCEPT ![d] = c]

\* Under the lock of d's queue; the IPI is decided in a step of its own.
BeginKick(c, d) ==
    /\ flag' = [flag EXCEPT ![d] = TRUE]
    /\ IF flag[d] \/ c = d
       THEN UNCHANGED <<kick, lock>>
       ELSE /\ kick' = [kick EXCEPT ![c] = d]
            /\ lock' = [lock EXCEPT ![d] = c]

\* tsk_is_polling: only an idle current task has the bit.
IsPolling(d) == at[d] # "busy" /\ polling[d]

EndKick(c) ==
    LET d == kick[c] IN
    /\ d # None
    /\ ipi' = [ipi EXCEPT ![d] = @ \/ ~IsPolling(d)]
    /\ kick' = [kick EXCEPT ![c] = None]
    /\ lock' = [lock EXCEPT ![d] = None]
    /\ UNCHANGED <<at, nr, flag, polling, nohz, tick>>

\* A task is woken onto d's queue by the task running on c; only an idle
\* CPU is asked to reschedule here.
IdleWake(c, d) ==
    /\ InIdle(c, "busy") /\ \A e \in NohzCpu : lock[e] # c
    /\ lock[d] = None /\ nr[d] < MaxTasks
    /\ nr' = [nr EXCEPT ![d] = @ + 1]
    /\ IF at[d] # "busy" THEN BeginKick(c, d) ELSE UNCHANGED <<flag, kick, lock>>
    /\ UNCHANGED <<at, polling, ipi, nohz, tick>>

\* c's task holds the lock of another queue for a task that sleeps there
\* (task_rq_lock, as in set_user_nice or a wakeup that moves the task).
HoldLock(c, d) ==
    /\ InIdle(c, "busy") /\ lock[d] = None /\ \A e \in NohzCpu : lock[e] # c
    /\ lock' = [lock EXCEPT ![d] = c]
    /\ UNCHANGED <<at, nr, flag, polling, ipi, nohz, tick, kick>>

ReleaseLock(c, d) ==
    /\ lock[d] = c /\ kick[c] = None
    /\ lock' = [lock EXCEPT ![d] = None]
    /\ UNCHANGED <<at, nr, flag, polling, ipi, nohz, tick, kick>>

\* An interrupt on c itself wakes a task there.
WakeLocal(c) ==
    /\ ~IrqsOff(c) /\ tick[c] = "none" /\ \A e \in NohzCpu : lock[e] # c
    /\ lock[c] = None /\ nr[c] < MaxTasks
    /\ nr' = [nr EXCEPT ![c] = @ + 1]
    /\ flag' = [flag EXCEPT ![c] = @ \/ at[c] # "busy"]
    /\ UNCHANGED <<at, polling, ipi, lock, nohz, tick, kick>>

\* handle_IPI does nothing for IPI_RESCHEDULE.
TakeIpi(c) ==
    /\ ipi[c] /\ ~IrqsOff(c)
    /\ ipi' = [ipi EXCEPT ![c] = FALSE]
    /\ UNCHANGED <<at, nr, flag, polling, lock, nohz, tick, kick>>

\* The running task sleeps; with nothing left the idle task is switched to.
Block(c) ==
    /\ InIdle(c, "busy") /\ lock[c] = None /\ \A e \in NohzCpu : lock[e] # c
    /\ nr' = [nr EXCEPT ![c] = @ - 1]
    /\ flag' = [flag EXCEPT ![c] = FALSE]
    /\ IF nr[c] = 1 THEN IdleGoto(c, "enter") ELSE UNCHANGED at
    /\ UNCHANGED <<polling, ipi, lock, nohz, tick, kick>>

-----------------------------------------------------------------------------
(* cpu_idle.                                                               *)

\* select_nohz_load_balancer(1): into the mask; then, unless every CPU is in
\* it, become the owner if there is none.
SelectEnter(c) ==
    /\ InIdle(c, "enter")
    /\ mask' = mask \cup {c}
    /\ recent' = [recent EXCEPT ![c] = TRUE]
    /\ IdleGoto(c, "weigh")
    /\ UNCHANGED <<nr, flag, polling, ipi, lock, owner, idleTick, tick, kick>>

SelectWeigh(c) ==
    /\ InIdle(c, "weigh")
    /\ IF mask = NohzCpu
       THEN /\ owner' = IF owner = c THEN None ELSE owner
            /\ IdleGoto(c, "loop")
       ELSE /\ IdleGoto(c, IF owner = None THEN "claim" ELSE "loop")
            /\ UNCHANGED owner
    /\ UNCHANGED <<nr, flag, polling, ipi, lock, mask, recent, idleTick, tick, kick>>

SelectClaim(c) ==
    /\ InIdle(c, "claim")
    /\ owner' = IF owner = None THEN c ELSE owner
    /\ IdleGoto(c, "loop")
    /\ UNCHANGED <<nr, flag, polling, ipi, lock, mask, recent, idleTick, tick, kick>>

\* while (!need_resched()) cpuidle_idle_call(), which looks again with
\* interrupts off.
IdleLoop(c) ==
    /\ InIdle(c, "loop")
    /\ IdleGoto(c, IF flag[c] THEN "leave" ELSE "check")
    /\ UNCHANGED <<nr, flag, polling, ipi, lock, nohz, tick, kick>>

CheckFlag(c) ==
    /\ InIdle(c, "check")
    /\ IdleGoto(c, IF flag[c] THEN "loop" ELSE "clear")
    /\ UNCHANGED <<nr, flag, polling, ipi, lock, nohz, tick, kick>>

\* current_clr_polling_and_test: clear the bit, then test the flag.
StopPolling(c) ==
    /\ InIdle(c, "clear")
    /\ polling' = [polling EXCEPT ![c] = FALSE]
    /\ IdleGoto(c, "test")
    /\ UNCHANGED <<nr, flag, ipi, lock, nohz, tick, kick>>

SleepUntested(c) ==
    /\ InIdle(c, "test")
    /\ IdleGoto(c, "wfi")
    /\ UNCHANGED <<nr, flag, polling, ipi, lock, nohz, tick, kick>>

TestFlag(c) ==
    /\ InIdle(c, "test")
    /\ IdleGoto(c, IF flag[c] THEN "repoll" ELSE "wfi")
    /\ UNCHANGED <<nr, flag, polling, ipi, lock, nohz, tick, kick>>

\* arch_cpu_idle: an interrupt ends the wait.
WaitForInterrupt(c) ==
    /\ InIdle(c, "wfi") /\ ipi[c]
    /\ ipi' = [ipi EXCEPT ![c] = FALSE]
    /\ IdleGoto(c, "repoll")
    /\ UNCHANGED <<nr, flag, polling, lock, nohz, tick, kick>>

StartPolling(c) ==
    /\ InIdle(c, "repoll")
    /\ polling' = [polling EXCEPT ![c] = TRUE]
    /\ IdleGoto(c, "loop")
    /\ UNCHANGED <<nr, flag, ipi, lock, nohz, tick, kick>>

\* select_nohz_load_balancer(0): out of the mask, then out of ownership.
SelectLeave(c) ==
    /\ InIdle(c, "leave")
    /\ mask' = mask \ {c}
    /\ IdleGoto(c, IF c \in mask THEN "disown" ELSE "schedule")
    /\ UNCHANGED <<nr, flag, polling, ipi, lock, owner, recent, idleTick, tick, kick>>

DisownNever(c) ==
    /\ InIdle(c, "disown")
    /\ IdleGoto(c, "schedule")
    /\ UNCHANGED <<nr, flag, polling, ipi, lock, nohz, tick, kick>>

SelectDisown(c) ==
    /\ InIdle(c, "disown")
    /\ IdleGoto(c, IF owner = c THEN "release" ELSE "schedule")
    /\ UNCHANGED <<nr, flag, polling, ipi, lock, nohz, tick, kick>>

\* atomic_cmpxchg(&nohz.load_balancer, cpu, -1) != cpu is a BUG().
SelectRelease(c) ==
    /\ InIdle(c, "release")
    /\ IF owner = c
       THEN owner' = None /\ IdleGoto(c, "schedule")
       ELSE IdleGoto(c, "bug") /\ UNCHANGED owner
    /\ UNCHANGED <<nr, flag, polling, ipi, lock, mask, recent, idleTick, tick, kick>>

\* schedule() from the idle task.
ScheduleIdle(c) ==
    /\ InIdle(c, "schedule") /\ lock[c] = None
    /\ flag' = [flag EXCEPT ![c] = FALSE]
    /\ IdleGoto(c, IF nr[c] > 0 THEN "busy" ELSE "enter")
    /\ UNCHANGED <<nr, polling, ipi, lock, nohz, tick, kick>>

-----------------------------------------------------------------------------
(* The tick: scheduler_tick's last two lines.                              *)

\* The tick ends a wait for interrupts and is taken once they are enabled.
Tick(c) ==
    /\ c \in Ticking /\ tick[c] = "none" /\ \A e \in NohzCpu : lock[e] # c
    /\ at[c] \notin {"check", "clear", "test", "schedule", "bug"}
    /\ IdleGoto(c, IF at[c] = "wfi" THEN "repoll" ELSE at[c])
    /\ idleTick' = [idleTick EXCEPT ![c] = at[c] # "busy"]
    /\ tick' = [tick EXCEPT ![c] = "begin"]
    /\ UNCHANGED <<nr, flag, polling, ipi, lock, mask, owner, recent, kick>>

\* The first busy tick after an idle spell: give ownership up, and nominate
\* the first idle CPU when there is no owner.
TickNominate(c) ==
    /\ tick[c] = "begin"
    /\ IF recent[c] /\ ~idleTick[c]
       THEN /\ recent' = [recent EXCEPT ![c] = FALSE]
            /\ mask' = IF owner = c THEN mask \ {c} ELSE mask
            /\ owner' = IF owner = c THEN None ELSE owner
            /\ tick' = [tick EXCEPT ![c] = IF owner \in {c, None} THEN "nominate" ELSE "end"]
       ELSE /\ tick' = [tick EXCEPT ![c] = IF idleTick[c] /\ owner = c /\ mask = NohzCpu
                                           THEN "self" ELSE "end"]
            /\ UNCHANGED <<recent, mask, owner>>
    /\ UNCHANGED <<at, nr, flag, polling, ipi, lock, idleTick, kick>>

\* resched_cpu: nothing happens when the queue's lock is taken.
resched_cpu(c, d) ==
    IF lock[d] = None THEN BeginKick(c, d) ELSE UNCHANGED <<flag, kick, lock>>

TickKick(c) ==
    /\ tick[c] \in {"nominate", "self"}
    /\ \/ tick[c] = "self" /\ resched_cpu(c, c)
       \/ tick[c] = "nominate" /\ mask # {} /\ resched_cpu(c, IdleLowest(mask))
       \/ tick[c] = "nominate" /\ mask = {} /\ UNCHANGED <<flag, kick, lock>>
    /\ tick' = [tick EXCEPT ![c] = "end"]
    /\ UNCHANGED <<at, nr, polling, ipi, nohz>>

\* The softirq the tick may raise is Interrupt's subject.
TickEnd(c) ==
    /\ tick[c] = "end" /\ kick[c] = None
    /\ tick' = [tick EXCEPT ![c] = "none"]
    /\ UNCHANGED <<at, nr, flag, polling, ipi, lock, nohz, kick>>

-----------------------------------------------------------------------------
IdleStep(c) ==
    \/ SelectEnter(c) \/ SelectWeigh(c) \/ SelectClaim(c)
    \/ IdleLoop(c) \/ CheckFlag(c) \/ StopPolling(c) \/ TestFlag(c) \/ WaitForInterrupt(c) \/ StartPolling(c)
    \/ SelectLeave(c) \/ SelectDisown(c) \/ SelectRelease(c) \/ ScheduleIdle(c)

HandlerStep(c) ==
    \/ EndKick(c) \/ TakeIpi(c)
    \/ \E d \in NohzCpu : ReleaseLock(c, d)
    \/ TickNominate(c) \/ TickKick(c) \/ TickEnd(c)

IdleNext ==
    \E c \in NohzCpu :
        \/ IdleStep(c)
        \/ HandlerStep(c)
        \/ Tick(c)
        \/ Block(c)
        \/ c \in Wakeable /\ WakeLocal(c)
        \/ \E d \in Wakeable \ {c} : IdleWake(c, d)
        \/ \E d \in NohzCpu \ {c} : HoldLock(c, d)

IdleSpec == IdleInit /\ [][IdleNext]_idleVars

\* CPUs execute.  The idle task gets on between two interrupts, however often
\* these come, and between two holders of its run queue's lock (a queued
\* spinlock); no tick is relied on.
IdleFairness == \A c \in NohzCpu : WF_idleVars(HandlerStep(c)) /\ SF_idleVars(IdleStep(c))

IdleFairSpec == IdleSpec /\ IdleFairness

-----------------------------------------------------------------------------
(* Properties.                                                             *)

Places == {"busy", "enter", "weigh", "claim", "loop", "check", "clear", "test", "wfi", "repoll",
           "leave", "disown", "release", "schedule", "bug"}

IdleTypeOK ==
    /\ at \in [NohzCpu -> Places]
    /\ nr \in [NohzCpu -> 0 .. MaxTasks]
    /\ flag \in [NohzCpu -> BOOLEAN] /\ polling \in [NohzCpu -> BOOLEAN] /\ ipi \in [NohzCpu -> BOOLEAN]
    /\ lock \in [NohzCpu -> NohzCpu \cup {None}] /\ kick \in [NohzCpu -> NohzCpu \cup {None}]
    /\ mask \subseteq NohzCpu /\ owner \in NohzCpu \cup {None}
    /\ recent \in [NohzCpu -> BOOLEAN] /\ idleTick \in [NohzCpu -> BOOLEAN]
    /\ tick \in [NohzCpu -> {"none", "begin", "nominate", "self", "end"}]

\* No lost kick: an idle CPU that has passed its last look at the flag and
\* waits for an interrupt, with the flag set, has an IPI coming or a CPU
\* about to decide on one (resched_task's barrier against
\* current_clr_polling_and_test's).
KickReachesSleeper ==
    \A c \in NohzCpu : at[c] = "wfi" /\ flag[c] => ipi[c] \/ \E w \in NohzCpu : kick[w] = c

\* Idle CPUs agree on who balances for them (select_nohz_load_balancer): nobody
\* takes ownership away between the read and the exchange, so its BUG() is not
\* reached; "ilb owner will still be part of nohz.cpu_mask", except while it is
\* on its way out; and it "will be the owner till that cpu becomes busy", so a
\* CPU that runs a task is not the owner.
OwnerSound ==
    /\ \A c \in NohzCpu : at[c] # "bug"
    /\ owner # None => /\ owner \in mask \/ at[owner] \in {"disown", "release"}
                       /\ at[owner] # "busy"

\* A task woken on an idle CPU runs, even if the tick never comes.
WokenRuns == \A c \in NohzCpu : (nr[c] > 0) ~> (at[c] = "busy" \/ nr[c] = 0)

=============================================================================
