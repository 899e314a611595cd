---------------------------- MODULE Sched ----------------------------
(***************************************************************************)
(* The scheduler core (kernel/core/sched/core.c): the runqueues, schedule  *)
(* with its newly-idle balancing, try_to_wake_up, load balancing, and the  *)
(* migration protocol: set_cpus_allowed and sched_exec queue a request,    *)
(* wake the migration thread of the task's CPU and wait for a completion.  *)
(*                                                                         *)
(* A section of code under a runqueue lock is one action.  The places      *)
(* where the code drops such a lock in the middle of an operation are      *)
(* states: in try_to_wake_up between set_task_cpu and the second lock, and *)
(* in schedule while double_lock_balance takes the busiest lock.           *)
(* Loads, virtual run times and the order of tasks of one priority are     *)
(* abstracted into a choice.                                               *)
(***************************************************************************)
EXTENDS Integers, Sequences, FiniteSets

CONSTANTS
  CPU,          \* the online CPUs, numbered; runqueues lie in this order in memory
  Thread,       \* every thread
  migrator,     \* rq->migration_thread of every CPU
  idle,         \* rq->idle of every CPU
  prio,         \* p->prio; a lower number is a higher priority
  MAX_RT_PRIO,  \* priorities below it are real-time
  Boot,         \* the CPU that creates every thread
  MigCpu,       \* the CPU each migration thread is on when the model starts
  Execs,        \* the tasks that call sched_exec
  Setters,      \* the tasks that call sched_setaffinity
  Targets,      \* the tasks they call it on
  Masks,        \* the masks they call it with
  Pushers,      \* the CPUs whose balancing comes to ask for active balancing
  Sleeps,       \* the states tasks sleep in
  NoCpu, NoThread

Migrators == {migrator[c] : c \in CPU}
Idlers == {idle[c] : c \in CPU}
Task == Thread \ (Migrators \cup Idlers)

ASSUME SchedAssumption ==
  /\ CPU \subseteq Nat /\ Boot \in CPU /\ NoCpu \notin CPU
  /\ NoThread \notin Thread /\ IsFiniteSet(Thread)
  /\ migrator \in [CPU -> Thread] /\ idle \in [CPU -> Thread]
  /\ \A c, d \in CPU : /\ migrator[c] # idle[d]
                       /\ migrator[c] = migrator[d] => c = d
                       /\ idle[c] = idle[d] => c = d
  /\ prio \in [Thread -> Nat] /\ MAX_RT_PRIO \in Nat
  /\ MigCpu \in [CPU -> CPU]
  /\ Execs \subseteq Task /\ Setters \subseteq Task
  /\ Targets \subseteq Task /\ Masks \subseteq (SUBSET CPU) \ {{}}
  /\ Pushers \subseteq CPU /\ Sleeps \subseteq {"I", "U"}

VARIABLES
  state,    \* p->state: "R" running, "I" interruptible, "U" uninterruptible
  cpu,      \* p->cpu
  allowed,  \* p->cpus_allowed
  onrq,     \* the threads with p->se.on_rq set
  rq,       \* the threads queued on each runqueue
  curr,     \* rq->curr
  newidle,  \* the busiest CPU while schedule() has dropped its own lock, or NoCpu
  resched,  \* the threads with TIF_NEED_RESCHED set
  nrUnint,  \* the sum of rq->nr_uninterruptible
  waking,   \* threads whose waker is between the two locks of try_to_wake_up
  nudge,    \* the CPU whose migration thread a balancing softirq is about to wake
  push,     \* rq->push_cpu while rq->active_balance is set, else NoCpu
  migq,     \* rq->migration_queue: the threads that own the requests
  reqTask, reqDest, reqCpu,  \* the request of each waiting thread
  done,     \* req->done.done
  waiting,  \* the threads queued on their request's completion
  handling, \* the request each migration thread has taken off its queue
  pc        \* where each thread is

rqVars == <<state, cpu, allowed, onrq, rq, nrUnint>>
reqVars == <<reqTask, reqDest, reqCpu, done, waiting>>
migVars == <<nudge, push, migq, handling>>
vars == <<rqVars, curr, newidle, resched, waking, reqVars, migVars, pc>>

TaskPCs == {"run", "kick", "kicking", "wait", "block"}
MigPCs == {"awake", "loop", "sleep", "move", "complete", "completing"}

TypeOK ==
  /\ state \in [Thread -> {"R", "I", "U"}]
  /\ cpu \in [Thread -> CPU]
  /\ allowed \in [Thread -> SUBSET CPU]
  /\ onrq \in SUBSET Thread
  /\ rq \in [CPU -> SUBSET Thread]
  /\ curr \in [CPU -> Thread]
  /\ newidle \in [CPU -> CPU \cup {NoCpu}]
  /\ resched \in SUBSET Thread
  /\ nrUnint \in Int
  /\ waking \in SUBSET Thread
  /\ nudge \in [CPU -> CPU \cup {NoCpu}]
  /\ push \in [CPU -> CPU \cup {NoCpu}]
  /\ migq \in [CPU -> Seq(Task)]
  /\ reqTask \in [Task -> Task \cup {NoThread}]
  /\ reqDest \in [Task -> CPU \cup {NoCpu}]
  /\ reqCpu \in [Task -> CPU \cup {NoCpu}]
  /\ done \in [Task -> Nat]
  /\ waiting \in SUBSET Task
  /\ handling \in [CPU -> Task \cup {NoThread}]
  /\ pc \in [Thread -> TaskPCs \cup MigPCs]

Rt(t) == prio[t] < MAX_RT_PRIO

\* set_cpus_allowed, then sched_fork, then wake_up_new_task on the boot CPU:
\* sched_fork puts a thread on a CPU chosen for its creator, whatever the mask.
Init ==
  /\ cpu = [t \in Thread |->
              IF \E c \in CPU : t = idle[c] THEN CHOOSE c \in CPU : t = idle[c]
              ELSE IF \E c \in CPU : t = migrator[c]
                   THEN MigCpu[CHOOSE c \in CPU : t = migrator[c]]
              ELSE Boot]
  /\ allowed = [t \in Thread |->
                  IF \E c \in CPU : t \in {idle[c], migrator[c]}
                  THEN {CHOOSE c \in CPU : t \in {idle[c], migrator[c]}}
                  ELSE CPU]
  /\ state = [t \in Thread |-> "R"]
  /\ onrq = Thread \ Idlers
  /\ rq = [c \in CPU |-> {t \in Thread \ Idlers : cpu[t] = c}]
  /\ curr = idle
  /\ newidle = [c \in CPU |-> NoCpu]
  /\ resched = {idle[c] : c \in {d \in CPU : rq[d] # {}}}
  /\ nrUnint = 0
  /\ waking = {}
  /\ nudge = [c \in CPU |-> NoCpu]
  /\ push = [c \in CPU |-> NoCpu]
  /\ migq = [c \in CPU |-> <<>>]
  /\ reqTask = [t \in Task |-> NoThread]
  /\ reqDest = [t \in Task |-> NoCpu]
  /\ reqCpu = [t \in Task |-> NoCpu]
  /\ done = [t \in Task |-> 0]
  /\ waiting = {}
  /\ handling = [c \in CPU |-> NoThread]
  /\ pc = [t \in Thread |-> IF t \in Migrators THEN "awake" ELSE "run"]

-----------------------------------------------------------------------------
(***************************************************************************)
(* Runqueue operations.                                                    *)
(***************************************************************************)
Unint(t) == IF state[t] = "U" THEN 1 ELSE 0

\* task_running
Running(t) == curr[cpu[t]] = t

\* check_preempt_curr for the threads of S on CPU c: the idle class always
\* gives way, a real-time thread gives way to a lower number, a fair thread to
\* any real-time one; between two fair threads virtual time decides.
MustPreempt(t, u) == u \in Idlers \/ (Rt(t) /\ prio[t] < prio[u])
MayPreempt(t, u) == MustPreempt(t, u) \/ (~Rt(t) /\ ~Rt(u))
CheckPreempt(c, S, flags) ==
  \/ /\ \E t \in S : MayPreempt(t, curr[c])
     /\ resched' = flags \cup {curr[c]}
  \/ /\ \A t \in S : ~MustPreempt(t, curr[c])
     /\ resched' = flags

\* As CanMigrate, without the task_running test
CanMigrateRunning(t, b, c) == c \in allowed[t]

\* can_migrate_task, without the cache-hot test
CanMigrate(t, b, c) == c \in allowed[t] /\ curr[b] # t

\* As PullTasks, without set_task_cpu
PullTasksNoCpu(S, b, c, q) ==
  /\ rq' = [q EXCEPT ![b] = @ \ S, ![c] = @ \cup S]
  /\ UNCHANGED cpu

\* pull_task for every thread of S: deactivate_task on b, set_task_cpu,
\* activate_task on c.  nr_uninterruptible goes up on b and down on c.
PullTasks(S, b, c, q) ==
  /\ rq' = [q EXCEPT ![b] = @ \ S, ![c] = @ \cup S]
  /\ cpu' = [t \in Thread |-> IF t \in S THEN c ELSE cpu[t]]

\* find_busiest_group and find_busiest_queue: some other CPU; only one with
\* more than one queued thread is pulled from.
Busiest(c) == {b \in CPU \ {c} : Cardinality(rq[b]) > 1}

-----------------------------------------------------------------------------
(***************************************************************************)
(* schedule().                                                             *)
(***************************************************************************)
\* CPU c is executing its current thread, not the inside of schedule() or the
\* balancing softirq.
Free(c) == newidle[c] = NoCpu /\ nudge[c] = NoCpu

\* CPU c takes interrupts: schedule(), the migration thread from its queue to
\* the end of __migrate_task, and complete() run with them disabled.
Irqs(c) == newidle[c] = NoCpu /\ pc[curr[c]] \notin {"move", "completing"}

\* pick_next_task over the classes rt, fair and idle
PickNext(c, q) ==
  IF q = {} THEN {idle[c]}
  ELSE {t \in q : Rt(t) => \A u \in q : prio[t] <= prio[u]}
         \cap {t \in q : ~Rt(t) => \A u \in q : ~Rt(u)}

Switch(c, q) == \E next \in PickNext(c, q) : curr' = [curr EXCEPT ![c] = next]

\* The body of schedule() once prev's flag is clear and the set out (prev or
\* nothing) is dequeued.  An empty runqueue goes through idle_balance, which
\* either pulls under both locks at once or, when double_lock_balance meets a
\* taken lock of a lower runqueue, drops its own lock first.
Reschedule(c, out) ==
  LET prev == curr[c]
      q == [rq EXCEPT ![c] = @ \ out]
  IN
  /\ onrq' = onrq \ out
  /\ nrUnint' = IF prev \in out THEN nrUnint + Unint(prev) ELSE nrUnint
  /\ \/ /\ rq' = q
        /\ resched' = resched \ {prev}
        /\ Switch(c, q[c])
        /\ UNCHANGED <<cpu, newidle>>
     \/ /\ q[c] = {}
        /\ \E b \in Busiest(c) :
             \E S \in (SUBSET {t \in rq[b] : CanMigrate(t, b, c)}) \ {{}} :
               /\ PullTasks(S, b, c, q)
               /\ CheckPreempt(c, S, resched \ {prev})
               /\ Switch(c, S)
        /\ UNCHANGED newidle
     \/ /\ q[c] = {}
        /\ \E b \in Busiest(c) :
             /\ b < c
             /\ newidle' = [newidle EXCEPT ![c] = b]
        /\ rq' = q
        /\ resched' = resched \ {prev}
        /\ UNCHANGED <<cpu, curr>>
  /\ UNCHANGED <<allowed, waking, reqVars, migVars>>

\* A call of schedule(): from a task at any point, from wait_for_completion,
\* from the migration thread, from the idle loop when its flag is set.
Schedule(c) ==
  LET prev == curr[c] IN
  /\ Free(c)
  /\ pc[prev] \in {"run", "block", "sleep"}
  /\ prev \in Idlers => prev \in resched
  /\ \/ /\ state[prev] = "R"
        /\ Reschedule(c, {})
        /\ UNCHANGED state
     \/ /\ state[prev] # "R"
        /\ Reschedule(c, {prev})
        /\ UNCHANGED state
     \/ /\ state[prev] = "I" /\ prev \in Task    \* signal_pending
        /\ state' = [state EXCEPT ![prev] = "R"]
        /\ Reschedule(c, {})
  /\ pc' = [pc EXCEPT ![prev] = CASE @ = "block" -> "wait"
                                  [] @ = "sleep" -> "awake"
                                  [] OTHER -> @]

\* preempt_schedule_irq: PREEMPT_ACTIVE keeps the thread queued in any state.
Preempt(c) ==
  /\ Free(c) /\ Irqs(c)
  /\ curr[c] \in resched /\ curr[c] \notin Idlers
  /\ Reschedule(c, {})
  /\ UNCHANGED <<state, pc>>

\* load_balance_newidle with both locks, then pick_next_task and the switch
NewIdle(c) ==
  /\ newidle[c] # NoCpu
  /\ LET b == newidle[c] IN
     \E S \in SUBSET {t \in rq[b] : CanMigrate(t, b, c)} :
       /\ PullTasks(S, b, c, rq)
       /\ CheckPreempt(c, S, resched)
       /\ Switch(c, rq[c] \cup S)
  /\ newidle' = [newidle EXCEPT ![c] = NoCpu]
  /\ UNCHANGED <<state, allowed, onrq, nrUnint, waking, reqVars, migVars, pc>>

-----------------------------------------------------------------------------

\* As WakeHere, taking a queued thread for one that is awake
WakeHereQueued(p) ==
  \/ /\ state[p] = "R" \/ p \in onrq
     /\ UNCHANGED <<state, onrq, rq, nrUnint, resched>>
  \/ /\ state[p] # "R" /\ p \notin onrq
     /\ state' = [state EXCEPT ![p] = "R"]
     /\ onrq' = onrq \cup {p}
     /\ rq' = [rq EXCEPT ![cpu[p]] = @ \cup {p}]
     /\ nrUnint' = nrUnint - Unint(p)
     /\ CheckPreempt(cpu[p], {p}, resched)

\* A wakeup that finds the thread awake, still queued, or to be activated on
\* the CPU it is on.
WakeHere(p) ==
  \/ /\ state[p] = "R"
     /\ UNCHANGED <<state, onrq, rq, nrUnint, resched>>
  \/ /\ state[p] # "R" /\ p \in onrq
     /\ state' = [state EXCEPT ![p] = "R"]
     /\ UNCHANGED <<onrq, rq, nrUnint, resched>>
  \/ /\ state[p] # "R" /\ p \notin onrq
     /\ state' = [state EXCEPT ![p] = "R"]
     /\ onrq' = onrq \cup {p}
     /\ rq' = [rq EXCEPT ![cpu[p]] = @ \cup {p}]
     /\ nrUnint' = nrUnint - Unint(p)
     /\ CheckPreempt(cpu[p], {p}, resched)

\* The first half of a wakeup that moves the thread to the waking CPU and
\* unlocks before it activates it.
WakeTo(c, p) ==
  /\ state[p] # "R" /\ p \notin onrq /\ ~Running(p)
  /\ cpu[p] # c /\ c \in allowed[p]
  /\ cpu' = [cpu EXCEPT ![p] = c]

\* A wakeup of a task by a thread or an interrupt of CPU c
Wake(c, p) ==
  /\ Irqs(c)
  /\ p \in Task /\ state[p] # "R"
  /\ \/ WakeHere(p) /\ UNCHANGED <<cpu, waking>>
     \/ /\ WakeTo(c, p)
        /\ p \notin waking
        /\ waking' = waking \cup {p}
        /\ UNCHANGED <<state, onrq, rq, nrUnint, resched>>
  /\ UNCHANGED <<allowed, curr, newidle, reqVars, migVars, pc>>

\* The second half, after the thread's new runqueue is locked
WakeMoved(p) ==
  /\ p \in waking
  /\ WakeHere(p)
  /\ waking' = waking \ {p}
  /\ UNCHANGED <<cpu, allowed, curr, newidle, reqVars, migVars, pc>>

\* __set_current_state, by a task about to sleep or no longer about to
SetState(c) ==
  LET t == curr[c] IN
  /\ Free(c)
  /\ t \in Task /\ pc[t] = "run"
  /\ \E s \in (Sleeps \cup {"R"}) \ {state[t]} : state' = [state EXCEPT ![t] = s]
  /\ UNCHANGED <<cpu, allowed, onrq, rq, nrUnint, curr, newidle, resched,
                 waking, reqVars, migVars, pc>>

-----------------------------------------------------------------------------
(***************************************************************************)
(* Migration requests: sched_exec, set_cpus_allowed.                       *)
(***************************************************************************)
\* migrate_task and what its callers do next: a thread that is neither queued
\* nor running just gets its new CPU; otherwise the caller queues a request at
\* the head of the list and goes on to wake the migration thread.
MigrateTask(t, p, d) ==
  \/ /\ p \notin onrq /\ ~Running(p)
     /\ cpu' = [cpu EXCEPT ![p] = d]
     /\ UNCHANGED <<migq, reqTask, reqDest, reqCpu, done, pc>>
  \/ /\ p \in onrq \/ Running(p)
     /\ reqTask' = [reqTask EXCEPT ![t] = p]
     /\ reqDest' = [reqDest EXCEPT ![t] = d]
     /\ reqCpu' = [reqCpu EXCEPT ![t] = cpu[p]]
     /\ done' = [done EXCEPT ![t] = 0]
     /\ migq' = [migq EXCEPT ![cpu[p]] = <<t>> \o @]
     /\ pc' = [pc EXCEPT ![t] = "kick"]
     /\ UNCHANGED cpu

\* sched_migrate_task(current, d), with d chosen before the lock was taken
SchedExec(c, d) ==
  LET t == curr[c] IN
  /\ Free(c)
  /\ t \in Execs /\ pc[t] = "run" /\ state[t] = "R"
  /\ d \in allowed[t]
  /\ MigrateTask(t, t, d)
  /\ UNCHANGED <<state, allowed, onrq, rq, nrUnint, curr, newidle, resched,
                 waking, waiting, nudge, push, handling>>

\* set_cpus_allowed(p, m), as sched_setaffinity calls it
SetCpusAllowed(c, p, m) ==
  LET t == curr[c] IN
  /\ Free(c)
  /\ t \in Setters /\ pc[t] = "run" /\ state[t] = "R"
  /\ p \in Targets /\ m \in Masks
  /\ allowed' = [allowed EXCEPT ![p] = m]
  /\ \/ /\ cpu[p] \in m
        /\ UNCHANGED <<cpu, migq, reqTask, reqDest, reqCpu, done, pc>>
     \/ /\ cpu[p] \notin m
        /\ \E d \in m : MigrateTask(t, p, d)
  /\ UNCHANGED <<state, onrq, rq, nrUnint, curr, newidle, resched,
                 waking, waiting, nudge, push, handling>>

\* wake_up_process of the migration thread of the runqueue that holds the request
Kick(c) ==
  LET t == curr[c] IN
  /\ Free(c)
  /\ pc[t] \in {"kick", "kicking"}
  /\ LET m == migrator[reqCpu[t]] IN
     \/ /\ WakeHere(m)
        /\ pc' = [pc EXCEPT ![t] = "wait"]
        /\ UNCHANGED cpu
     \/ /\ pc[t] = "kick"
        /\ WakeTo(c, m)
        /\ pc' = [pc EXCEPT ![t] = "kicking"]
        /\ UNCHANGED <<state, onrq, rq, nrUnint, resched>>
  /\ UNCHANGED <<allowed, curr, newidle, waking, reqVars, migVars>>

\* complete() has the completion's lock and is inside try_to_wake_up
Completing(t) == \E k \in CPU : handling[k] = t /\ pc[migrator[k]] = "completing"

\* wait_for_completion, from one taking of the completion's lock to the next
WaitForCompletion(c) ==
  LET t == curr[c] IN
  /\ Free(c)
  /\ pc[t] = "wait" /\ ~Completing(t)
  /\ \/ /\ done[t] > 0
        /\ done' = [done EXCEPT ![t] = @ - 1]
        /\ waiting' = waiting \ {t}
        /\ pc' = [pc EXCEPT ![t] = "run"]
        /\ reqTask' = [reqTask EXCEPT ![t] = NoThread]   \* the request was
        /\ reqDest' = [reqDest EXCEPT ![t] = NoCpu]      \* on the caller's stack
        /\ reqCpu' = [reqCpu EXCEPT ![t] = NoCpu]
        /\ UNCHANGED state
     \/ /\ done[t] = 0
        /\ waiting' = waiting \cup {t}
        /\ state' = [state EXCEPT ![t] = "U"]
        /\ pc' = [pc EXCEPT ![t] = "block"]
        /\ UNCHANGED <<done, reqTask, reqDest, reqCpu>>
  /\ UNCHANGED <<cpu, allowed, onrq, rq, nrUnint, curr, newidle, resched,
                 waking, migVars>>

-----------------------------------------------------------------------------
(***************************************************************************)
(* Load balancing and the migration thread.                                *)
(***************************************************************************)
\* load_balance from the balancing softirq of c: move_tasks under both locks
LoadBalance(c) ==
  /\ Free(c) /\ Irqs(c)
  /\ \E b \in Busiest(c) :
       \E S \in (SUBSET {t \in rq[b] : CanMigrate(t, b, c)}) \ {{}} :
         /\ PullTasks(S, b, c, rq)
         /\ CheckPreempt(c, S, resched)
  /\ UNCHANGED <<state, allowed, onrq, nrUnint, curr, newidle, waking,
                 reqVars, migVars, pc>>

\* load_balance that moved nothing for long: ask b's migration thread to push
\* a thread here, unless its current thread may not run on c
ActiveBalance(c, b) ==
  /\ Free(c) /\ Irqs(c)
  /\ c \in Pushers /\ b # c
  /\ c \in allowed[curr[b]]
  /\ push[b] = NoCpu
  /\ push' = [push EXCEPT ![b] = c]
  /\ nudge' = [nudge EXCEPT ![c] = b]
  /\ UNCHANGED <<rqVars, curr, newidle, resched, waking, reqVars, migq,
                 handling, pc>>

\* and then wake_up_process of that thread
Nudge(c) ==
  /\ newidle[c] = NoCpu /\ nudge[c] # NoCpu
  /\ LET m == migrator[nudge[c]] IN
     \/ WakeHere(m) /\ UNCHANGED <<cpu, waking>>
     \/ /\ WakeTo(c, m)
        /\ m \notin waking
        /\ waking' = waking \cup {m}
        /\ UNCHANGED <<state, onrq, rq, nrUnint, resched>>
  /\ nudge' = [nudge EXCEPT ![c] = NoCpu]
  /\ UNCHANGED <<allowed, curr, newidle, reqVars, push, migq, handling, pc>>

\* The migration thread of CPU k is executing on CPU c.
Migrating(c, k, at) == Free(c) /\ curr[c] = migrator[k] /\ pc[migrator[k]] = at

\* set_current_state(TASK_INTERRUPTIBLE) at the top of the loop
MigrationAwake(c, k) ==
  /\ Migrating(c, k, "awake")
  /\ state' = [state EXCEPT ![migrator[k]] = "I"]
  /\ pc' = [pc EXCEPT ![migrator[k]] = "loop"]
  /\ UNCHANGED <<cpu, allowed, onrq, rq, nrUnint, curr, newidle, resched,
                 waking, reqVars, migVars>>

\* active_load_balance: move_one_task to the CPU that asked, if one may go
ActiveLoadBalance(k) ==
  \/ \E t \in rq[k] :
       /\ CanMigrate(t, k, push[k])
       /\ PullTasks({t}, k, push[k], rq)
       /\ CheckPreempt(push[k], {t}, resched)
  \/ UNCHANGED <<cpu, rq, resched>>

\* One turn of the loop: serve the balancing request, then take the first
\* migration request off the queue, or go to sleep
TakeRequest(c, k) ==
  /\ Migrating(c, k, "loop")
  /\ IF push[k] = NoCpu THEN UNCHANGED <<cpu, rq, resched>> ELSE ActiveLoadBalance(k)
  /\ push' = [push EXCEPT ![k] = NoCpu]
  /\ \/ /\ migq[k] = <<>>
        /\ pc' = [pc EXCEPT ![migrator[k]] = "sleep"]
        /\ UNCHANGED <<migq, handling>>
     \/ /\ migq[k] # <<>>
        /\ handling' = [handling EXCEPT ![k] = Head(migq[k])]
        /\ migq' = [migq EXCEPT ![k] = Tail(@)]
        /\ pc' = [pc EXCEPT ![migrator[k]] = "move"]
  /\ UNCHANGED <<state, allowed, onrq, nrUnint, curr, newidle, waking, reqVars, nudge>>

\* __migrate_task under both locks
MoveRequested(c, k) ==
  /\ Migrating(c, k, "move")
  /\ LET p == reqTask[handling[k]]
         d == reqDest[handling[k]] IN
     \/ /\ cpu[p] # k \/ d \notin allowed[p]
        /\ UNCHANGED <<cpu, rq, resched>>
     \/ /\ cpu[p] = k /\ d \in allowed[p]
        /\ p \in onrq
        /\ PullTasks({p}, k, d, rq)
        /\ CheckPreempt(d, {p}, resched)
     \/ /\ cpu[p] = k /\ d \in allowed[p]
        /\ p \notin onrq
        /\ cpu' = [cpu EXCEPT ![p] = d]
        /\ UNCHANGED <<rq, resched>>
  /\ pc' = [pc EXCEPT ![migrator[k]] = "complete"]
  /\ UNCHANGED <<state, allowed, onrq, nrUnint, curr, newidle, waking,
                 reqVars, migVars>>

\* As Complete, without the wakeup
CompleteSilent(c, k) ==
  /\ Migrating(c, k, "complete")
  /\ done' = [done EXCEPT ![handling[k]] = @ + 1]
  /\ pc' = [pc EXCEPT ![migrator[k]] = "loop"]
  /\ handling' = [handling EXCEPT ![k] = NoThread]
  /\ UNCHANGED <<rqVars, curr, newidle, resched, waking, reqTask, reqDest,
                 reqCpu, waiting, nudge, push, migq>>

\* complete(): count, and wake the waiter if it is queued
Complete(c, k) ==
  LET m == migrator[k]
      t == handling[k] IN
  /\ \/ /\ Migrating(c, k, "complete")
        /\ done' = [done EXCEPT ![t] = @ + 1]
     \/ /\ Migrating(c, k, "completing")
        /\ UNCHANGED done
  /\ \/ /\ t \in waiting
        /\ WakeHere(t)
        /\ pc' = [pc EXCEPT ![m] = "loop"]
        /\ handling' = [handling EXCEPT ![k] = NoThread]
        /\ UNCHANGED cpu
     \/ /\ t \in waiting /\ pc[m] = "complete"
        /\ WakeTo(c, t)
        /\ pc' = [pc EXCEPT ![m] = "completing"]
        /\ UNCHANGED <<state, onrq, rq, nrUnint, resched, handling>>
     \/ /\ t \notin waiting
        /\ pc' = [pc EXCEPT ![m] = "loop"]
        /\ handling' = [handling EXCEPT ![k] = NoThread]
        /\ UNCHANGED <<state, cpu, onrq, rq, nrUnint, resched>>
  /\ UNCHANGED <<allowed, curr, newidle, waking, reqTask, reqDest, reqCpu,
                 waiting, nudge, push, migq>>

\* scheduler_tick on a fair thread that shares its CPU: check_preempt_tick
Tick(c) ==
  /\ Irqs(c)
  /\ ~Rt(curr[c]) /\ curr[c] \notin Idlers \cup resched
  /\ Cardinality(rq[c]) > 1
  /\ resched' = resched \cup {curr[c]}
  /\ UNCHANGED <<rqVars, curr, newidle, waking, reqVars, migVars, pc>>

ThreadStep(c) ==
  \/ Schedule(c) \/ SetState(c) \/ Kick(c) \/ WaitForCompletion(c)
  \/ \E d \in CPU : SchedExec(c, d)
  \/ \E p \in Task, m \in Masks : SetCpusAllowed(c, p, m)
  \/ \E k \in CPU : \/ MigrationAwake(c, k) \/ TakeRequest(c, k)
                    \/ MoveRequested(c, k) \/ Complete(c, k)

InterruptStep(c) ==
  \/ Preempt(c) \/ NewIdle(c) \/ Tick(c) \/ LoadBalance(c) \/ Nudge(c)
  \/ \E b \in CPU : ActiveBalance(c, b)
  \/ \E p \in Task : Wake(c, p)

Next == \/ \E c \in CPU : ThreadStep(c) \/ InterruptStep(c)
        \/ \E p \in Thread : WakeMoved(p)

Spec == Init /\ [][Next]_vars

\* Every CPU goes on executing: its current thread takes its next kernel step,
\* a pending reschedule is honoured, an interrupt handler finishes.  Nothing is
\* assumed of the steps a task takes of its own accord.
CpuProgress(c) ==
  \/ Kick(c) \/ WaitForCompletion(c) \/ Preempt(c) \/ NewIdle(c) \/ Nudge(c)
  \/ Schedule(c) /\ (pc[curr[c]] \in {"block", "sleep"} \/ curr[c] \in Idlers)
  \/ \E k \in CPU : \/ MigrationAwake(c, k) \/ TakeRequest(c, k)
                    \/ MoveRequested(c, k) \/ Complete(c, k)

\* A runnable fair thread is picked again and again: its virtual time stands
\* still while that of the others advances.
Picked(t) ==
  \E c \in CPU : /\ Schedule(c) \/ Preempt(c) \/ NewIdle(c)
                /\ curr[c] # t /\ curr'[c] = t

\* A thread that is picked runs for its slice: it takes its next kernel step
\* before the tick has taken the CPU from it forever.
StepOf(t) ==
  \E c \in CPU : /\ curr[c] = t
                /\ \/ Kick(c) \/ WaitForCompletion(c)
                   \/ Schedule(c) /\ pc[t] = "block"

FairSpec ==
  Spec /\ (\A c \in CPU : WF_vars(CpuProgress(c)))
       /\ (\A p \in Thread : WF_vars(WakeMoved(p)))
       /\ (\A t \in Task : SF_vars(Picked(t)) /\ SF_vars(StepOf(t)))

-----------------------------------------------------------------------------
(***************************************************************************)
(* Properties.                                                             *)
(***************************************************************************)
\* A thread is the current one of at most one CPU, the one p->cpu names, and it
\* is queued there unless schedule() is just taking it off.  Wakeups, pulls and
\* migrations all rewrite p->cpu while other CPUs schedule.
OneCpu ==
  \A c \in CPU : curr[c] \notin Idlers =>
    /\ cpu[curr[c]] = c
    /\ newidle[c] = NoCpu => curr[c] \in rq[c]

\* p->se.on_rq tells the truth: a thread is queued on the runqueue of its own
\* CPU exactly when the flag is set, and on no other.
QueuedWhereItSays ==
  \A t \in Thread, c \in CPU : t \in rq[c] <=> t \in onrq /\ cpu[t] = c

\* A thread whose CPU left its mask has a request on that CPU's migration queue,
\* or one its migration thread has taken, that will move it to an allowed CPU:
\* set_cpus_allowed never strands a thread, however its calls interleave with
\* wakeups, balancing and other calls.
StrandedIsRequested ==
  \A p \in Task : cpu[p] \notin allowed[p] =>
    LET k == cpu[p] IN
    \E t \in Task :
      /\ reqTask[t] = p /\ reqDest[t] \in allowed[p]
      /\ \/ \E i \in 1..Len(migq[k]) : migq[k][i] = t
         \/ handling[k] = t /\ pc[migrator[k]] = "move"

\* Work queued for a migration thread is never forgotten: the thread is
\* runnable, or somebody is about to wake it.
NoLostKick ==
  \A k \in CPU : (migq[k] # <<>> \/ push[k] # NoCpu) =>
    LET m == migrator[k] IN
    \/ state[m] = "R" \/ m \in waking
    \/ m \in onrq /\ pc[m] \in {"loop", "move", "complete", "completing"}
    \/ \E t \in Task : pc[t] \in {"kick", "kicking"} /\ reqCpu[t] = k
    \/ \E c \in CPU : nudge[c] = k

\* A completed request's waiter is not left asleep.
NoLostCompletion ==
  \A t \in waiting : done[t] > 0 => state[t] = "R" \/ Completing(t)

\* The load-average counter is exact: summed over the runqueues,
\* nr_uninterruptible is the number of threads asleep uninterruptibly.
UninterruptibleCount ==
  nrUnint = Cardinality({t \in Thread \ onrq : state[t] = "U"})

\* A queued real-time thread that should run instead of the current one has
\* already asked for it: TIF_NEED_RESCHED is set, or schedule() is running.
PreemptionRequested ==
  \A c \in CPU, t \in Thread :
    t \in rq[c] /\ newidle[c] = NoCpu /\ MustPreempt(t, curr[c]) =>
      curr[c] \in resched

\* "migration thread wakes up (implicitly it forces the migrated thread off the
\* CPU)", core.c:3326: when the migration thread of CPU k is about to move a
\* thread that is still on k, that thread is not executing there.
MigrationForcesOff ==
  \A c, k \in CPU :
    Migrating(c, k, "move") /\ cpu[reqTask[handling[k]]] = k =>
      curr[k] # reqTask[handling[k]]

=============================================================================
