---------------------------- MODULE SchedClass ----------------------------
(***************************************************************************)
(* The scheduling classes on one runqueue: the fair class                  *)
(* (kernel/core/sched/fair.c), the real-time class (rt.c) and the idle     *)
(* class (idle.c), with the parts of core.c that drive them: the runqueue  *)
(* clock, activation, fork, the tick, schedule(), nice values, policies    *)
(* and sched_yield.                                                        *)
(*                                                                         *)
(* Every function of the code that changes the runqueue is an operator     *)
(* from a runqueue to a runqueue; an action is what one caller does while  *)
(* it holds rq->lock.  The red-black tree is the sequence of its nodes in  *)
(* order.  Virtual run times are unsigned and wrap at Wrap.  sched_clock() *)
(* enters as the difference from the reading before it, which may be       *)
(* negative.  normal_prio and rt_priority are left out: nothing here reads *)
(* them once p->prio is set.  The sum of a task's run times appears only   *)
(* as what the running task has run since it was picked.                   *)
(***************************************************************************)
EXTENDS Integers, Sequences, FiniteSets

CONSTANTS
  Task, Idle, None,
  MAX_RT_PRIO,      \* priorities below it are real-time
  NICE_0_PRIO,      \* the static priority of nice level 0
  prio_to_weight,   \* by static priority, from MAX_RT_PRIO up
  WEIGHT_IDLEPRIO, WeightBeyond,
  WMULT_SHIFT,
  TICK_NSEC, RR_TIMESLICE,
  sysctl_sched_latency, sysctl_sched_min_granularity, sched_nr_latency,
  sysctl_sched_wakeup_granularity,
  Wrap,             \* virtual run times are taken modulo this
  MinStart,         \* how far below the wrap min_vruntime starts
  Deltas,           \* differences between two readings of sched_clock()
  MaxClock,         \* the runqueue clock the model stops at
  MaxOps,           \* nice, policy and migration calls in a behaviour
  Services,         \* the tasks the kernel creates with a real-time priority
  Targets,          \* the tasks whose policy may be set
  Policies, RtPriorities, Lags

VARIABLES rq, ops
classVars == <<rq, ops>>

NICE_0_LOAD == prio_to_weight[NICE_0_PRIO]
WMULT_CONST == 2^WMULT_SHIFT
StaticPrios == DOMAIN prio_to_weight

ASSUME ClassAssumption ==
  /\ Idle \notin Task /\ None \notin Task /\ Services \subseteq Task
  /\ Targets \subseteq Task
  /\ MAX_RT_PRIO \in Nat /\ NICE_0_PRIO \in StaticPrios
  /\ \A n \in StaticPrios : n >= MAX_RT_PRIO /\ prio_to_weight[n] \in Nat \ {0}
  /\ \A r \in RtPriorities : r \in 1 .. (MAX_RT_PRIO - 1)

RtPolicies == {"FIFO", "RR"}
Rt(t) == t.pol \in RtPolicies
rt_prio(n) == n < MAX_RT_PRIO

\* The running idle task has the lowest priority of all.
PrioOf(s, p) == IF p = Idle THEN MAX_RT_PRIO + 40 ELSE s.t[p].prio

(* ------------------------- Virtual time -------------------------------- *)

\* (s64)(a - b)
SDelta(a, b) ==
  LET d == (a - b) % Wrap IN IF d >= Wrap \div 2 THEN d - Wrap ELSE d

max_vruntime(m, v) == IF SDelta(v, m) > 0 THEN v ELSE m
min_vruntime(m, v) == IF SDelta(v, m) < 0 THEN v ELSE m
entity_key(s, p) == SDelta(s.t[p].vr, s.minv)

SRR(x, y) == (x + 2^(y - 1)) \div 2^y

\* The reciprocal is the one prio_to_wmult[] lists for the weight.
calc_delta_mine(delta, weight, w) ==
  LET inv == (WMULT_CONST - w \div 2) \div w + 1
      tmp == delta * weight IN
  IF tmp > WMULT_CONST
  THEN SRR(SRR(tmp, WMULT_SHIFT \div 2) * inv, WMULT_SHIFT \div 2)
  ELSE SRR(tmp * inv, WMULT_SHIFT)

calc_delta_fair(delta, w) == calc_delta_mine(delta, NICE_0_LOAD, w)

__sched_period(nr) ==
  IF nr > sched_nr_latency THEN nr * sysctl_sched_min_granularity ELSE sysctl_sched_latency

sched_slice(s, p) == (__sched_period(s.cnr) * s.t[p].w) \div s.cload

sched_vslice_add(s, p) ==
  (__sched_period(s.cnr + 1) * NICE_0_LOAD) \div (s.cload + s.t[p].w)

(* ------------------------- The fair class ------------------------------ *)

\* A search goes right when the keys are equal, so a task comes after its equals.
__enqueue_entity(s, p) ==
  LET n == Cardinality({i \in DOMAIN s.tl : entity_key(s, p) >= entity_key(s, s.tl[i])}) IN
  [s EXCEPT !.tl = SubSeq(s.tl, 1, n) \o <<p>> \o SubSeq(s.tl, n + 1, Len(s.tl)),
            !.left = IF n = 0 THEN p ELSE @]

__dequeue_entity(s, p) ==
  LET n == CHOOSE i \in DOMAIN s.tl : s.tl[i] = p IN
  [s EXCEPT !.tl = SubSeq(s.tl, 1, n - 1) \o SubSeq(s.tl, n + 1, Len(s.tl)),
            !.left = IF @ # p THEN @ ELSE IF n < Len(s.tl) THEN s.tl[n + 1] ELSE None]

__update_curr(s, p, delta) ==
  LET w  == s.t[p].w
      v  == (s.t[p].vr + (IF w # NICE_0_LOAD THEN calc_delta_fair(delta, w) ELSE delta)) % Wrap
      lo == IF s.left # None THEN min_vruntime(v, s.t[s.left].vr) ELSE v IN
  [s EXCEPT !.t[p].vr = v, !.ran = @ + delta, !.minv = max_vruntime(@, lo)]

update_curr(s) ==
  IF s.cc = None THEN s
  ELSE LET u == __update_curr(s, s.cc, s.clock - s.t[s.cc].start) IN
       [u EXCEPT !.t[s.cc].start = s.clock, !.since = s.clock]

account_entity_enqueue(s, p) ==
  [s EXCEPT !.cload = @ + s.t[p].w, !.cnr = @ + 1, !.t[p].onrq = TRUE]

account_entity_dequeue(s, p) ==
  [s EXCEPT !.cload = @ - s.t[p].w, !.cnr = @ - 1, !.t[p].onrq = FALSE]

\* START_DEBIT and NEW_FAIR_SLEEPERS are on, the averaging features are off.
place_entity(s, p, initial) ==
  [s EXCEPT !.t[p].vr =
     IF initial THEN (s.minv + sched_vslice_add(s, p)) % Wrap
     ELSE max_vruntime(@, (s.minv - sysctl_sched_latency) % Wrap)]

enqueue_entity(s, p, wakeup) ==
  LET u == update_curr(s)
      v == IF wakeup THEN place_entity(u, p, FALSE) ELSE u IN
  account_entity_enqueue(IF p # v.cc THEN __enqueue_entity(v, p) ELSE v, p)

dequeue_entity(s, p) ==
  LET u == update_curr(s) IN
  account_entity_dequeue(IF p # u.cc THEN __dequeue_entity(u, p) ELSE u, p)

set_next_entity(s, p) ==
  [(IF s.t[p].onrq THEN __dequeue_entity(s, p) ELSE s) EXCEPT !.cc = p, !.ran = 0]

put_prev_entity(s, p) ==
  [(IF s.t[p].onrq THEN __enqueue_entity(update_curr(s), p) ELSE s) EXCEPT !.cc = None]

resched_task(s) == [s EXCEPT !.need = TRUE]

entity_tick(s, p) ==
  LET u == update_curr(s) IN
  IF u.cnr > 1 /\ u.ran > sched_slice(u, p) THEN resched_task(u) ELSE u

(* ------------------------- The runqueue clock -------------------------- *)

__update_rq_clock(s, d) ==
  LET top == s.tick + TICK_NSEC IN
  [s EXCEPT !.clock = IF d < 0 THEN @ + 1
                      ELSE IF @ + d <= top THEN @ + d
                      ELSE IF @ < top THEN top ELSE @ + 1]

\* Only the CPU that owns the runqueue reads its clock.
update_rq_clock(s, d, here) == IF here THEN __update_rq_clock(s, d) ELSE s

(* ------------------------- The real-time class ------------------------- *)

update_curr_rt(s) ==
  IF s.curr \notin Task THEN s
  ELSE IF ~Rt(s.t[s.curr]) THEN s
  ELSE [s EXCEPT !.t[s.curr].start = s.clock, !.since = s.clock]

enqueue_task_rt(s, p) ==
  LET n == s.t[p].prio IN
  [s EXCEPT !.queue[n] = Append(@, p), !.bitmap = @ \cup {n}]

Others(q, p) == SelectSeq(q, LAMBDA x : x # p)

dequeue_task_rt(s, p) ==
  LET u == update_curr_rt(s)
      n == s.t[p].prio
      q == Others(u.queue[n], p) IN
  [u EXCEPT !.queue[n] = q, !.bitmap = IF q = <<>> THEN @ \ {n} ELSE @]

requeue_task_rt(s, p) ==
  [s EXCEPT !.queue[s.t[p].prio] = Append(Others(@, p), p)]

\* --p->time_slice of a task that is not RR is not reached.
task_tick_rt(s, p) ==
  LET u == update_curr_rt(s) IN
  IF u.t[p].pol # "RR" THEN u
  ELSE IF u.t[p].slice # 1 THEN [u EXCEPT !.t[p].slice = @ - 1]
  ELSE LET v == [u EXCEPT !.t[p].slice = RR_TIMESLICE] IN
       IF Len(v.queue[v.t[p].prio]) > 1 THEN resched_task(requeue_task_rt(v, p)) ELSE v

pick_next_task_rt(s) ==
  LET n == CHOOSE m \in s.bitmap : \A k \in s.bitmap : m <= k
      p == Head(s.queue[n]) IN
  [s EXCEPT !.curr = p, !.t[p].start = s.clock]

\* Mutant: a preempted task goes to the end of its list.
PutRequeues(s, p) ==
  LET u == [update_curr_rt(s) EXCEPT !.t[p].start = 0] IN
  IF u.t[p].onrq THEN requeue_task_rt(u, p) ELSE u

put_prev_task_rt(s, p) == [update_curr_rt(s) EXCEPT !.t[p].start = 0]

(* ------------------------- Class dispatch ------------------------------ *)

enqueue_task(s, p, wakeup) ==
  [(IF Rt(s.t[p]) THEN enqueue_task_rt(s, p)
    ELSE IF s.t[p].onrq THEN s ELSE enqueue_entity(s, p, wakeup)) EXCEPT !.t[p].onrq = TRUE]

dequeue_task(s, p) ==
  [(IF Rt(s.t[p]) THEN dequeue_task_rt(s, p) ELSE dequeue_entity(s, p))
     EXCEPT !.t[p].onrq = FALSE]

put_prev_task(s, p) ==
  IF p = Idle THEN s
  ELSE IF Rt(s.t[p]) THEN put_prev_task_rt(s, p) ELSE put_prev_entity(s, p)

set_curr_task(s, p) ==
  IF Rt(s.t[p]) THEN [s EXCEPT !.t[p].start = s.clock] ELSE set_next_entity(s, p)

inc_nr_running(s, p) == [s EXCEPT !.nr = @ + 1, !.load = @ + s.t[p].w]
dec_nr_running(s, p) == [s EXCEPT !.nr = @ - 1, !.load = @ - s.t[p].w]

activate_task(s, p, wakeup) == inc_nr_running(enqueue_task(s, p, wakeup), p)
deactivate_task(s, p) == dec_nr_running(dequeue_task(s, p), p)

\* A weight beyond the table is whatever lies in memory before it.
set_load_weight(s, p) ==
  LET t == s.t[p] IN
  [s EXCEPT !.t[p].w = IF Rt(t) THEN prio_to_weight[MAX_RT_PRIO] * 2
                       ELSE IF t.pol = "IDLE" THEN WEIGHT_IDLEPRIO
                       ELSE IF t.static \in StaticPrios THEN prio_to_weight[t.static]
                       ELSE WeightBeyond]

effective_prio(t) == IF rt_prio(t.prio) THEN t.prio ELSE t.static

\* The comparison of virtual run times is of unsigned numbers.
check_preempt_wakeup(s, p, d, here) ==
  LET c == s.t[s.curr]
      g == IF c.w # NICE_0_LOAD THEN calc_delta_fair(sysctl_sched_wakeup_granularity, c.w)
           ELSE sysctl_sched_wakeup_granularity IN
  IF rt_prio(s.t[p].prio) THEN resched_task(update_curr(update_rq_clock(s, d, here)))
  ELSE IF s.t[p].pol # "BATCH" /\ (s.t[p].vr + g) % Wrap < c.vr THEN resched_task(s)
  ELSE s

check_preempt_curr_rt(s, p) == IF s.t[p].prio < s.t[s.curr].prio THEN resched_task(s) ELSE s

check_preempt_curr(s, p, d, here) ==
  IF s.curr = Idle THEN resched_task(s)
  ELSE IF Rt(s.t[s.curr]) THEN check_preempt_curr_rt(s, p)
  ELSE check_preempt_wakeup(s, p, d, here)

pick_next_task_fair(s) == [set_next_entity(s, s.left) EXCEPT !.curr = s.left]

\* If every queued task is fair the class is called directly.
pick_next_task(s) ==
  IF s.nr = s.cnr /\ s.cnr # 0 THEN pick_next_task_fair(s)
  ELSE IF s.bitmap # {} THEN pick_next_task_rt(s)
  ELSE IF s.cnr # 0 THEN pick_next_task_fair(s)
  ELSE [s EXCEPT !.curr = Idle]

\* The tail of schedule(): the ghost field since is when the new task began.
Switch(s) ==
  LET u == pick_next_task(put_prev_task(s, s.curr)) IN
  IF u.curr = s.curr THEN u ELSE [u EXCEPT !.since = u.clock]

(* ------------------------- The callers --------------------------------- *)

NewTask(p) ==
  [pol |-> "NORMAL", static |-> NICE_0_PRIO, prio |-> NICE_0_PRIO, w |-> NICE_0_LOAD,
   onrq |-> FALSE, vr |-> 0, start |-> 0, slice |-> RR_TIMESLICE, st |-> "new"]

ClassInit ==
  /\ rq = [clock |-> 1, tick |-> 0, curr |-> Idle, need |-> FALSE, nr |-> 0, load |-> 0,
           tl |-> <<>>, left |-> None, cload |-> 0, cnr |-> 0, cc |-> None, ran |-> 0,
           minv |-> (-MinStart) % Wrap,
           queue |-> [n \in 0 .. (MAX_RT_PRIO - 1) |-> <<>>], bitmap |-> {},
           since |-> 1, t |-> [p \in Task |-> NewTask(p)]]
  /\ ops = 0

Bounded == rq.clock < MaxClock
Op == ops < MaxOps /\ ops' = ops + 1

\* The child takes its parent's policy; the kernel's own tasks are made by
\* create_system_task and service_core_init with a real-time static priority.
sched_fork(s, p) ==
  LET c == s.curr
      t == IF p \in Services
           THEN [s.t[p] EXCEPT !.pol = "FIFO", !.prio = MAX_RT_PRIO - 1, !.static = MAX_RT_PRIO - 1]
           ELSE IF c = Idle THEN s.t[p]
           ELSE [s.t[p] EXCEPT !.pol = s.t[c].pol, !.prio = s.t[c].prio,
                               !.static = s.t[c].static, !.slice = s.t[c].slice] IN
  set_load_weight([s EXCEPT !.t[p] = [t EXCEPT !.start = 0, !.onrq = FALSE, !.st = "R"]], p)

\* The comparison before the swap is of unsigned numbers.
task_new_fair(s, p) ==
  LET u == place_entity(update_curr(s), p, TRUE)
      c == u.cc
      v == IF c = None THEN u
           ELSE IF u.t[c].vr >= u.t[p].vr THEN u
           ELSE [u EXCEPT !.t[c].vr = u.t[p].vr, !.t[p].vr = u.t[c].vr] IN
  resched_task(enqueue_task(v, p, FALSE))

wake_up_new_task(s, p, d, d2) ==
  LET u == update_rq_clock(s, d, TRUE)
      v == [u EXCEPT !.t[p].prio = effective_prio(u.t[p])]
      onrq == s.curr # Idle
      x == IF Rt(v.t[p]) \/ ~onrq THEN activate_task(v, p, FALSE)
           ELSE inc_nr_running(task_new_fair(v, p), p) IN
  check_preempt_curr(x, p, d2, TRUE)

Fork(p, d, d2) ==
  /\ Bounded /\ rq.t[p].st = "new"
  /\ p \in Services => rq.curr = Idle
  /\ rq' = wake_up_new_task(sched_fork(rq, p), p, d, d2)
  /\ UNCHANGED ops

Wake(p, d, d2, here) ==
  /\ Bounded /\ rq.t[p].st = "S"
  /\ rq' = [check_preempt_curr(activate_task(update_rq_clock(rq, d, here), p, TRUE), p, d2, here)
              EXCEPT !.t[p].st = "R"]
  /\ UNCHANGED ops

Schedule(d) ==
  /\ Bounded /\ rq.need
  /\ rq' = Switch([__update_rq_clock(rq, d) EXCEPT !.need = FALSE])
  /\ UNCHANGED ops

\* The running task sleeps: schedule() takes it off the runqueue first.
Sleep(d) ==
  /\ Bounded /\ rq.curr # Idle
  /\ LET s == [__update_rq_clock(rq, d) EXCEPT !.need = FALSE, !.t[rq.curr].st = "S"] IN
     rq' = Switch(deactivate_task(s, rq.curr))
  /\ UNCHANGED ops

scheduler_tick(d) ==
  /\ Bounded
  /\ LET next == rq.tick + TICK_NSEC
         u == __update_rq_clock(rq, d)
         c == IF u.clock < next THEN next ELSE u.clock
         s == [u EXCEPT !.clock = c, !.tick = c] IN
     rq' = IF rq.curr = Idle THEN s
           ELSE IF Rt(s.t[s.curr]) THEN task_tick_rt(s, s.curr) ELSE entity_tick(s, s.curr)
  /\ UNCHANGED ops

\* A batch task goes behind the rightmost one, unless it is there already; any
\* other fair task only has its run time brought up to date.
yield_task_fair(s, d) ==
  LET c == s.curr
      last == s.tl[Len(s.tl)] IN
  IF s.cnr = 1 THEN s
  ELSE IF s.t[c].pol # "BATCH" THEN update_curr(__update_rq_clock(s, d))
  ELSE IF s.t[last].vr < s.t[c].vr THEN s
  ELSE [s EXCEPT !.t[c].vr = (s.t[last].vr + 1) % Wrap]

yield_task(s, d) ==
  IF Rt(s.t[s.curr]) THEN requeue_task_rt(s, s.curr) ELSE yield_task_fair(s, d)

\* sys_sched_yield drops the lock between its two halves with preemption off.
Yield(d, d2) ==
  /\ Bounded /\ rq.curr # Idle
  /\ rq' = Switch([__update_rq_clock(yield_task(rq, d), d2) EXCEPT !.need = FALSE])
  /\ UNCHANGED ops

\* Mutant: the runqueue's load gets the old weight back.
NiceKeepsLoad(s, p, n) ==
  LET r == s.t[p].onrq
      u == IF r THEN dequeue_task(s, p) ELSE s
      v == set_load_weight([u EXCEPT !.t[p].static = n], p)
      x == [v EXCEPT !.t[p].prio = effective_prio(v.t[p])] IN
  IF Rt(s.t[p]) THEN [s EXCEPT !.t[p].static = n]
  ELSE IF r THEN resched_task(enqueue_task(x, p, FALSE)) ELSE x

set_user_nice(s, p, n) ==
  LET r  == s.t[p].onrq
      u  == IF r THEN [dequeue_task(s, p) EXCEPT !.load = @ - s.t[p].w] ELSE s
      v  == set_load_weight([u EXCEPT !.t[p].static = n], p)
      x  == [v EXCEPT !.t[p].prio = effective_prio(v.t[p])]
      y  == [enqueue_task(x, p, FALSE) EXCEPT !.load = @ + x.t[p].w]
      dp == x.t[p].prio - s.t[p].prio IN
  IF Rt(s.t[p]) THEN [s EXCEPT !.t[p].static = n]
  ELSE IF ~r THEN x
  ELSE IF dp < 0 \/ (dp > 0 /\ s.curr = p) THEN resched_task(y) ELSE y

SetNice(p, n, d, here) ==
  /\ Bounded /\ Op /\ p \in Targets
  /\ rq.t[p].st \in {"R", "S"} /\ rq.t[p].static # n
  /\ rq' = set_user_nice(update_rq_clock(rq, d, here), p, n)

__setscheduler(s, p, policy, rp) ==
  LET n == IF policy \in RtPolicies THEN MAX_RT_PRIO - 1 - rp ELSE s.t[p].static IN
  set_load_weight([s EXCEPT !.t[p].pol = policy, !.t[p].prio = n], p)

sched_setscheduler(s, p, policy, rp, d, here) ==
  LET r == s.t[p].onrq
      running == s.curr = p
      off == deactivate_task(s, p)
      put == IF running THEN put_prev_task(off, p) ELSE off
      new == __setscheduler(IF r THEN put ELSE s, p, policy, rp)
      act == activate_task(IF running THEN set_curr_task(new, p) ELSE new, p, FALSE) IN
  IF ~r THEN new
  ELSE IF ~running THEN check_preempt_curr(act, p, d, here)
  ELSE IF act.t[p].prio > s.t[p].prio THEN resched_task(act) ELSE act

\* A real-time policy comes with a priority from 1 up, any other with 0.
SetScheduler(p, policy, rp, d, d2, here) ==
  /\ Bounded /\ Op /\ p \in Targets
  /\ rq.t[p].st \in {"R", "S"}
  /\ (policy \in RtPolicies) = (rp # 0)
  /\ rq' = sched_setscheduler(update_rq_clock(rq, d, here), p, policy, rp, d2, here)

\* A queued task that does not run is pulled by another CPU.
Leave(p) ==
  /\ Bounded /\ Op
  /\ rq.t[p].onrq /\ rq.curr # p
  /\ rq' = LET s == deactivate_task(rq, p) IN [s EXCEPT !.t[p].st = "away", !.t[p].vr = 0]

\* set_task_cpu keeps a task's distance from min_vruntime when it comes.
set_task_cpu(s, p, lag) == [s EXCEPT !.t[p].vr = (s.minv + lag) % Wrap]

pull_task(p, lag, d, d2) ==
  /\ Bounded /\ Op /\ rq.t[p].st = "away"
  /\ LET s == set_task_cpu(update_rq_clock(rq, d, TRUE), p, lag) IN
     rq' = [check_preempt_curr(activate_task(s, p, FALSE), p, d2, TRUE) EXCEPT !.t[p].st = "R"]

ClassNext ==
  \/ \E d \in Deltas : Schedule(d) \/ Sleep(d) \/ scheduler_tick(d)
  \/ \E d, d2 \in Deltas : Yield(d, d2)
  \/ \E p \in Task, d, d2 \in Deltas : Fork(p, d, d2)
  \/ \E p \in Task, d, d2 \in Deltas, here \in BOOLEAN : Wake(p, d, d2, here)
  \/ \E p \in Task, n \in StaticPrios, d \in Deltas, here \in BOOLEAN : SetNice(p, n, d, here)
  \/ \E p \in Task, policy \in Policies, rp \in RtPriorities \cup {0},
        d, d2 \in Deltas, here \in BOOLEAN : SetScheduler(p, policy, rp, d, d2, here)
  \/ \E p \in Task : Leave(p)
  \/ \E p \in Task, lag \in Lags, d, d2 \in Deltas : pull_task(p, lag, d, d2)

ClassSpec == ClassInit /\ [][ClassNext]_classVars

(* ------------------------- Properties ---------------------------------- *)

Queued == {p \in Task : rq.t[p].onrq}
FairQueued == {p \in Queued : ~Rt(rq.t[p])}

RECURSIVE Weights(_)
Weights(S) == IF S = {} THEN 0 ELSE LET p == CHOOSE x \in S : TRUE IN rq.t[p].w + Weights(S \ {p})

\* The counters of the runqueue and of the fair class are those of the queued
\* tasks with the weights they have now: whatever sequence of nice and policy
\* changes, forks, sleeps and migrations inc_nr_running, inc_load and
\* account_entity_enqueue went through, of running, queued and sleeping tasks.
LoadExact ==
  /\ rq.nr = Cardinality(Queued) /\ rq.load = Weights(Queued)
  /\ rq.cnr = Cardinality(FairQueued) /\ rq.cload = Weights(FairQueued)

\* The tree holds the queued fair tasks except the running one, each once, in
\* the order of their keys even across the wrap of vruntime, and rb_leftmost is
\* its first node (__enqueue_entity, __dequeue_entity, set_next_entity).
TimelineExact ==
  /\ {rq.tl[i] : i \in DOMAIN rq.tl} = FairQueued \ {rq.cc}
  /\ Len(rq.tl) = Cardinality(FairQueued \ {rq.cc})
  /\ \A i, j \in DOMAIN rq.tl : i < j => entity_key(rq, rq.tl[i]) <= entity_key(rq, rq.tl[j])
  /\ rq.left = (IF rq.tl = <<>> THEN None ELSE Head(rq.tl))
  /\ rq.cc = (IF rq.curr \in FairQueued THEN rq.curr ELSE None)

\* Every queued real-time task is on the list of its priority, once, and the
\* bitmap pick_next_task_rt searches has the bits of the lists that are not empty.
RtQueuesExact ==
  \A n \in DOMAIN rq.queue :
    LET q == rq.queue[n] IN
    /\ {q[i] : i \in DOMAIN q} = {p \in Queued : Rt(rq.t[p]) /\ rq.t[p].prio = n}
    /\ Len(q) = Cardinality({q[i] : i \in DOMAIN q})
    /\ n \in rq.bitmap <=> q # <<>>

\* No real-time task waits behind a running one of lower priority, nor any task
\* behind the idle task, without a reschedule asked for: check_preempt_curr, the
\* end of sched_setscheduler and task_tick see to it.
PreemptionRequested ==
  \A p \in Queued :
    (rt_prio(rq.t[p].prio) \/ rq.curr = Idle) /\ rq.t[p].prio < PrioOf(rq, rq.curr) => rq.need

\* While a real-time task runs, its exec_start is the time it was last switched
\* to or accounted (pick_next_task_rt, set_curr_task_rt): it is charged for what
\* it ran and nothing else.
RtChargedForRunning ==
  rq.curr \in Task => (Rt(rq.t[rq.curr]) => rq.t[rq.curr].start >= rq.since)

\* "maintain cfs_rq->min_vruntime to be a monotonic increasing value"
\* (__update_curr): no step moves it back, across its wrap included.
MinVruntimeMonotone == SDelta(rq'.minv, rq.minv) >= 0

\* Whatever sched_clock() returns, the runqueue clock never goes back, an update
\* that would take it more than a tick past the last one takes it no further than
\* one unit at a time (a step reads the clock at most twice), and every tick is
\* at least TICK_NSEC after the one before (__update_rq_clock, scheduler_tick).
ClockSane ==
  LET top == rq.tick + TICK_NSEC IN
  /\ rq'.clock >= rq.clock
  /\ rq'.tick = rq.tick => rq'.clock <= (IF rq.clock > top THEN rq.clock ELSE top) + 2
  /\ rq'.tick # rq.tick => rq'.tick >= top

\* schedule() takes a running FIFO task that neither sleeps nor yields nor has
\* its own policy changed off the CPU only for one of strictly higher priority,
\* and leaves it first on its list (put_prev_task_rt does not requeue).
FifoHolds ==
  LET c == rq.curr IN
  (c \in Queued /\ rq'.curr # c /\ rq.t[c].pol = "FIFO" /\ (\E d \in Deltas : Schedule(d))
     /\ Head(rq.queue[rq.t[c].prio]) = c)
    => /\ rq'.t[rq'.curr].prio < rq.t[c].prio
       /\ Head(rq'.queue[rq.t[c].prio]) = c

\* Waking never moves a task back in virtual time ("ensure we never gain time by
\* being placed backwards") nor puts it more than one latency before min_vruntime.
NoTimeGained ==
  \A p \in Task : (rq.t[p].st = "S" /\ rq'.t[p].st = "R" /\ ~Rt(rq.t[p])) =>
    /\ SDelta(rq'.t[p].vr, rq.t[p].vr) >= 0
    /\ SDelta(rq'.t[p].vr, rq'.minv) >= -sysctl_sched_latency

=============================================================================
