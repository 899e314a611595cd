----------------------------- MODULE LoadBalance -----------------------------
(* Scheduling domains: the groups of a domain are a ring of one group per     *)
(* CPU, built at boot by sched_init_smp and again by partition_sched_domains  *)
(* (kernel/core/sched/core.c), which nothing in the kernel calls.  The        *)
(* balancers of the other CPUs read rq->sd and walk the ring without a lock.  *)
EXTENDS Naturals, Sequences, FiniteSets, Integers

CONSTANTS NCpus,          \* CPUs of the machine
          Late,           \* CPUs that come online after the domains were built
          Repartition,    \* whether partition_sched_domains is called
          Walkers         \* CPUs whose balancer runs

Cpus == 0 .. NCpus - 1
NoCpu == NCpus

ASSUME CpusAssumption == NCpus \in Nat \ {0} /\ Late \subseteq Cpus \ {0}

VARIABLES online,     \* cpu_online_mask
          fallback,   \* fallback_doms
          doms,       \* doms_cur: [ptr, masks]; ptr tells &fallback_doms
          span,       \* phys_domains[].span
          grp,        \* sched_group_phys[]: [cpumask, power, next]
          attached,   \* rq->sd # NULL
          builder,         \* the builder: [pc, detach, build, left, last]
          walk        \* the balancers: [start, at, over]; over: their domain
                      \* was detached since they read rq->sd

domVars == <<online, fallback, doms, span, grp, attached, builder, walk>>

Quiet == [pc |-> "quiet", detach |-> {}, build |-> <<>>, left |-> {}, last |-> NoCpu]
NoWalk == [start |-> NoCpu, at |-> NoCpu, over |-> FALSE]
First(S) == CHOOSE c \in S : \A d \in S : c <= d
Masks(seq) == {seq[i] : i \in DOMAIN seq}
CurrentMasks == IF doms.ptr = "fallback" THEN <<fallback>> ELSE doms.masks

DomInit ==
    /\ online = Cpus \ Late
    /\ fallback = {}
    /\ doms = [ptr |-> "none", masks |-> <<>>]
    /\ span = [c \in Cpus |-> {}]
    /\ grp = [c \in Cpus |-> [cpumask |-> {}, power |-> 0, next |-> NoCpu]]
    /\ attached = [c \in Cpus |-> FALSE]
    /\ builder = Quiet
    /\ walk = [c \in Cpus |-> NoWalk]

(* The secondary reports in after the boot CPU stopped waiting for it. *)
Online(c) ==
    /\ c \in Late \ online
    /\ online' = online \cup {c}
    /\ UNCHANGED <<fallback, doms, span, grp, attached, builder, walk>>

(* Every mask that is only in the old array is detached, every mask that is  *)
(* only in the new one is built.                                              *)
Plan(old, new) ==
    [Quiet EXCEPT !.pc = "detach",
                  !.detach = UNION (Masks(old) \ Masks(new)),
                  !.build = SelectSeq(new, LAMBDA m : m \notin Masks(old))]

arch_init_sched_domains ==
    /\ doms.ptr = "none" /\ builder.pc = "quiet"
    /\ fallback' = online
    /\ doms' = [ptr |-> "fallback", masks |-> <<>>]
    /\ builder' = Plan(<<>>, <<online>>)
    /\ UNCHANGED <<online, span, grp, attached, walk>>

partition_sched_domains(masks) ==
    /\ Repartition /\ builder.pc = "quiet" /\ doms.ptr # "none"
    /\ doms' = [ptr |-> "array", masks |-> masks]
    /\ builder' = Plan(CurrentMasks, masks)
    /\ UNCHANGED <<online, fallback, span, grp, attached, walk>>

(* doms_new == NULL: fallback_doms is overwritten before it is compared, and  *)
(* it may be the current array.                                               *)
PartitionFallback ==
    /\ Repartition /\ builder.pc = "quiet" /\ doms.ptr # "none"
    /\ fallback' = online
    /\ doms' = [ptr |-> "fallback", masks |-> <<>>]
    /\ builder' = Plan(IF doms.ptr = "fallback" THEN <<online>> ELSE doms.masks, <<online>>)
    /\ UNCHANGED <<online, span, grp, attached, walk>>

(* cpu_attach_domain(NULL, i).  Nobody waits for a balancer under way. *)
detach_destroy_domains ==
    /\ builder.pc = "detach" /\ builder.detach # {}
    /\ LET c == First(builder.detach)
       IN  /\ attached' = [attached EXCEPT ![c] = FALSE]
           /\ builder' = [builder EXCEPT !.detach = @ \ {c}]
           /\ walk' = [walk EXCEPT ![c].over = walk[c] # NoWalk]
    /\ UNCHANGED <<online, fallback, doms, span, grp>>

NextMask ==
    /\ builder.pc = "detach" /\ builder.detach = {}
    /\ builder' = IF builder.build = <<>> THEN Quiet
             ELSE [builder EXCEPT !.pc = "setup", !.left = Head(builder.build)]
    /\ UNCHANGED <<online, fallback, doms, span, grp, attached, walk>>

SetupAttached ==
    /\ builder.pc = "setup"
    /\ LET c == First(builder.left)
           rest == builder.left \ {c}
       IN  /\ span' = [span EXCEPT ![c] = online \cap Head(builder.build)]
           /\ attached' = [attached EXCEPT ![c] = TRUE]
           /\ builder' = [builder EXCEPT !.pc = IF rest = {} THEN "groups" ELSE "setup",
                               !.left = IF rest = {} THEN online \cap Head(builder.build) ELSE rest]
    /\ UNCHANGED <<online, fallback, doms, grp, walk>>

(* One iteration of the first loop; the domain starts at the CPU's own group. *)
SetupDomain ==
    /\ builder.pc = "setup"
    /\ LET c == First(builder.left)
           rest == builder.left \ {c}
       IN  /\ span' = [span EXCEPT ![c] = online \cap Head(builder.build)]
           /\ builder' = [builder EXCEPT !.pc = IF rest = {} THEN "groups" ELSE "setup",
                               !.left = IF rest = {} THEN online \cap Head(builder.build) ELSE rest]
    /\ UNCHANGED <<online, fallback, doms, grp, attached, walk>>

cpu_to_phys_group(c) == c

Covered(g) == {d \in online \cap Head(builder.build) : cpu_to_phys_group(d) = g}

init_sched_build_groups ==
    /\ builder.pc = "groups" /\ builder.left # {}
    /\ LET g == cpu_to_phys_group(First(builder.left))
           emptied == [grp EXCEPT ![g] = [cpumask |-> Covered(g), power |-> 0, next |-> @.next]]
       IN  /\ grp' = IF builder.last = NoCpu THEN emptied ELSE [emptied EXCEPT ![builder.last].next = g]
           /\ builder' = [builder EXCEPT !.left = @ \ Covered(g), !.last = g]
    /\ UNCHANGED <<online, fallback, doms, span, attached, walk>>

CloseRing ==
    /\ builder.pc = "groups" /\ builder.left = {}
    /\ grp' = [grp EXCEPT ![builder.last].next = cpu_to_phys_group(First(online \cap Head(builder.build)))]
    /\ builder' = [builder EXCEPT !.pc = "power", !.left = Head(builder.build), !.last = NoCpu]
    /\ UNCHANGED <<online, fallback, doms, span, attached, walk>>

(* Without a child domain a group has the power of one CPU. *)
init_sched_groups_power ==
    /\ builder.pc = "power"
    /\ LET c == First(builder.left)
           rest == builder.left \ {c}
           g == cpu_to_phys_group(c)
       IN  /\ grp' = IF grp[g].cpumask # {} /\ c = First(grp[g].cpumask)
                     THEN [grp EXCEPT ![g].power = 1]
                     ELSE grp
           /\ builder' = [builder EXCEPT !.pc = IF rest = {} THEN "attach" ELSE "power",
                               !.left = IF rest = {} THEN Head(builder.build) ELSE rest]
    /\ UNCHANGED <<online, fallback, doms, span, attached, walk>>

(* The flags of SD_CPU_INIT include SD_WAKE_AFFINE, which needs no groups: a  *)
(* domain of several CPUs always contributes.                                 *)
sd_degenerate(c) == Cardinality(span[c]) = 1

cpu_attach_domain ==
    /\ builder.pc = "attach"
    /\ LET c == First(builder.left)
           rest == builder.left \ {c}
       IN  /\ attached' = [attached EXCEPT ![c] = ~ sd_degenerate(c)]
           /\ builder' = IF rest = {}
                    THEN [builder EXCEPT !.pc = "detach", !.build = Tail(@), !.left = {}]
                    ELSE [builder EXCEPT !.left = rest]
    /\ UNCHANGED <<online, fallback, doms, span, grp, walk>>

(* A balancer reads rq->sd, begins at sd->groups and stops when it is back.   *)
BeginWalk(c) ==
    /\ c \in Walkers \cap online /\ walk[c] = NoWalk /\ attached[c]
    /\ walk' = [walk EXCEPT ![c] = [start |-> c, at |-> c, over |-> FALSE]]
    /\ UNCHANGED <<online, fallback, doms, span, grp, attached, builder>>

NextGroup(c) ==
    /\ walk[c].at # NoCpu
    /\ LET g == grp[walk[c].at].next
       IN  walk' = [walk EXCEPT ![c] = IF g = @.start THEN NoWalk ELSE [@ EXCEPT !.at = g]]
    /\ UNCHANGED <<online, fallback, doms, span, grp, attached, builder>>

BuildDomains ==
    \/ detach_destroy_domains
    \/ NextMask
    \/ SetupDomain
    \/ init_sched_build_groups
    \/ CloseRing
    \/ init_sched_groups_power
    \/ cpu_attach_domain

(* The caller's masks are disjoint and name CPUs that are online. *)
Arrays == {<<>>} \cup {<<m>> : m \in SUBSET online \ {{}}}
          \cup {<<m, n>> : m, n \in SUBSET online \ {{}}}
Disjoint(a) == \A i, j \in DOMAIN a : i # j => a[i] \cap a[j] = {}

DomNext ==
    \/ arch_init_sched_domains
    \/ BuildDomains
    \/ PartitionFallback
    \/ \E a \in {x \in Arrays : Disjoint(x)} : partition_sched_domains(a)
    \/ \E c \in Cpus : Online(c) \/ BeginWalk(c) \/ NextGroup(c)

DomSpec == DomInit /\ [][DomNext]_domVars
-----------------------------------------------------------------------------
Settled == builder.pc = "quiet"

(* The groups met from g on, at most one per CPU. *)
Reached(g) ==
    LET step[n \in 0 .. NCpus] ==
            IF n = 0 THEN {g}
            ELSE step[n - 1] \cup {grp[h].next : h \in step[n - 1] \cap Cpus}
    IN  step[NCpus]

(* The ring a CPU's balancer walks has exactly the groups of its domain: they *)
(* cover the span, each CPU once, lead back to the CPU's own group, and have  *)
(* a power to divide by, however often the domains were rebuilt from the same *)
(* static groups (init_sched_build_groups, init_sched_groups_power).          *)
RingCovers ==
    Settled =>
        \A c \in Cpus : attached[c] =>
            /\ c \in span[c]
            /\ Reached(c) = span[c]
            /\ \A g \in Reached(c) : g \in grp[g].cpumask /\ grp[g].power = 1
            /\ \A g, h \in Reached(c) : g # h => grp[g].cpumask \cap grp[h].cpumask = {}
            /\ \E g \in Reached(c) : grp[g].next = c

(* "CPUs not in any of the cpumasks will not be load balanced", and a domain  *)
(* never spans CPUs of two masks (partition_sched_domains).                   *)
DomainsFollowMasks ==
    Settled =>
        \A c \in Cpus : attached[c] =>
            \E m \in Masks(CurrentMasks) : c \in m /\ span[c] \subseteq m

(* A balancer only meets groups of its domain that are finished, with CPUs in *)
(* them and a power, although the boot CPU builds the ring while the others   *)
(* already take ticks (cpu_attach_domain publishes rq->sd last), and although *)
(* other domains are rebuilt.  Nothing is said of a balancer whose own domain *)
(* is detached while it walks: its groups may be relinked under it            *)
(* (detach_destroy_domains does not wait).                                    *)
WalkSeesBuilt ==
    \A c \in Cpus : walk[c] # NoWalk /\ ~walk[c].over =>
        /\ walk[c].at \in span[c]
        /\ grp[walk[c].at].cpumask # {} /\ grp[walk[c].at].power # 0

-----------------------------------------------------------------------------
(* Where fork and exec place a task: the decaying load averages of the run   *)
(* queues (update_cpu_load) and sched_balance_self, which compares them over *)
(* the groups of the domain (kernel/core/sched/core.c).                      *)

CONSTANTS Span,       \* the CPUs of the domain
          PlaceWeights,    \* weights a run queue can have
          Chooses     \* whether tasks are placed

LoadIdx == 0 .. 4                 \* CPU_LOAD_IDX_MAX
imbalance == 112                  \* 100 + (imbalance_pct - 100) / 2

ASSUME SpanAssumption == Span \subseteq Cpus

VARIABLES weight,     \* rq->load.weight
          cpu_load,   \* rq->cpu_load[]
          placed      \* the last placement: [from, to, allowed]

placeVars == <<weight, cpu_load, placed>>

NotPlaced == [from |-> -1, to |-> -1, allowed |-> {}]

PlaceInit ==
    /\ weight = [c \in Cpus |-> 0]
    /\ cpu_load = [c \in Cpus |-> [i \in LoadIdx |-> 0]]
    /\ placed = NotPlaced

(* Tasks arrive at or leave the run queue. *)
SetWeight(c, w) ==
    /\ weight[c] # w
    /\ weight' = [weight EXCEPT ![c] = w]
    /\ placed' = NotPlaced
    /\ UNCHANGED cpu_load

(* The division rounds up while the load increases. *)
Average(old, new, i) ==
    LET up == IF new > old THEN 2^i - 1 ELSE 0
    IN  (old * (2^i - 1) + new + up) \div 2^i

update_cpu_load(c) ==
    /\ cpu_load' = [cpu_load EXCEPT ![c] = [i \in LoadIdx |-> Average(@[i], weight[c], i)]]
    /\ placed' = NotPlaced
    /\ UNCHANGED weight

Larger(a, b) == IF a > b THEN a ELSE b
Smaller(a, b) == IF a < b THEN a ELSE b

SourceHigh(c, type) ==
    IF type = 0 THEN weight[c] ELSE Larger(cpu_load[c][type - 1], weight[c])

(* A low guess for the CPU the task leaves, a high one for its target. *)
source_load(c, type) ==
    IF type = 0 THEN weight[c] ELSE Smaller(cpu_load[c][type - 1], weight[c])

target_load(c, type) ==
    IF type = 0 THEN weight[c] ELSE Larger(cpu_load[c][type - 1], weight[c])

(* avg_load * SCHED_LOAD_SCALE is passed as a u32 and divided by the group's  *)
(* power, SCHED_LOAD_SCALE: 22 bits of the load are left.                     *)
sg_div_cpu_power(load) == load % 2^22

(* Groups without an allowed CPU are skipped. *)
RemoteGroups(cpu, allowed) == {g \in Span \ {cpu} : g \in allowed}

(* The ring begins with the CPU's own group; the first of the lightest wins.  *)
RingOrder(cpu, g) == (g - cpu + NCpus) % NCpus

find_idlest_group(cpu, allowed) ==
    LET this_load == IF cpu \in allowed THEN sg_div_cpu_power(source_load(cpu, 1)) ELSE 0
        load(g) == sg_div_cpu_power(target_load(g, 1))
        remote == RemoteGroups(cpu, allowed)
        idlest == {g \in remote : \A h \in remote :
                      \/ load(g) < load(h)
                      \/ load(g) = load(h) /\ RingOrder(cpu, g) <= RingOrder(cpu, h)}
    IN  {g \in idlest : 100 * this_load >= imbalance * load(g)}

(* The allowed CPUs of a group; a group has one CPU. *)
find_idlest_cpu(groups, allowed) == groups \cap allowed

(* A CPU without a domain keeps the task.  There is one level of domains, so  *)
(* the search ends with the first CPU it finds.                               *)
sched_balance_self(cpu, allowed) ==
    LET found == find_idlest_cpu(find_idlest_group(cpu, allowed), allowed)
    IN  IF cpu \notin Span \/ found = {} THEN cpu ELSE CHOOSE c \in found : TRUE

Place(cpu, allowed) ==
    /\ Chooses /\ placed = NotPlaced
    /\ placed' = [from |-> cpu, to |-> sched_balance_self(cpu, allowed), allowed |-> allowed]
    /\ UNCHANGED <<weight, cpu_load>>

PlaceNext ==
    \E c \in Cpus :
        \/ \E w \in PlaceWeights : SetWeight(c, w)
        \/ update_cpu_load(c)
        \/ \E A \in SUBSET Cpus \ {{}} : Place(c, A)

PlaceSpec == PlaceInit /\ [][PlaceNext]_placeVars
-----------------------------------------------------------------------------
StepsTowards(old, new, target) ==
    \/ old = target /\ new = target
    \/ old < target /\ old < new /\ new <= target
    \/ old > target /\ old > new /\ new >= target

(* Each tick that moves any average brings all of them strictly nearer to the *)
(* load and none past it, so no average is "stuck on 9 if the load is 10",    *)
(* whichever way and however far the load moved (update_cpu_load).            *)
AveragesConverge ==
    \A c \in Cpus : cpu_load'[c] # cpu_load[c] =>
        \A i \in LoadIdx : StepsTowards(cpu_load[c][i], cpu_load'[c][i], weight[c])

(* A task is only moved to a CPU that is lighter by the watermark at that     *)
(* moment, although the averages compared may be stale: the guesses of        *)
(* source_load and target_load err on the side of staying.                    *)
MovesToLighter ==
    placed # NotPlaced /\ placed.to # placed.from =>
        imbalance * weight[placed.to] <= 100 * weight[placed.from]

-----------------------------------------------------------------------------
(* Pulling tasks from the busiest run queue: balance_tasks and               *)
(* iter_move_one_task drive the iterators of the real-time and the fair      *)
(* class, which step past a task before it may be dequeued                   *)
(* (kernel/core/sched/core.c, rt.c, fair.c).                                 *)

CONSTANTS NTasks,      \* runnable tasks of the busiest queue
          NrMigrate,   \* sysctl_sched_nr_migrate
          Amounts,     \* loads to move
          BestPrios    \* priorities of the task that runs on this_cpu

Tasks == 1 .. NTasks
NoTask == 0
Fuzz == 1              \* SCHED_LOAD_SCALE_FUZZ, one nice-0 weight
RtPrios == {1, 2}
FairPrios == {3, 4}    \* a nice -20 and a nice 0 task

WeightOf(prio) == IF prio = 4 THEN 1 ELSE 6

VARIABLES task,    \* [prio, allowed, hot] of each task
          curr,    \* busiest->curr
          rtq,     \* rt.active.queue[prio]
          fairq,   \* the tree of the fair class, leftmost first
          iter,    \* rt_load_balance_idx and _curr, rb_load_balance_curr
          pull       \* the call in progress

pullVars == <<task, curr, rtq, fairq, iter, pull>>

TaskSpace == [prio : RtPrios, allowed : BOOLEAN, hot : {FALSE}]
             \cup [prio : FairPrios, allowed : BOOLEAN, hot : BOOLEAN]

ListOf(S) == SelectSeq([i \in 1 .. NTasks |-> i], LAMBDA t : t \in S)

(* The running task stays in its real-time list but leaves the fair tree. *)
PullInit ==
    /\ task \in [Tasks -> TaskSpace]
    /\ curr \in {NoTask} \cup Tasks
    /\ rtq = [q \in RtPrios |-> ListOf({t \in Tasks : task[t].prio = q})]
    /\ fairq = ListOf({t \in Tasks : task[t].prio \in FairPrios /\ t # curr})
    /\ iter = [idx |-> 0, curr |-> NoTask]
    /\ pull \in [call : {"move_tasks", "move_one_task"}, class : {"rt"}, pc : {"start"},
               p : {NoTask}, max : Amounts, total : {0}, rem : {0}, loops : {0},
               best : BestPrios, pinned : {FALSE}, all_pinned : {FALSE},
               pulled : {<<>>}, cut : {FALSE}]

(* The neighbours of a task of the queue, NoTask at either end. *)
At(q, i) == IF i \in DOMAIN q THEN q[i] ELSE NoTask
Before(q, t) == At(q, (CHOOSE n \in 1 .. NTasks : At(q, n) = t \/ n > Len(q)) - 1)
After(q, t) == At(q, (CHOOSE n \in 1 .. NTasks + 1 : At(q, n) = t \/ n > Len(q)) + 1)

(* The first queue after idx that holds a task, as find_next_bit finds it. *)
NextQueue(idx) == {q \in RtPrios : q > idx /\ rtq[q] # <<>>
                                   /\ \A r \in RtPrios : r > idx /\ rtq[r] # <<>> => q <= r}

(* An iterator's answer: the task, and where it stands afterwards. *)
FromTail(q) ==
    LET p == rtq[q][Len(rtq[q])]
    IN  [p |-> p, iter |-> [idx |-> q, curr |-> Before(rtq[q], p)]]
Exhausted == [p |-> NoTask, iter |-> iter]

load_balance_start_rt ==
    IF NextQueue(0) = {} THEN Exhausted ELSE FromTail(CHOOSE q \in NextQueue(0) : TRUE)

load_balance_next_rt ==
    CASE iter.curr # NoTask ->
            [p |-> iter.curr, iter |-> [iter EXCEPT !.curr = Before(rtq[iter.idx], @)]]
      [] iter.curr = NoTask /\ NextQueue(iter.idx) # {} ->
            FromTail(CHOOSE q \in NextQueue(iter.idx) : TRUE)
      [] OTHER -> Exhausted

__load_balance_iterator(t) ==
    IF t = NoTask THEN Exhausted
    ELSE [p |-> t, iter |-> [idx |-> 0, curr |-> After(fairq, t)]]

load_balance_start_fair ==
    __load_balance_iterator(IF fairq = <<>> THEN NoTask ELSE Head(fairq))
load_balance_next_fair == __load_balance_iterator(iter.curr)

Start == IF pull.class = "rt" THEN load_balance_start_rt ELSE load_balance_start_fair
Step == IF pull.class = "rt" THEN load_balance_next_rt ELSE load_balance_next_fair

(* Aggressive migration after failed attempts is the instance without hot     *)
(* tasks.                                                                     *)
Migratable(t) == task[t].allowed /\ t # curr /\ ~ task[t].hot

StartIterator ==
    /\ pull.pc = "start"
    /\ IF pull.call = "move_tasks" /\ pull.max = pull.total
       THEN /\ pull' = [pull EXCEPT !.pc = "out", !.pinned = FALSE]
            /\ UNCHANGED iter
       ELSE /\ iter' = Start.iter
            /\ pull' = [pull EXCEPT !.pc = "next", !.p = Start.p, !.loops = 0,
                                !.rem = pull.max - pull.total, !.pinned = TRUE]
    /\ UNCHANGED <<task, curr, rtq, fairq>>

(* No task is left, or enough were looked at. *)
StopIterator ==
    /\ pull.pc = "next"
    /\ pull.p = NoTask \/ (pull.call = "move_tasks" /\ pull.loops > NrMigrate)
    /\ pull' = [pull EXCEPT !.pc = "out", !.cut = @ \/ pull.p # NoTask]
    /\ UNCHANGED <<task, curr, rtq, fairq, iter>>

Looking == pull.pc = "next" /\ pull.p # NoTask
           /\ (pull.call = "move_tasks" => pull.loops <= NrMigrate)

skip_for_load(t) == WeightOf(task[t].prio) \div 2 > pull.rem + Fuzz

(* can_migrate_task clears pinned for every task it finds allowed. *)
SkipTask ==
    LET heavy == pull.call = "move_tasks" /\ skip_for_load(pull.p) /\ task[pull.p].prio >= pull.best
    IN  /\ Looking
        /\ heavy \/ ~ Migratable(pull.p)
        /\ iter' = Step.iter
        /\ pull' = [pull EXCEPT !.p = Step.p,
                            !.loops = IF pull.call = "move_tasks" THEN @ + 1 ELSE @,
                            !.pinned = @ /\ (heavy \/ ~ task[pull.p].allowed)]
        /\ UNCHANGED <<task, curr, rtq, fairq>>

Without(q, t) == SelectSeq(q, LAMBDA x : x # t)

Dequeue(t) ==
    /\ rtq' = [q \in RtPrios |-> Without(rtq[q], t)]
    /\ fairq' = Without(fairq, t)

(* The iteration goes on from the place noted before the task was dequeued.   *)
PullTask ==
    LET left == pull.rem - WeightOf(task[pull.p].prio)
    IN  /\ Looking /\ pull.call = "move_tasks"
        /\ ~ (skip_for_load(pull.p) /\ task[pull.p].prio >= pull.best) /\ Migratable(pull.p)
        /\ Dequeue(pull.p)
        /\ IF left > 0
           THEN /\ iter' = Step.iter
                /\ pull' = [pull EXCEPT !.pulled = Append(@, pull.p), !.rem = left, !.pinned = FALSE,
                                    !.loops = @ + 1, !.p = Step.p,
                                    !.best = IF task[pull.p].prio < @ THEN task[pull.p].prio ELSE @]
           ELSE /\ UNCHANGED iter
                /\ pull' = [pull EXCEPT !.pulled = Append(@, pull.p), !.rem = left, !.pinned = FALSE,
                                    !.loops = @ + 1, !.pc = "out"]
        /\ UNCHANGED <<task, curr>>

iter_move_one_task ==
    /\ Looking /\ pull.call = "move_one_task" /\ Migratable(pull.p)
    /\ Dequeue(pull.p)
    /\ pull' = [pull EXCEPT !.pulled = Append(@, pull.p), !.pc = "done"]
    /\ UNCHANGED <<task, curr, iter>>

(* balance_tasks returns; move_tasks goes on with the next class while some   *)
(* of the amount is left.  The idle class, the last, has nothing to give.     *)
move_tasks ==
    LET moved == pull.total + (IF pull.max = pull.total THEN 0 ELSE pull.max - pull.total - pull.rem)
    IN  /\ pull.pc = "out" /\ pull.call = "move_tasks"
        /\ pull' = [pull EXCEPT !.all_pinned = pull.pinned, !.total = moved,
                            !.pc = IF pull.class = "rt" /\ pull.max > moved THEN "start" ELSE "done",
                            !.class = "fair"]
        /\ UNCHANGED <<task, curr, rtq, fairq, iter>>

move_one_task ==
    /\ pull.pc = "out" /\ pull.call = "move_one_task"
    /\ pull' = [pull EXCEPT !.pc = IF pull.class = "rt" THEN "start" ELSE "done", !.class = "fair"]
    /\ UNCHANGED <<task, curr, rtq, fairq, iter>>

PullNext ==
    \/ StartIterator
    \/ StopIterator
    \/ SkipTask
    \/ PullTask
    \/ iter_move_one_task
    \/ move_tasks
    \/ move_one_task

PullSpec == PullInit /\ [][PullNext]_pullVars
-----------------------------------------------------------------------------
Done == pull.pc = "done"
Pulled == {pull.pulled[i] : i \in DOMAIN pull.pulled}
PulledLoad(n) ==
    LET sum[i \in 0 .. n] == IF i = 0 THEN 0 ELSE sum[i - 1] + WeightOf(task[pull.pulled[i]].prio)
    IN  sum[n]

(* move_one_task fails only if no task of any class or priority could be      *)
(* migrated: the iterators miss none, although the real-time one goes from    *)
(* list to list backwards (load_balance_next_rt).                             *)
MoveOneFinds ==
    Done /\ pull.call = "move_one_task" /\ pull.pulled = <<>> =>
        \A t \in Tasks : ~ Migratable(t)

(* After a pass of move_tasks that fell short and was not cut off by the      *)
(* limit of iterations, every task left behind is immovable, or too heavy for *)
(* what is still to be moved and not more urgent than what this_cpu has.      *)
FallsShortRightly ==
    Done /\ pull.call = "move_tasks" /\ pull.total < pull.max /\ ~ pull.cut =>
        \A t \in Tasks \ Pulled : Migratable(t) =>
            /\ WeightOf(task[t].prio) \div 2 > pull.max - pull.total + Fuzz
            /\ task[t].prio >= pull.best

(* "We only want to steal up to the prescribed amount of weighted load":      *)
(* no task is pulled once the amount is reached, across the classes, and      *)
(* what the caller is told is what was moved (balance_tasks, move_tasks).     *)
StopsAtAmount ==
    /\ pull.pulled # <<>> /\ pull.call = "move_tasks" => PulledLoad(Len(pull.pulled) - 1) < pull.max
    /\ Done /\ pull.call = "move_tasks" => pull.total = PulledLoad(Len(pull.pulled))

=============================================================================
