---------------------------- MODULE MCSchedPolicy ----------------------------
(***************************************************************************)
(* The decisions of the scheduler, and the clocks it goes by.  A behaviour  *)
(* runs one part; the state of the others stays initial.                    *)
(*   class     three tasks on one runqueue, with nice and policy changes    *)
(*   clock     two tasks under a sched_clock() that jumps and goes back     *)
(*   boot      the domains built while the balancers of all CPUs run        *)
(*   rebuild   the domains partitioned again and again                      *)
(*   place     three CPUs between which sched_balance_self chooses          *)
(*   averages  the averages of one run queue over a wide range of loads     *)
(*   pull      every queue of three tasks of two real-time and two fair     *)
(*             priorities, any of which may be pinned, hot or running       *)
(*   time      a reader of the time among ticks and settings of the time    *)
(*   latch     a reader of sched_clock() among updates of its epoch         *)
(*   source    three clocksources, one unfit for oneshot mode               *)
(* Of the nice levels each has twice the weight of the next; virtual times  *)
(* have six bits and start just below the wrap.                             *)
(***************************************************************************)
EXTENDS SchedClass, LoadBalance, Timekeeping, TLC

CONSTANTS Parts, t1, t2, t3, u1, u2

VARIABLE part

TwoWeights == 3 :> 4 @@ 4 :> 2 @@ 5 :> 1
TwoLags == {-2, 1}
OddDeltas == {-1, 0, 5}

Clock == INSTANCE SchedClass WITH Task <- {u1, u2}, Targets <- {u1, u2}, Deltas <- OddDeltas,
           MaxClock <- 3, MaxOps <- 1, Policies <- {"FIFO"}, RtPriorities <- {1},
           Lags <- {1}
Rebuild == INSTANCE LoadBalance WITH Repartition <- TRUE, Walkers <- {1}
Averages == INSTANCE LoadBalance WITH NCpus <- 1, Late <- {}, Span <- {0}, Chooses <- FALSE,
              PlaceWeights <- {0, 9, 10}

clockVars == <<cycles, updates, tk, writer, asked, cd, latch, calls, sourceVars>>
vars == <<part, classVars, domVars, placeVars, pullVars, clockVars>>

NoPull ==
  task = <<>> /\ curr = NoTask /\ rtq = <<>> /\ fairq = <<>> /\ iter = <<>>
  /\ pull = [pc |-> "off"]

Init ==
  /\ part \in Parts
  /\ IF part = "clock" THEN Clock!ClassInit ELSE ClassInit
  /\ DomInit
  /\ IF part = "averages" THEN Averages!PlaceInit ELSE PlaceInit
  /\ IF part = "pull" THEN PullInit ELSE NoPull
  /\ SourcesInit
  /\ IF part = "time" THEN TkInit /\ cd = 0 /\ latch = 0 /\ calls = 0
     ELSE LatchInit /\ tk = 0 /\ writer = 0 /\ asked = 0

OnClass(p, A) == part = p /\ A /\ UNCHANGED <<part, domVars, placeVars, pullVars, clockVars>>
OnDomains(p, A) == part = p /\ A /\ UNCHANGED <<part, classVars, placeVars, pullVars, clockVars>>
OnPlace(p, A) == part = p /\ A /\ UNCHANGED <<part, classVars, domVars, pullVars, clockVars>>
OnTime(p, A, kept) == part = p /\ A /\ UNCHANGED <<part, classVars, domVars, placeVars, pullVars, kept>>

Next ==
  \/ OnClass("class", ClassNext)
  \/ OnClass("clock", Clock!ClassNext)
  \/ OnDomains("boot", DomNext)
  \/ OnDomains("rebuild", Rebuild!DomNext)
  \/ OnPlace("place", PlaceNext)
  \/ OnPlace("averages", Averages!PlaceNext)
  \/ part = "pull" /\ PullNext /\ UNCHANGED <<part, classVars, domVars, placeVars, clockVars>>
  \/ OnTime("time", TkNext, <<cd, latch, calls, sourceVars>>)
  \/ OnTime("latch", LatchNext, <<tk, writer, asked, sourceVars>>)
  \/ OnTime("source", SourcesNext, <<cycles, updates, tk, writer, asked, cd, latch, calls>>)

Spec == Init /\ [][Next]_vars

\* The tasks of either runqueue are interchangeable.
TaskSymmetry == Permutations({t1, t2, t3}) \cup Permutations({u1, u2})

----------------------------------------------------------------------------
\* Whatever sequence of forks, sleeps, wakeups, migrations, nice and policy
\* changes a runqueue goes through (activate_task, deactivate_task,
\* sched_setscheduler ...), its counters, the tree of the fair class and the
\* lists and the bitmap of the real-time class describe the same queued tasks,
\* a more urgent task that waits has a reschedule asked for, and a running
\* real-time task is charged for what it ran.
RunqueueExact ==
  part = "class" =>
    LoadExact /\ TimelineExact /\ RtQueuesExact /\ PreemptionRequested /\ RtChargedForRunning

\* A FIFO task is only preempted by a more urgent one and stays first in its
\* list (schedule, put_prev_task_rt).  Under a sched_clock() that jumps or goes
\* back, the runqueue clock and min_vruntime never do and a sleeper gains no more
\* than its latency (__update_rq_clock, __update_curr, place_entity).
TurnsAreFair ==
  [][/\ part = "class" => FifoHolds
     /\ part = "clock" => Clock!MinVruntimeMonotone /\ Clock!ClockSane /\ Clock!NoTimeGained]_vars

\* However often the domains are partitioned, a settled ring is the span of its
\* domain and no domain crosses a mask; and a balancer, during the boot and while
\* domains other than its own are rebuilt, meets only groups of its domain that
\* are built (partition_sched_domains, init_sched_build_groups,
\* cpu_attach_domain, find_busiest_group).
DomainsRight == RingCovers /\ DomainsFollowMasks /\ WalkSeesBuilt

\* A balancing pass pulls what it may and no more than it was asked for, and
\* misses no task it could have pulled (balance_tasks, iter_move_one_task), and
\* sched_balance_self only moves a task to a CPU with a lighter load
\* (find_idlest_group, find_idlest_cpu).  Every average they compare moves to
\* the load it follows and never past it (update_cpu_load).
BalancesRight ==
  /\ [](part = "pull" => MoveOneFinds /\ FallsShortRightly /\ StopsAtAmount)
  /\ [](part = "place" => MovesToLighter)
  /\ [][part = "averages" => Averages!AveragesConverge]_vars

\* Lockless readers of the time never see half an update: what ktime_get and
\* sched_clock return is the time of a moment of the call, in whatever order
\* their loads fall among the stores of a tick or of a new time of day.  The
\* offset to the time of day is exact.  The clocksource read is the best one
\* registered, and its factors are exact and cannot overflow.
ClocksSound ==
  /\ [](part = "time" => OffsetRight)
  /\ [](part = "source" => BestInUse /\ (cs.list = <<>> => FactorsRight))
  /\ [][part = "time" => TimeRead]_vars
  /\ [][part = "latch" => ClockRead]_vars
=============================================================================
