------------------------------- MODULE MCSched -------------------------------
(***************************************************************************)
(* Two CPUs, two tasks, their migration threads where they belong.  A       *)
(* behaviour runs one part.                                                 *)
(*   balance   a real-time and a fair task that sleep; the balancing of     *)
(*             CPU 1 comes to ask for active balancing                      *)
(*   affinity  a task takes CPU 0 from the mask of another one, which       *)
(*             sleeps                                                       *)
(*   masks     a task moves another one from one CPU to the other and back  *)
(*   exec      a task calls sched_exec                                      *)
(***************************************************************************)
EXTENDS Sched, TLC

CONSTANTS Parts, t1, t2, m0, m1, i0, i1

VARIABLE part

TwoCpus == {0, 1}
AllThreads == {t1, t2, m0, m1, i0, i1}
TheMigrators == 0 :> m0 @@ 1 :> m1
TheIdlers == 0 :> i0 @@ 1 :> i1
Prios == t1 :> 0 @@ t2 :> 120 @@ m0 :> 99 @@ m1 :> 99 @@ i0 :> 140 @@ i1 :> 140
FairPrios == [Prios EXCEPT ![t1] = 120]
Home == 0 :> 0 @@ 1 :> 1

Affinity == INSTANCE Sched WITH prio <- FairPrios, Pushers <- {}, Masks <- {{1}}, Setters <- {t1}, Targets <- {t2}
ToAndFro == INSTANCE Sched WITH prio <- FairPrios, Pushers <- {}, Masks <- {{0}, {1}}, Setters <- {t1}, Targets <- {t2},
              Sleeps <- {}
Exec == INSTANCE Sched WITH prio <- FairPrios, Pushers <- {}, Execs <- {t1}, Sleeps <- {}

allVars == <<part, vars>>

On(p, A) == part = p /\ A /\ UNCHANGED part

MCInit == part \in Parts /\ Init
MCNext ==
  \/ On("balance", Next)
  \/ On("affinity", Affinity!Next)
  \/ On("masks", ToAndFro!Next)
  \/ On("exec", Exec!Next)

\* The fairness of FairSpec that the caller of sched_exec needs.
MCSpec ==
  /\ MCInit /\ [][MCNext]_allVars
  /\ \A c \in CPU : WF_allVars(On("exec", Exec!CpuProgress(c)))
  /\ WF_allVars(On("exec", Exec!WakeMoved(t1)))
  /\ SF_allVars(On("exec", Exec!Picked(t1))) /\ SF_allVars(On("exec", Exec!StepOf(t1)))

-----------------------------------------------------------------------------
\* What the scheduler's CPUs tell each other is not lost: a task whose mask has
\* left its CPU has a request that will move it, a request's migration thread is
\* about to run, its waiter about to be woken, a task that is moved does not
\* execute, a real-time thread that should run has asked for it, and
\* nr_uninterruptible counts the sleepers (set_cpus_allowed, migration_thread,
\* complete, check_preempt_curr, try_to_wake_up).
HandshakesSound ==
  /\ part = "balance" => UninterruptibleCount /\ PreemptionRequested /\ MigrationForcesOff /\ NoLostKick
  /\ part = "affinity" =>
       Affinity!StrandedIsRequested /\ Affinity!NoLostKick /\ Affinity!NoLostCompletion
  /\ part = "masks" =>
       ToAndFro!StrandedIsRequested /\ ToAndFro!NoLostKick /\ ToAndFro!NoLostCompletion
  /\ part = "exec" => Exec!MigrationForcesOff /\ Exec!NoLostCompletion

\* A thread that asks for its own migration in sched_exec gets it and comes
\* back: the migration thread always runs, finds the request and completes it.
ExecComesBack == part = "exec" => [](pc[t1] = "kick" => <>(pc[t1] = "run"))
=============================================================================
