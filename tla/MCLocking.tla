------------------------------ MODULE MCLocking ------------------------------
(***************************************************************************)
(* The kernel's locks and cross calls on small machines.  A behaviour runs  *)
(* one of them, the part; the state of the others stays initial.            *)
(*   mutex  three threads, one of which waits interruptibly                 *)
(*   spin   three CPUs: an owner, a pending CPU and a queue                 *)
(*   call   three CPUs: 0 calls the others, 1 calls CPU 2, waiting or not   *)
(*   cross  two CPUs that call each other at the same time                  *)
(***************************************************************************)
EXTENDS Mutex, QSpinlock, SmpCall

CONSTANTS Parts, t1, t2, t3, c1, c2, c3

VARIABLE part

Cross == INSTANCE SmpCall WITH NumCpus <- 2, Callers <- {0, 1}, Masks <- {{0, 1}}

vars == <<part, mutexVars, spinVars, callVars>>

Init ==
  /\ part \in Parts
  /\ MutexInit /\ SpinInit
  /\ IF part = "cross" THEN Cross!CallInit ELSE CallInit

OnMutex(A) == part = "mutex" /\ A /\ UNCHANGED <<part, spinVars, callVars>>
OnSpin(A) == part = "spin" /\ A /\ UNCHANGED <<part, mutexVars, callVars>>
OnCall(p, A) == part = p /\ A /\ UNCHANGED <<part, mutexVars, spinVars>>

Next ==
  \/ OnMutex(MutexNext)
  \/ OnSpin(SpinNext)
  \/ OnCall("call", CallNext)
  \/ OnCall("cross", Cross!CallNext)

\* The fairness of SpinFairSpec and CallFairSpec.
Spec ==
  /\ Init /\ [][Next]_vars
  /\ \A c \in CPU : WF_vars(OnSpin(Locking(c))) /\ WF_vars(OnSpin(SpinUnlock(c)))
  /\ \A c \in 0..1 :
       /\ SF_vars(OnCall("cross", Cross!Calling(c))) /\ WF_vars(OnCall("cross", Cross!Handling(c)))
       /\ SF_vars(OnCall("cross", Cross!Push(c) /\ first[Cross!Target(c)] = nxt[csd[c]]))

----------------------------------------------------------------------------
\* smp_call_function_many and smp_call_function_single hand over a function
\* once to each CPU, and with wait set return only when it has run: the entry
\* on the caller's stack is not used after the call returns.
CallsRunOnce == part = "call" => RanBeforeReturn /\ RunsOnce /\ StackAlive /\ InterruptComes

\* Nobody waits for ever: a CPU that wants the lock gets it, in turn, and two
\* CPUs that call each other and wait both return, each taking the other's
\* interrupt while it waits.
WaitsEnd == Acquires /\ (part = "cross" => Cross!Returns)
=============================================================================
