----------------------------- MODULE SchedProofs -----------------------------
(***************************************************************************)
(* The inductive invariant of Sched for any number of CPUs and threads,    *)
(* and its preservation by the operations the actions are built from:      *)
(* schedule, a wakeup, a pull, the move of a thread that is off the queues. *)
(***************************************************************************)
EXTENDS Sched, TLAPS

\* The boot-time placement has been corrected: every migration thread is home.
MigratorsHome == \A c \in CPU : MigCpu[c] = c

\* The current thread of a CPU is its idle thread, or a thread of that CPU.
CurrentInv ==
  \A c \in CPU : \/ curr[c] = idle[c]
                 \/ /\ curr[c] \notin Idlers /\ cpu[curr[c]] = c
                    /\ newidle[c] = NoCpu => curr[c] \in rq[c]

\* Idle threads never sleep and are never woken or queued.
IdleInv ==
  /\ \A c \in CPU : idle[c] \notin onrq /\ state[idle[c]] = "R" /\ pc[idle[c]] = "run"
  /\ waking \in SUBSET (Thread \ Idlers)

HomeInv == \A k \in CPU : cpu[migrator[k]] = k /\ allowed[migrator[k]] = {k}

\* Nobody balances with itself.
PeerInv == \A c \in CPU : newidle[c] # c /\ push[c] # c

\* Only tasks are inside a migration request, and they know its runqueue.
AskingInv ==
  /\ \A t \in Thread : pc[t] \in {"kick", "kicking", "wait", "block"} => t \in Task
  /\ \A t \in Task : pc[t] \in {"kick", "kicking"} => reqCpu[t] \in CPU

\* A migration thread between its queue and complete() holds a task's request.
HandlingInv ==
  \A k \in CPU : pc[migrator[k]] \in {"move", "complete", "completing"} => handling[k] \in Task

Place == QueuedWhereItSays /\ CurrentInv /\ HomeInv

IInv == TypeOK /\ Place /\ IdleInv /\ PeerInv /\ AskingInv

-----------------------------------------------------------------------------
\* A leaf goes to Zenon, and to the SMT solver where it says so.
USE Zenon

\* Tasks, migration threads and idle threads are three kinds of threads.
LEMMA Kinds ==
  /\ \A c \in CPU : /\ migrator[c] \in Thread /\ migrator[c] \notin Task
                    /\ migrator[c] \notin Idlers /\ migrator[c] # NoThread
                    /\ idle[c] \in Thread /\ idle[c] \in Idlers /\ idle[c] \notin Task
  /\ \A c, d \in CPU : (migrator[c] = migrator[d] => c = d) /\ (idle[c] = idle[d] => c = d)
  /\ Task \subseteq Thread /\ Idlers \subseteq Thread /\ NoThread \notin Task
  /\ \A t \in Task : t \notin Idlers /\ \A c \in CPU : t # migrator[c] /\ t # idle[c]
BY SchedAssumption, SMT DEF Task, Idlers, Migrators

\* The idle thread of a CPU is no task.
LEMMA IdleKind ==
  \A c \in CPU : /\ idle[c] \in Thread /\ idle[c] \in Idlers /\ idle[c] \notin Task
               /\ \A d \in CPU : idle[c] # migrator[d]
BY Kinds

\* The migration thread of a CPU is neither a task nor an idle thread.
LEMMA MigratorKind ==
  \A c \in CPU : migrator[c] \in Thread /\ migrator[c] \notin Task /\ migrator[c] \notin Idlers
BY Kinds

\* A task is a thread and not an idle one.
LEMMA TaskKind == \A t \in Task : t \in Thread /\ t \notin Idlers
BY Kinds

\* NoCpu is no CPU.
LEMMA NoCpuKind == NoCpu \notin CPU
BY SchedAssumption

\* What the proofs use of TypeOK about the runqueues.
LEMMA QueueTypes ==
  ASSUME IInv
  PROVE  /\ cpu \in [Thread -> CPU] /\ onrq \in SUBSET Thread /\ rq \in [CPU -> SUBSET Thread]
         /\ curr \in [CPU -> Thread] /\ newidle \in [CPU -> CPU \cup {NoCpu}]
         /\ resched \in SUBSET Thread /\ nrUnint \in Int
         /\ state \in [Thread -> {"R", "I", "U"}] /\ allowed \in [Thread -> SUBSET CPU]
BY DEF IInv, TypeOK

\* and about the migration protocol.
LEMMA RequestTypes ==
  ASSUME IInv
  PROVE  /\ pc \in [Thread -> TaskPCs \cup MigPCs] /\ done \in [Task -> Nat]
         /\ reqTask \in [Task -> Task \cup {NoThread}] /\ reqDest \in [Task -> CPU \cup {NoCpu}]
         /\ reqCpu \in [Task -> CPU \cup {NoCpu}] /\ waiting \in SUBSET Task
         /\ migq \in [CPU -> Seq(Task)] /\ handling \in [CPU -> Task \cup {NoThread}]
         /\ nudge \in [CPU -> CPU \cup {NoCpu}] /\ push \in [CPU -> CPU \cup {NoCpu}]
BY DEF IInv, TypeOK

\* The invariant holds when the model starts.
LEMMA InitIInv == MigratorsHome /\ Init => IInv
<1> SUFFICES ASSUME MigratorsHome, Init PROVE IInv
  OBVIOUS
<1>1. ASSUME NEW c \in CPU
      PROVE  /\ cpu[idle[c]] = c /\ cpu[migrator[c]] = c
             /\ allowed[migrator[c]] = {c}
  <2>1. (CHOOSE d \in CPU : idle[c] = idle[d]) = c
    BY Kinds
  <2>2. (CHOOSE d \in CPU : migrator[c] = migrator[d]) = c
    BY Kinds
  <2>3. ~ \E d \in CPU : migrator[c] = idle[d]
    BY SchedAssumption
  <2>4. (CHOOSE d \in CPU : migrator[c] \in {idle[d], migrator[d]}) = c
    BY Kinds, <2>3
  <2>5. idle[c] \in Thread /\ migrator[c] \in Thread
    BY Kinds
  <2> QED BY <2>1, <2>2, <2>3, <2>4, <2>5 DEF Init, MigratorsHome
<1>2. cpu \in [Thread -> CPU] /\ allowed \in [Thread -> SUBSET CPU]
  <2>1. MigCpu \in [CPU -> CPU] /\ Boot \in CPU
    BY SchedAssumption
  <2>2. cpu \in [Thread -> CPU]
    BY <2>1 DEF Init
  <2>3. allowed \in [Thread -> SUBSET CPU]
    BY DEF Init
  <2> QED BY <2>2, <2>3
<1>3. TypeOK
  <2>1. migq \in [CPU -> Seq(Task)]
    <3>1. migq = [c \in CPU |-> <<>>]
      BY DEF Init
    <3>2. <<>> \in Seq(Task)
      BY SMT
    <3> QED BY <3>1, <3>2
  <2>2. curr \in [CPU -> Thread] /\ resched \in SUBSET Thread
    <3>1. idle \in [CPU -> Thread] BY SchedAssumption
    <3>2. curr = idle /\ resched = {idle[c] : c \in {d \in CPU : rq[d] # {}}}
      BY DEF Init
    <3> QED BY <3>1, <3>2
  <2>3. onrq \in SUBSET Thread /\ rq \in [CPU -> SUBSET Thread]
    BY DEF Init
  <2>4. /\ newidle \in [CPU -> CPU \cup {NoCpu}] /\ nudge \in [CPU -> CPU \cup {NoCpu}]
        /\ push \in [CPU -> CPU \cup {NoCpu}] /\ handling \in [CPU -> Task \cup {NoThread}]
    <3>1. /\ newidle = [c \in CPU |-> NoCpu] /\ nudge = [c \in CPU |-> NoCpu]
          /\ push = [c \in CPU |-> NoCpu] /\ handling = [c \in CPU |-> NoThread]
      BY DEF Init
    <3> QED BY <3>1
  <2>6. /\ state \in [Thread -> {"R", "I", "U"}] /\ nrUnint \in Int
        /\ waking \in SUBSET Thread /\ waiting \in SUBSET Task
    <3>1. state = [t \in Thread |-> "R"] /\ nrUnint = 0 /\ waking = {} /\ waiting = {}
      BY DEF Init
    <3> QED BY <3>1, SMT
  <2>5. /\ reqTask \in [Task -> Task \cup {NoThread}] /\ reqDest \in [Task -> CPU \cup {NoCpu}]
        /\ reqCpu \in [Task -> CPU \cup {NoCpu}] /\ done \in [Task -> Nat]
        /\ pc \in [Thread -> TaskPCs \cup MigPCs]
    <3>1. /\ reqTask = [t \in Task |-> NoThread] /\ reqDest = [t \in Task |-> NoCpu]
          /\ reqCpu = [t \in Task |-> NoCpu] /\ done = [t \in Task |-> 0]
          /\ pc = [t \in Thread |-> IF t \in Migrators THEN "awake" ELSE "run"]
      BY DEF Init
    <3>2. "awake" \in TaskPCs \cup MigPCs /\ "run" \in TaskPCs \cup MigPCs
      BY DEF TaskPCs, MigPCs
    <3> QED BY <3>1, <3>2
  <2> QED BY <1>2, <2>1, <2>2, <2>3, <2>4, <2>5, <2>6 DEF TypeOK
<1>4. QueuedWhereItSays
  BY DEF Init, QueuedWhereItSays
<1>5. CurrentInv /\ HomeInv
  BY <1>1 DEF Init, CurrentInv, HomeInv
<1>6. IdleInv
  <2>1. /\ onrq = Thread \ Idlers /\ state = [t \in Thread |-> "R"] /\ waking = {}
        /\ pc = [t \in Thread |-> IF t \in Migrators THEN "awake" ELSE "run"]
    BY DEF Init
  <2>2. ASSUME NEW c \in CPU PROVE idle[c] \in Thread /\ idle[c] \in Idlers /\ idle[c] \notin Migrators
    BY IdleKind DEF Migrators
  <2>3. ASSUME NEW c \in CPU
        PROVE  idle[c] \notin onrq /\ state[idle[c]] = "R" /\ pc[idle[c]] = "run"
    BY <2>1, <2>2
  <2> QED BY <2>1, <2>3 DEF IdleInv
<1>7. PeerInv
  <2>1. NoCpu \notin CPU
    BY SchedAssumption
  <2> QED BY <2>1 DEF Init, PeerInv
<1>8. AskingInv
  <2>1. \A t \in Thread : pc[t] \in {"awake", "run"}
    BY DEF Init
  <2> QED BY <2>1, Kinds DEF AskingInv
<1> QED BY <1>3, <1>4, <1>5, <1>6, <1>7, <1>8 DEF IInv, Place

-----------------------------------------------------------------------------
\* A pull between two CPUs moves threads that are current nowhere, and never a
\* migration thread.
LEMMA PullFacts ==
  ASSUME IInv, NEW b \in CPU, NEW c \in CPU, b # c,
         NEW S \in SUBSET {t \in rq[b] : CanMigrate(t, b, c)}
  PROVE  /\ S \subseteq onrq /\ S \subseteq Thread
         /\ \A t \in S : cpu[t] = b /\ t \notin Idlers
         /\ \A t \in S, d \in CPU : curr[d] # t
         /\ \A t \in S, k \in CPU : t # migrator[k]
<1>1. \A t \in S : t \in Thread /\ t \in rq[b] /\ c \in allowed[t] /\ curr[b] # t
  BY DEF CanMigrate, IInv, TypeOK
<1>2. \A t \in S : t \in onrq /\ cpu[t] = b
  BY <1>1 DEF IInv, Place, QueuedWhereItSays
<1>3. \A t \in S : t \notin Idlers
  BY <1>2 DEF IInv, IdleInv, Idlers
<1>4. ASSUME NEW t \in S, NEW d \in CPU PROVE curr[d] # t
  BY <1>1, <1>2, <1>3, Kinds, SMT DEF IInv, Place, CurrentInv
<1>5. ASSUME NEW t \in S, NEW k \in CPU PROVE t # migrator[k]
  BY <1>1, <1>2, SMT DEF IInv, Place, HomeInv
<1> QED BY <1>1, <1>2, <1>3, <1>4, <1>5

\* A pull keeps the placement when nothing else changes.
LEMMA PullPlace ==
  ASSUME IInv, NEW b \in CPU, NEW c \in CPU, b # c,
         NEW S \in SUBSET {t \in rq[b] : CanMigrate(t, b, c)},
         PullTasks(S, b, c, rq), UNCHANGED <<allowed, onrq, curr, newidle>>
  PROVE  Place' /\ cpu' \in [Thread -> CPU] /\ rq' \in [CPU -> SUBSET Thread]
<1>0. /\ S \subseteq onrq /\ S \subseteq Thread
      /\ \A t \in S : cpu[t] = b
      /\ \A t \in S, d \in CPU : curr[d] # t
      /\ \A t \in S, k \in CPU : t # migrator[k]
  BY PullFacts
<1>1. rq' \in [CPU -> SUBSET Thread] /\ cpu' \in [Thread -> CPU]
  BY <1>0 DEF PullTasks, IInv, TypeOK
<1>2. ASSUME NEW d \in CPU
      PROVE  rq'[d] = CASE d = b -> rq[b] \ S [] d = c -> rq[c] \cup S [] OTHER -> rq[d]
  BY <1>0 DEF PullTasks, IInv, TypeOK
<1>3. \A t \in Thread : cpu'[t] = IF t \in S THEN c ELSE cpu[t]
  BY DEF PullTasks
<1>4. QueuedWhereItSays'
  BY <1>0, <1>2, <1>3, SMT DEF IInv, Place, QueuedWhereItSays
<1>5. CurrentInv'
  <2>1. ASSUME NEW d \in CPU
        PROVE  curr[d] \in Thread /\ curr[d] \notin S /\ cpu'[curr[d]] = cpu[curr[d]]
               /\ (curr[d] \in rq[d] => curr[d] \in rq'[d])
    <3>1. curr[d] \in Thread /\ curr[d] \notin S
      BY <1>0 DEF IInv, TypeOK
    <3> QED BY <1>2, <1>3, <3>1
  <2> QED BY <2>1 DEF IInv, Place, CurrentInv
<1>6. HomeInv'
  BY <1>0, <1>3, Kinds, SMT DEF IInv, Place, HomeInv
<1> QED BY <1>1, <1>4, <1>5, <1>6 DEF Place

\* A wakeup on the thread's own CPU keeps the placement.
LEMMA WakePlace ==
  ASSUME IInv, NEW p \in Thread, p \notin Idlers, WakeHere(p),
         UNCHANGED <<cpu, allowed, curr, newidle>>
  PROVE  /\ Place' /\ onrq' \in SUBSET Thread /\ rq' \in [CPU -> SUBSET Thread]
         /\ state' \in [Thread -> {"R", "I", "U"}] /\ nrUnint' \in Int
         /\ \A c \in CPU : idle[c] \notin onrq' /\ state'[idle[c]] = "R"
         /\ resched' \in SUBSET Thread
<1>1. cpu[p] \in CPU
  BY DEF IInv, TypeOK
<1>a. resched' \in SUBSET Thread
  BY <1>1, SMT DEF IInv, TypeOK, WakeHere, CheckPreempt
<1>b. nrUnint' \in Int
  BY SMT DEF IInv, TypeOK, WakeHere, Unint
<1>c. state' \in [Thread -> {"R", "I", "U"}]
  BY DEF IInv, TypeOK, WakeHere
<1>2. onrq' \in SUBSET Thread /\ rq' \in [CPU -> SUBSET Thread]
  <2>1. [rq EXCEPT ![cpu[p]] = @ \cup {p}] \in [CPU -> SUBSET Thread]
    BY <1>1 DEF IInv, TypeOK
  <2> QED BY <2>1 DEF IInv, TypeOK, WakeHere
<1>3. \A c \in CPU : idle[c] \notin onrq' /\ state'[idle[c]] = "R"
  <2>1. /\ state' = state \/ state' = [state EXCEPT ![p] = "R"]
        /\ onrq' = onrq \/ onrq' = onrq \cup {p}
    BY DEF WakeHere
  <2>2. state \in [Thread -> {"R", "I", "U"}]
    BY QueueTypes
  <2>3. \A c \in CPU : /\ idle[c] \in Thread /\ idle[c] # p
                       /\ idle[c] \notin onrq /\ state[idle[c]] = "R"
    BY IdleKind DEF IInv, IdleInv
  <2> QED BY <2>1, <2>2, <2>3, SMT
<1>4. Place'
  <2>1. CASE UNCHANGED <<onrq, rq>>
    BY <2>1 DEF IInv, Place, QueuedWhereItSays, CurrentInv, HomeInv
  <2>2. CASE onrq' = onrq \cup {p} /\ rq' = [rq EXCEPT ![cpu[p]] = @ \cup {p}]
    <3>1. \A d \in CPU : rq'[d] = IF d = cpu[p] THEN rq[d] \cup {p} ELSE rq[d]
      BY <1>1, <2>2, QueueTypes
    <3>2. QueuedWhereItSays'
      BY <2>2, <3>1, SMT DEF IInv, Place, QueuedWhereItSays
    <3>3. CurrentInv'
      BY <3>1 DEF IInv, Place, CurrentInv
    <3>4. HomeInv'
      BY DEF IInv, Place, HomeInv
    <3> QED BY <3>2, <3>3, <3>4 DEF Place
  <2> QED BY <2>1, <2>2 DEF WakeHere
<1> QED BY <1>2, <1>3, <1>4, <1>a, <1>b, <1>c

\* Changing p->cpu of a thread that is neither queued nor running, and is not a
\* migration thread, keeps the placement.
LEMMA MovePlace ==
  ASSUME IInv, NEW p \in Thread, NEW d \in CPU, p \notin onrq, ~Running(p),
         p \notin Idlers, \A k \in CPU : p # migrator[k],
         cpu' = [cpu EXCEPT ![p] = d], UNCHANGED <<onrq, rq, curr, newidle>>,
         \A k \in CPU : allowed'[migrator[k]] = allowed[migrator[k]]
  PROVE  Place' /\ cpu' \in [Thread -> CPU]
<1>1. cpu' \in [Thread -> CPU]
  BY DEF IInv, TypeOK
<1>2. ASSUME NEW c \in CPU PROVE curr[c] # p
  BY Kinds, SMT DEF Running, IInv, Place, CurrentInv, Idlers
<1>3. ASSUME NEW c \in CPU PROVE p \notin rq[c]
  BY DEF IInv, Place, QueuedWhereItSays
<1>4. QueuedWhereItSays'
  BY <1>3, SMT DEF IInv, TypeOK, Place, QueuedWhereItSays
<1>5. CurrentInv'
  BY <1>2 DEF IInv, TypeOK, Place, CurrentInv
<1>6. HomeInv'
  BY Kinds DEF IInv, TypeOK, Place, HomeInv
<1> QED BY <1>1, <1>4, <1>5, <1>6 DEF Place

\* A wakeup cannot move a migration thread: its mask is its own CPU.
LEMMA WakeToPlace ==
  ASSUME IInv, NEW p \in Thread, NEW c \in CPU, WakeTo(c, p), p \notin Idlers,
         UNCHANGED <<allowed, onrq, rq, curr, newidle>>
  PROVE  Place' /\ cpu' \in [Thread -> CPU]
<1>1. \A k \in CPU : p # migrator[k]
  BY SMT DEF WakeTo, IInv, Place, HomeInv
<1> QED BY <1>1, MovePlace DEF WakeTo

-----------------------------------------------------------------------------
\* pick_next_task returns a queued thread that no other one must preempt, or
\* the idle thread of an empty runqueue.
LEMMA PickFacts ==
  ASSUME NEW c \in CPU, NEW q \in SUBSET Thread, NEW n \in PickNext(c, q),
         \A d \in CPU : idle[d] \notin q
  PROVE  /\ n \in q \/ (q = {} /\ n = idle[c])
         /\ \A t \in q : ~MustPreempt(t, n)
<1>1. n \in q \/ (q = {} /\ n = idle[c])
  BY DEF PickNext
<1>2. ASSUME NEW t \in q, MustPreempt(t, n) PROVE FALSE
  <2>1. n \in q /\ n \notin Idlers
    BY <1>1 DEF Idlers
  <2>2. Rt(t) /\ prio[t] < prio[n]
    BY <1>2, <2>1 DEF MustPreempt
  <2>3. Rt(n) /\ prio[n] <= prio[t]
    BY <2>1, <2>2 DEF PickNext
  <2>4. prio[n] \in Nat /\ prio[t] \in Nat
    BY <2>1, SchedAssumption
  <2> QED BY <2>2, <2>3, <2>4, SMT
<1> QED BY <1>1, <1>2

\* schedule() keeps the placement, whether it takes prev off the queue or not,
\* pulls threads or drops its lock on the way.
LEMMA ReschedulePlace ==
  ASSUME IInv, NEW c \in CPU, newidle[c] = NoCpu,
         NEW out \in SUBSET {curr[c]}, \A t \in out : t \notin Idlers,
         Reschedule(c, out)
  PROVE  /\ Place' /\ cpu' \in [Thread -> CPU] /\ onrq' \in SUBSET Thread
         /\ rq' \in [CPU -> SUBSET Thread] /\ curr' \in [CPU -> Thread]
         /\ newidle' \in [CPU -> CPU \cup {NoCpu}] /\ resched' \in SUBSET Thread
         /\ nrUnint' \in Int /\ \A d \in CPU : newidle'[d] # d
         /\ \A d \in CPU : idle[d] \notin onrq'
<1> DEFINE prev == curr[c]
           q == [rq EXCEPT ![c] = @ \ out]
<1>1. /\ cpu \in [Thread -> CPU] /\ onrq \in SUBSET Thread /\ rq \in [CPU -> SUBSET Thread]
      /\ curr \in [CPU -> Thread] /\ newidle \in [CPU -> CPU \cup {NoCpu}]
      /\ resched \in SUBSET Thread /\ nrUnint \in Int /\ prev \in Thread
  BY DEF IInv, TypeOK
<1>2. q \in [CPU -> SUBSET Thread] /\ q[c] = rq[c] \ out
      /\ \A d \in CPU : d # c => q[d] = rq[d]
  BY <1>1
<1>3. \A t \in out : cpu[t] = c
  BY Kinds, SMT DEF IInv, Place, CurrentInv
<1>4. \A t \in Thread, d \in CPU : t \in q[d] <=> t \in onrq \ out /\ cpu[t] = d
  <2> TAKE t \in Thread, d \in CPU
  <2>1. t \in rq[d] <=> t \in onrq /\ cpu[t] = d
    BY DEF IInv, Place, QueuedWhereItSays
  <2> QED BY <1>2, <1>3, <2>1
<1>5. onrq' = onrq \ out /\ nrUnint' \in Int /\ allowed' = allowed
  <2>1. nrUnint' = IF prev \in out THEN nrUnint + Unint(prev) ELSE nrUnint
    BY DEF Reschedule
  <2>2. Unint(prev) \in Int
    BY SMT DEF Unint
  <2>3. nrUnint' \in Int
    BY <1>1, <2>1, <2>2, SMT
  <2>4. onrq' = onrq \ out /\ allowed' = allowed
    BY DEF Reschedule
  <2> QED BY <2>3, <2>4
<1>6. \A d \in CPU : idle[d] \notin onrq
  BY DEF IInv, IdleInv
<1>7. ASSUME NEW n \in Thread, n \in onrq PROVE n \notin Idlers
  BY <1>6, <1>7 DEF Idlers
<1>8. ASSUME NEW d \in CPU, d # c
      PROVE  \/ curr[d] = idle[d]
             \/ /\ curr[d] \notin Idlers /\ cpu[curr[d]] = d
                /\ newidle[d] = NoCpu => curr[d] \in q[d]
  BY <1>2, <1>8 DEF IInv, Place, CurrentInv
<1>a. HomeInv /\ \A d \in CPU : newidle[d] # d
  BY DEF IInv, Place, PeerInv
<1> HIDE DEF q
<1>b. CASE /\ rq' = q /\ resched' = resched \ {prev}
           /\ Switch(c, q[c]) /\ UNCHANGED <<cpu, newidle>>
  <2>1. PICK n \in PickNext(c, q[c]) : curr' = [curr EXCEPT ![c] = n]
    BY <1>b DEF Switch
  <2>2. n \in q[c] \/ n = idle[c]
    <3>1. q[c] \in SUBSET Thread /\ \A d \in CPU : idle[d] \notin q[c]
      BY <1>2, <1>4, <1>6, IdleKind
    <3> QED BY <2>1, <3>1, PickFacts
  <2>3. n \in Thread
    BY <1>2, <2>2, Kinds
  <2>4. n \in q[c] => n \notin Idlers /\ cpu[n] = c
    BY <1>4, <1>7, <2>3
  <2>5. CurrentInv'
    BY <1>1, <1>8, <1>b, <2>1, <2>2, <2>4 DEF CurrentInv
  <2>6. QueuedWhereItSays'
    BY <1>4, <1>5, <1>b DEF QueuedWhereItSays
  <2>7. HomeInv'
    BY <1>5, <1>a, <1>b DEF HomeInv
  <2> QED BY <1>1, <1>2, <1>5, <1>6, <1>a, <1>b, <2>1, <2>3, <2>5, <2>6, <2>7 DEF Place
<1>c. CASE /\ q[c] = {}
           /\ \E b \in Busiest(c) :
                \E S \in (SUBSET {t \in rq[b] : CanMigrate(t, b, c)}) \ {{}} :
                  /\ PullTasks(S, b, c, q)
                  /\ CheckPreempt(c, S, resched \ {prev})
                  /\ Switch(c, S)
           /\ UNCHANGED newidle
  <2>1. PICK b \in Busiest(c) :
             \E S \in (SUBSET {t \in rq[b] : CanMigrate(t, b, c)}) \ {{}} :
               /\ PullTasks(S, b, c, q)
               /\ CheckPreempt(c, S, resched \ {prev})
               /\ Switch(c, S)
    BY <1>c
  <2>2. PICK S \in (SUBSET {t \in rq[b] : CanMigrate(t, b, c)}) \ {{}} :
               /\ PullTasks(S, b, c, q)
               /\ CheckPreempt(c, S, resched \ {prev})
               /\ Switch(c, S)
    BY <2>1
  <2>3. b \in CPU /\ b # c
    BY DEF Busiest
  <2>4. /\ S \subseteq onrq /\ S \subseteq Thread /\ S # {}
        /\ \A t \in S : cpu[t] = b /\ t \notin Idlers
        /\ \A t \in S, d \in CPU : curr[d] # t
        /\ \A t \in S, k \in CPU : t # migrator[k]
    BY <2>3, PullFacts
  <2>5. PICK n \in PickNext(c, S) : curr' = [curr EXCEPT ![c] = n]
    BY <2>2 DEF Switch
  <2>6. n \in S
    BY <2>4, <2>5 DEF PickNext
  <2>7. \A t \in Thread : cpu'[t] = IF t \in S THEN c ELSE cpu[t]
    BY <2>2 DEF PullTasks
  <2>8. /\ rq' \in [CPU -> SUBSET Thread] /\ rq'[c] = S /\ rq'[b] = rq[b] \ S
        /\ \A d \in CPU : d # b /\ d # c => rq'[d] = rq[d]
    <3>1. q \in [CPU -> SUBSET Thread] /\ q[c] = {} /\ \A d \in CPU : d # c => q[d] = rq[d]
      BY <1>2, <1>c
    <3>2. rq' = [q EXCEPT ![b] = @ \ S, ![c] = @ \cup S]
      BY <2>2 DEF PullTasks
    <3> QED BY <2>3, <2>4, <3>1, <3>2
  <2>9. cpu' \in [Thread -> CPU]
    BY <1>1, <2>2 DEF PullTasks
  <2>10. QueuedWhereItSays'
    <3> SUFFICES ASSUME NEW t \in Thread, NEW d \in CPU
                 PROVE  t \in rq'[d] <=> t \in onrq' /\ cpu'[t] = d
      BY DEF QueuedWhereItSays
    <3>1. t \in q[d] <=> t \in onrq \ out /\ cpu[t] = d
      BY <1>4
    <3>2. t \in S => t \notin out
      BY <2>4
    <3>3. CASE t \in S
      <4>1. t \in onrq' /\ cpu'[t] = c /\ t \in rq'[c] /\ t \notin rq'[b]
        BY <1>5, <2>4, <2>7, <2>8, <3>2, <3>3
      <4>2. d # c /\ d # b => t \notin rq[d]
        BY <1>2, <2>4, <3>1, <3>3
      <4> QED BY <2>3, <2>8, <4>1, <4>2
    <3>4. CASE t \notin S
      <4>1. cpu'[t] = cpu[t]
        BY <2>7, <3>4
      <4>2. t \in rq'[d] <=> t \in q[d]
        BY <1>2, <1>c, <2>3, <2>8, <3>4
      <4> QED BY <1>5, <3>1, <4>1, <4>2
    <3> QED BY <3>3, <3>4
  <2>11. CurrentInv'
    <3> SUFFICES ASSUME NEW d \in CPU
                 PROVE  \/ curr'[d] = idle[d]
                        \/ /\ curr'[d] \notin Idlers /\ cpu'[curr'[d]] = d
                           /\ newidle'[d] = NoCpu => curr'[d] \in rq'[d]
      BY DEF CurrentInv
    <3>1. CASE d = c
      BY <1>1, <2>4, <2>5, <2>6, <2>7, <2>8, <3>1
    <3>2. CASE d # c
      <4>1. curr'[d] = curr[d] /\ curr[d] \in Thread /\ curr[d] \notin S
        BY <1>1, <2>4, <2>5, <3>2
      <4>2. curr[d] \in q[d] => curr[d] \in rq'[d]
        BY <1>2, <2>8, <3>2, <4>1
      <4>3. cpu'[curr[d]] = cpu[curr[d]] /\ newidle'[d] = newidle[d]
        BY <1>c, <2>7, <4>1
      <4> QED BY <1>8, <3>2, <4>1, <4>2, <4>3
    <3> QED BY <3>1, <3>2
  <2>12. HomeInv'
    <3>1. \A k \in CPU : migrator[k] \in Thread /\ migrator[k] \notin S
      BY <2>4, MigratorKind
    <3>2. \A k \in CPU : cpu'[migrator[k]] = cpu[migrator[k]]
      BY <2>7, <3>1
    <3> QED BY <1>5, <1>a, <3>2 DEF HomeInv
  <2>13. resched' \in SUBSET Thread /\ curr' \in [CPU -> Thread]
    BY <1>1, <2>2, <2>4, <2>5, <2>6 DEF CheckPreempt
  <2> QED BY <1>1, <1>5, <1>6, <1>a, <1>c, <2>8, <2>9, <2>10, <2>11, <2>12, <2>13 DEF Place
<1>d. CASE /\ q[c] = {}
           /\ \E b \in Busiest(c) : b < c /\ newidle' = [newidle EXCEPT ![c] = b]
           /\ rq' = q /\ resched' = resched \ {prev}
           /\ UNCHANGED <<cpu, curr>>
  <2>1. PICK b \in CPU : b # c /\ newidle' = [newidle EXCEPT ![c] = b]
    BY <1>d DEF Busiest
  <2>2. NoCpu \notin CPU
    BY SchedAssumption
  <2>3. newidle' \in [CPU -> CPU \cup {NoCpu}] /\ \A d \in CPU : newidle'[d] # d
    BY <1>1, <1>a, <2>1
  <2>4. CurrentInv'
    <3>1. \A d \in CPU : d # c => newidle'[d] = newidle[d]
      BY <1>1, <2>1
    <3>2. newidle'[c] # NoCpu
      BY <1>1, <2>1, <2>2
    <3>3. curr[c] = idle[c] \/ (curr[c] \notin Idlers /\ cpu[curr[c]] = c)
      BY DEF IInv, Place, CurrentInv
    <3> QED BY <1>8, <1>d, <3>1, <3>2, <3>3 DEF CurrentInv
  <2>5. QueuedWhereItSays'
    BY <1>4, <1>5, <1>d DEF QueuedWhereItSays
  <2>6. HomeInv'
    BY <1>5, <1>a, <1>d DEF HomeInv
  <2> QED BY <1>1, <1>2, <1>5, <1>6, <1>d, <2>3, <2>4, <2>5, <2>6 DEF Place
<1> QED BY <1>b, <1>c, <1>d DEF Reschedule, q

-----------------------------------------------------------------------------
(***************************************************************************)
(* The actions of schedule, of wakeups and of load balancing preserve the  *)
(* invariant of SchedInvariant.                                            *)
(***************************************************************************)

\* The parts of the invariant that no operation on the runqueues touches.
LEMMA FrameStep ==
  ASSUME IInv, Place',
         /\ state' \in [Thread -> {"R", "I", "U"}] /\ cpu' \in [Thread -> CPU]
         /\ onrq' \in SUBSET Thread /\ rq' \in [CPU -> SUBSET Thread]
         /\ resched' \in SUBSET Thread /\ nrUnint' \in Int
         /\ curr' \in [CPU -> Thread] /\ newidle' \in [CPU -> CPU \cup {NoCpu}],
         \A d \in CPU : newidle'[d] # d,
         \A c \in CPU : idle[c] \notin onrq' /\ state'[idle[c]] = "R",
         waking' \in SUBSET (Thread \ Idlers),
         UNCHANGED <<allowed, reqVars, migq, handling, push>>,
         nudge' \in [CPU -> CPU \cup {NoCpu}],
         pc' \in [Thread -> TaskPCs \cup MigPCs],
         \A c \in CPU : pc'[idle[c]] = "run",
         AskingInv'
  PROVE  IInv'
<1>1. TypeOK'
  BY DEF IInv, TypeOK, reqVars
<1>2. IdleInv' /\ PeerInv'
  BY DEF IInv, IdleInv, PeerInv
<1> QED BY <1>1, <1>2 DEF IInv

\* Leaving pc and the requests alone keeps the facts about requests.
LEMMA AskingFrame ==
  ASSUME IInv, UNCHANGED <<pc, reqVars>>
  PROVE  /\ AskingInv' /\ pc' \in [Thread -> TaskPCs \cup MigPCs]
         /\ \A c \in CPU : pc'[idle[c]] = "run"
BY DEF IInv, AskingInv, TypeOK, IdleInv, reqVars

\* A CPU executes a thread; it is not an idle one at a label of a task.
LEMMA CurrentFacts ==
  ASSUME IInv, NEW c \in CPU
  PROVE  /\ curr[c] \in Thread /\ state[curr[c]] \in {"R", "I", "U"}
         /\ curr[c] \in Idlers => curr[c] = idle[c] /\ state[curr[c]] = "R"
         /\ curr[c] \notin Idlers /\ newidle[c] = NoCpu =>
              curr[c] \in rq[c] /\ cpu[curr[c]] = c /\ curr[c] \in onrq
<1>1. curr[c] \in Thread /\ state[curr[c]] \in {"R", "I", "U"}
  BY DEF IInv, TypeOK
<1>2. \/ curr[c] = idle[c]
      \/ /\ curr[c] \notin Idlers /\ cpu[curr[c]] = c
         /\ newidle[c] = NoCpu => curr[c] \in rq[c]
  BY DEF IInv, Place, CurrentInv
<1>3. state[idle[c]] = "R" /\ idle[c] \in Idlers
  BY Kinds DEF IInv, IdleInv
<1>4. curr[c] \in rq[c] => curr[c] \in onrq
  BY <1>1 DEF IInv, Place, QueuedWhereItSays
<1> QED BY <1>1, <1>2, <1>3, <1>4

\* A migration thread executes on its own CPU, and nothing else does there.
LEMMA MigratingHome ==
  ASSUME IInv, NEW c \in CPU, NEW k \in CPU, NEW at, Migrating(c, k, at)
  PROVE  c = k /\ newidle[c] = NoCpu /\ curr[k] = migrator[k]
<1>1. curr[c] = migrator[k] /\ newidle[c] = NoCpu
  BY DEF Migrating, Free
<1>2. cpu[migrator[k]] = k /\ migrator[k] \notin Idlers
  BY Kinds DEF IInv, Place, HomeInv
<1> QED BY <1>1, <1>2, CurrentFacts

-----------------------------------------------------------------------------
USE DEF migVars, rqVars

\* schedule() and kernel preemption
LEMMA ScheduleStep ==
  ASSUME IInv, NEW c \in CPU, Schedule(c)
  PROVE  IInv'
<1> DEFINE prev == curr[c]
<1>1. newidle[c] = NoCpu /\ prev \in Thread
  BY CurrentFacts DEF Schedule, Free
<1>2. UNCHANGED <<allowed, waking, reqVars, nudge, push, migq, handling>>
  BY DEF Schedule, Reschedule
<1>3. pc' = [pc EXCEPT ![prev] = CASE @ = "block" -> "wait"
                                   [] @ = "sleep" -> "awake"
                                   [] OTHER -> @]
  BY DEF Schedule
<1>4. /\ pc' \in [Thread -> TaskPCs \cup MigPCs] /\ \A d \in CPU : pc'[idle[d]] = "run"
      /\ AskingInv'
  <2>1. pc \in [Thread -> TaskPCs \cup MigPCs] /\ \A d \in CPU : pc[idle[d]] = "run"
    BY DEF IInv, TypeOK, IdleInv
  <2>2. \A t \in Thread : \/ pc'[t] = pc[t]
                          \/ pc[t] = "block" /\ pc'[t] = "wait"
                          \/ pc[t] = "sleep" /\ pc'[t] = "awake"
    BY <1>1, <1>3, <2>1
  <2>3. pc' \in [Thread -> TaskPCs \cup MigPCs]
    BY <1>1, <1>3, <2>1 DEF TaskPCs, MigPCs
  <2>4. \A d \in CPU : pc'[idle[d]] = "run"
    <3> TAKE d \in CPU
    <3>1. idle[d] \in Thread /\ pc[idle[d]] = "run"
      BY <2>1, IdleKind
    <3> QED BY <2>2, <3>1
  <2>5. AskingInv'
    <3>1. AskingInv /\ reqCpu' = reqCpu
      BY <1>2 DEF IInv, reqVars
    <3> QED BY <2>2, <3>1, TaskKind DEF AskingInv
  <2> QED BY <2>3, <2>4, <2>5
<1>5. PICK out \in {{}, {prev}} :
        /\ Reschedule(c, out) /\ \A t \in out : t \notin Idlers
        /\ state' \in [Thread -> {"R", "I", "U"}]
        /\ \A d \in CPU : state'[idle[d]] = "R"
  <2>1. state \in [Thread -> {"R", "I", "U"}] /\ \A d \in CPU : state[idle[d]] = "R"
    BY DEF IInv, TypeOK, IdleInv
  <2>2. CASE Reschedule(c, {}) /\ UNCHANGED state
    BY <2>1, <2>2
  <2>3. CASE state[prev] # "R" /\ Reschedule(c, {prev}) /\ UNCHANGED state
    BY <2>1, <2>3, CurrentFacts
  <2>4. CASE state' = [state EXCEPT ![prev] = "R"] /\ Reschedule(c, {})
    BY <1>1, <2>1, <2>4, Kinds
  <2> QED BY <2>2, <2>3, <2>4 DEF Schedule
<1>6. out \in SUBSET {curr[c]}
  OBVIOUS
<1>7. nudge' \in [CPU -> CPU \cup {NoCpu}] /\ waking' \in SUBSET (Thread \ Idlers)
  BY <1>2 DEF IInv, TypeOK, IdleInv
<1>8. /\ Place' /\ cpu' \in [Thread -> CPU] /\ onrq' \in SUBSET Thread
      /\ rq' \in [CPU -> SUBSET Thread] /\ curr' \in [CPU -> Thread]
      /\ newidle' \in [CPU -> CPU \cup {NoCpu}] /\ resched' \in SUBSET Thread
      /\ nrUnint' \in Int /\ \A d \in CPU : newidle'[d] # d
      /\ \A d \in CPU : idle[d] \notin onrq'
  BY <1>1, <1>5, <1>6, ReschedulePlace
<1> QED BY <1>2, <1>4, <1>5, <1>7, <1>8, FrameStep

\* schedule() on the way out of an interrupt keeps IInv.
LEMMA PreemptStep ==
  ASSUME IInv, NEW c \in CPU, Preempt(c)
  PROVE  IInv'
<1>1. newidle[c] = NoCpu /\ Reschedule(c, {}) /\ UNCHANGED <<state, pc>>
  BY DEF Preempt, Free
<1>2. UNCHANGED <<allowed, waking, reqVars, nudge, push, migq, handling>>
  BY <1>1 DEF Reschedule
<1>3. /\ Place' /\ cpu' \in [Thread -> CPU] /\ onrq' \in SUBSET Thread
      /\ rq' \in [CPU -> SUBSET Thread] /\ curr' \in [CPU -> Thread]
      /\ newidle' \in [CPU -> CPU \cup {NoCpu}] /\ resched' \in SUBSET Thread
      /\ nrUnint' \in Int /\ \A d \in CPU : newidle'[d] # d
      /\ \A d \in CPU : idle[d] \notin onrq'
  <2>1. {} \in SUBSET {curr[c]}
    OBVIOUS
  <2> QED BY <1>1, <2>1, ReschedulePlace
<1>4. /\ nudge' \in [CPU -> CPU \cup {NoCpu}] /\ waking' \in SUBSET (Thread \ Idlers)
      /\ state' \in [Thread -> {"R", "I", "U"}] /\ \A d \in CPU : state'[idle[d]] = "R"
  BY <1>1, <1>2 DEF IInv, TypeOK, IdleInv
<1> QED BY <1>1, <1>2, <1>3, <1>4, AskingFrame, FrameStep

\* The second half of newly-idle balancing: the busiest CPU was looked up
\* before the lock was dropped, the pull looks at its queue again.
LEMMA NewIdleStep ==
  ASSUME IInv, NEW c \in CPU, NewIdle(c)
  PROVE  IInv'
<1> DEFINE b == newidle[c]
<1>1. NoCpu \notin CPU /\ b \in CPU /\ b # c
  <2>1. b # NoCpu
    BY DEF NewIdle
  <2>2. b \in CPU
    BY <2>1, QueueTypes
  <2>3. b # c
    BY DEF IInv, PeerInv
  <2> QED BY <2>2, <2>3, NoCpuKind
<1>2. PICK S \in SUBSET {t \in rq[b] : CanMigrate(t, b, c)} :
        /\ PullTasks(S, b, c, rq) /\ CheckPreempt(c, S, resched)
        /\ Switch(c, rq[c] \cup S)
  BY DEF NewIdle
<1>3. /\ newidle' = [newidle EXCEPT ![c] = NoCpu]
      /\ UNCHANGED <<state, allowed, onrq, nrUnint, waking, reqVars, nudge, push, migq, handling, pc>>
  BY DEF NewIdle
<1>4. /\ S \subseteq onrq /\ S \subseteq Thread
      /\ \A t \in S : cpu[t] = b /\ t \notin Idlers
      /\ \A t \in S, d \in CPU : curr[d] # t
      /\ \A t \in S, k \in CPU : t # migrator[k]
  BY <1>1, PullFacts
<1>5. /\ cpu \in [Thread -> CPU] /\ rq \in [CPU -> SUBSET Thread] /\ onrq \in SUBSET Thread
      /\ curr \in [CPU -> Thread] /\ newidle \in [CPU -> CPU \cup {NoCpu}]
      /\ resched \in SUBSET Thread
  BY DEF IInv, TypeOK
<1>6. /\ rq' \in [CPU -> SUBSET Thread] /\ rq'[c] = rq[c] \cup S /\ rq'[b] = rq[b] \ S
      /\ \A d \in CPU : d # b /\ d # c => rq'[d] = rq[d]
  BY <1>1, <1>2, <1>4, <1>5 DEF PullTasks
<1>7. cpu' \in [Thread -> CPU] /\ \A t \in Thread : cpu'[t] = IF t \in S THEN c ELSE cpu[t]
  BY <1>2, <1>5 DEF PullTasks
<1>8. QueuedWhereItSays'
  <2> SUFFICES ASSUME NEW t \in Thread, NEW d \in CPU
               PROVE  t \in rq'[d] <=> t \in onrq' /\ cpu'[t] = d
    BY DEF QueuedWhereItSays
  <2>1. t \in rq[d] <=> t \in onrq /\ cpu[t] = d
    BY DEF IInv, Place, QueuedWhereItSays
  <2>2. onrq' = onrq
    BY <1>3
  <2>3. CASE t \in S
    <3>1. t \in onrq /\ cpu'[t] = c /\ t \in rq'[c] /\ t \notin rq'[b] /\ cpu[t] = b
      BY <1>4, <1>6, <1>7, <2>3
    <3> QED BY <1>1, <1>6, <2>1, <2>2, <3>1
  <2>4. CASE t \notin S
    <3>1. cpu'[t] = cpu[t]
      BY <1>7, <2>4
    <3>2. t \in rq'[d] <=> t \in rq[d]
      BY <1>6, <2>4
    <3> QED BY <2>1, <2>2, <3>1, <3>2
  <2> QED BY <2>3, <2>4
<1>9. ASSUME NEW d \in CPU PROVE idle[d] \notin onrq /\ state[idle[d]] = "R"
  BY DEF IInv, IdleInv
<1>10. PICK n \in PickNext(c, rq[c] \cup S) : curr' = [curr EXCEPT ![c] = n]
  BY <1>2 DEF Switch
<1>11. n \in rq'[c] \/ n = idle[c]
  BY <1>6, <1>10 DEF PickNext
<1>12. n \in Thread
  BY <1>6, <1>11, Kinds
<1>13. n \in rq'[c] => n \in onrq /\ cpu'[n] = c
  BY <1>3, <1>8, <1>12 DEF QueuedWhereItSays
<1>14. n \in rq'[c] => n \notin Idlers
  BY <1>9, <1>13 DEF Idlers
<1>15. CurrentInv'
  <2> SUFFICES ASSUME NEW d \in CPU
               PROVE  \/ curr'[d] = idle[d]
                      \/ /\ curr'[d] \notin Idlers /\ cpu'[curr'[d]] = d
                         /\ newidle'[d] = NoCpu => curr'[d] \in rq'[d]
    BY DEF CurrentInv
  <2>1. CASE d = c
    BY <1>5, <1>10, <1>11, <1>13, <1>14, <2>1
  <2>2. CASE d # c
    <3>1. curr'[d] = curr[d] /\ curr[d] \in Thread /\ curr[d] \notin S /\ newidle'[d] = newidle[d]
      BY <1>3, <1>4, <1>5, <1>10, <2>2
    <3>2. curr[d] \in rq[d] => curr[d] \in rq'[d]
      BY <1>6, <2>2, <3>1
    <3> QED BY <1>7, <3>1, <3>2 DEF IInv, Place, CurrentInv
  <2> QED BY <2>1, <2>2
<1>16. HomeInv'
  <2>1. \A k \in CPU : migrator[k] \in Thread /\ migrator[k] \notin S
    BY <1>4, MigratorKind
  <2>2. \A k \in CPU : cpu'[migrator[k]] = cpu[migrator[k]]
    BY <1>7, <2>1
  <2> QED BY <1>3, <2>2 DEF IInv, Place, HomeInv
<1>17. /\ newidle' \in [CPU -> CPU \cup {NoCpu}] /\ \A d \in CPU : newidle'[d] # d
       /\ curr' \in [CPU -> Thread] /\ resched' \in SUBSET Thread
  BY <1>1, <1>2, <1>3, <1>5, <1>10, <1>12 DEF CheckPreempt, IInv, PeerInv
<1>18. /\ nudge' \in [CPU -> CPU \cup {NoCpu}] /\ waking' \in SUBSET (Thread \ Idlers)
       /\ state' \in [Thread -> {"R", "I", "U"}] /\ nrUnint' \in Int
       /\ onrq' \in SUBSET Thread
  BY <1>3 DEF IInv, TypeOK, IdleInv
<1> QED BY <1>3, <1>6, <1>7, <1>8, <1>9, <1>15, <1>16, <1>17, <1>18, AskingFrame,
           FrameStep DEF Place

-----------------------------------------------------------------------------
\* Wakeups

\* Everything a wakeup leaves alone
LEMMA WakeFrame ==
  ASSUME IInv, NEW p \in Thread, p \notin Idlers, NEW c \in CPU,
         \/ WakeHere(p) /\ UNCHANGED cpu
         \/ WakeTo(c, p) /\ UNCHANGED <<state, onrq, rq, nrUnint, resched>>,
         waking' \in SUBSET (Thread \ Idlers), UNCHANGED <<allowed, curr, newidle>>
  PROVE  /\ Place' /\ state' \in [Thread -> {"R", "I", "U"}] /\ cpu' \in [Thread -> CPU]
         /\ onrq' \in SUBSET Thread /\ rq' \in [CPU -> SUBSET Thread]
         /\ resched' \in SUBSET Thread /\ nrUnint' \in Int
         /\ curr' \in [CPU -> Thread] /\ newidle' \in [CPU -> CPU \cup {NoCpu}]
         /\ \A d \in CPU : newidle'[d] # d
         /\ \A d \in CPU : idle[d] \notin onrq' /\ state'[idle[d]] = "R"
<1>1. curr' \in [CPU -> Thread] /\ newidle' \in [CPU -> CPU \cup {NoCpu}]
      /\ \A d \in CPU : newidle'[d] # d
  BY DEF IInv, TypeOK, PeerInv
<1>2. CASE WakeHere(p) /\ UNCHANGED cpu
  <2>1. cpu' \in [Thread -> CPU]
    BY <1>2 DEF IInv, TypeOK
  <2> QED BY <1>1, <1>2, <2>1, WakePlace
<1>3. CASE WakeTo(c, p) /\ UNCHANGED <<state, onrq, rq, nrUnint, resched>>
  <2>1. /\ state' \in [Thread -> {"R", "I", "U"}] /\ onrq' \in SUBSET Thread
        /\ rq' \in [CPU -> SUBSET Thread] /\ resched' \in SUBSET Thread /\ nrUnint' \in Int
        /\ \A d \in CPU : idle[d] \notin onrq' /\ state'[idle[d]] = "R"
    BY <1>3 DEF IInv, TypeOK, IdleInv
  <2> QED BY <1>1, <1>3, <2>1, WakeToPlace
<1> QED BY <1>2, <1>3

\* try_to_wake_up by the current thread of a CPU keeps IInv.
LEMMA WakeStep ==
  ASSUME IInv, NEW c \in CPU, NEW p \in Task, Wake(c, p)
  PROVE  IInv'
<1>1. p \in Thread /\ p \notin Idlers
  BY Kinds
<1>2. UNCHANGED <<allowed, curr, newidle, reqVars, nudge, push, migq, handling, pc>>
  BY DEF Wake
<1>3. /\ waking' \in SUBSET (Thread \ Idlers)
      /\ \/ WakeHere(p) /\ UNCHANGED cpu
         \/ WakeTo(c, p) /\ UNCHANGED <<state, onrq, rq, nrUnint, resched>>
  BY <1>1 DEF Wake, IInv, IdleInv
<1>4. nudge' \in [CPU -> CPU \cup {NoCpu}]
  BY <1>2 DEF IInv, TypeOK
<1> QED BY <1>1, <1>2, <1>3, <1>4, WakeFrame, AskingFrame, FrameStep

\* try_to_wake_up after it chose another CPU and took its lock keeps IInv.
LEMMA WakeMovedStep ==
  ASSUME IInv, NEW p \in Thread, WakeMoved(p)
  PROVE  IInv'
<1>1. UNCHANGED <<cpu, allowed, curr, newidle, reqVars, nudge, push, migq, handling, pc>>
  BY DEF WakeMoved
<1>2. p \notin Idlers /\ waking' \in SUBSET (Thread \ Idlers) /\ WakeHere(p)
  BY DEF WakeMoved, IInv, IdleInv
<1>3. nudge' \in [CPU -> CPU \cup {NoCpu}] /\ Boot \in CPU
  BY <1>1, SchedAssumption DEF IInv, TypeOK
<1> QED BY <1>1, <1>2, <1>3, WakeFrame, AskingFrame, FrameStep

\* wake_up_process of a migration thread by the balancing softirq
LEMMA NudgeStep ==
  ASSUME IInv, NEW c \in CPU, Nudge(c)
  PROVE  IInv'
<1>1. nudge[c] \in CPU
  BY DEF Nudge, IInv, TypeOK
<1> DEFINE m == migrator[nudge[c]]
<1>2. m \in Thread /\ m \notin Idlers
  BY <1>1, Kinds
<1>3. /\ nudge' = [nudge EXCEPT ![c] = NoCpu]
      /\ UNCHANGED <<allowed, curr, newidle, reqVars, push, migq, handling, pc>>
  BY DEF Nudge
<1>4. /\ waking' \in SUBSET (Thread \ Idlers)
      /\ \/ WakeHere(m) /\ UNCHANGED cpu
         \/ WakeTo(c, m) /\ UNCHANGED <<state, onrq, rq, nrUnint, resched>>
  BY <1>2 DEF Nudge, IInv, IdleInv
<1>5. nudge' \in [CPU -> CPU \cup {NoCpu}]
  BY <1>3 DEF IInv, TypeOK
<1> QED BY <1>2, <1>3, <1>4, <1>5, WakeFrame, AskingFrame, FrameStep

\* wake_up_process of a migration thread by a task with a request
LEMMA KickStep ==
  ASSUME IInv, NEW c \in CPU, Kick(c)
  PROVE  IInv'
<1> DEFINE t == curr[c]
           m == migrator[reqCpu[t]]
<1>1. t \in Thread /\ pc[t] \in {"kick", "kicking"}
  BY CurrentFacts DEF Kick
<1>2. t \in Task /\ reqCpu[t] \in CPU
  BY <1>1 DEF IInv, AskingInv
<1>3. m \in Thread /\ m \notin Idlers
  BY <1>2, Kinds
<1>4. UNCHANGED <<allowed, curr, newidle, waking, reqVars, nudge, push, migq, handling>>
  BY DEF Kick
<1>5. /\ waking' \in SUBSET (Thread \ Idlers) /\ nudge' \in [CPU -> CPU \cup {NoCpu}]
      /\ \/ WakeHere(m) /\ UNCHANGED cpu
         \/ WakeTo(c, m) /\ UNCHANGED <<state, onrq, rq, nrUnint, resched>>
  BY <1>4 DEF Kick, IInv, TypeOK, IdleInv
<1>6. PICK l \in {"wait", "kicking"} : pc' = [pc EXCEPT ![t] = l]
  BY DEF Kick
<1>7. pc' \in [Thread -> TaskPCs \cup MigPCs]
  BY <1>6 DEF IInv, TypeOK, TaskPCs
<1>8. \A d \in CPU : pc'[idle[d]] = "run"
  BY <1>2, <1>6, Kinds DEF IInv, IdleInv, TypeOK
<1>9. AskingInv'
  <2>1. AskingInv /\ reqCpu' = reqCpu
    BY <1>4 DEF IInv, reqVars
  <2>2. \A u \in Thread : pc'[u] = IF u = t THEN l ELSE pc[u]
    BY <1>6, RequestTypes
  <2> QED BY <1>2, <2>1, <2>2, TaskKind DEF AskingInv
<1> QED BY <1>3, <1>4, <1>5, <1>7, <1>8, <1>9, WakeFrame, FrameStep

-----------------------------------------------------------------------------
\* Steps that leave the placement alone, and those of the migration protocol

\* A step that touches neither p->cpu, the masks, the queues nor the current
\* threads keeps the placement.
LEMMA StillPlace ==
  ASSUME IInv, UNCHANGED <<cpu, allowed, onrq, rq, curr, newidle>>
  PROVE  Place'
BY DEF IInv, Place, QueuedWhereItSays, CurrentInv, HomeInv

\* set_current_state before a sleep keeps IInv.
LEMMA SetStateStep ==
  ASSUME IInv, NEW c \in CPU, SetState(c)
  PROVE  IInv'
<1> DEFINE t == curr[c]
<1>1. t \in Task /\ t \in Thread
  BY Kinds DEF SetState
<1>2. PICK s \in {"R", "I", "U"} : state' = [state EXCEPT ![t] = s]
  BY SchedAssumption DEF SetState
<1>3. UNCHANGED <<cpu, allowed, onrq, rq, nrUnint, curr, newidle, resched,
                  waking, reqVars, nudge, push, migq, handling, pc>>
  BY DEF SetState
<1>4. /\ state' \in [Thread -> {"R", "I", "U"}] /\ \A d \in CPU : state'[idle[d]] = "R"
  BY <1>1, <1>2, Kinds DEF IInv, TypeOK, IdleInv
<1>5. TypeOK'
  BY <1>3, <1>4 DEF IInv, TypeOK, reqVars
<1>6. IdleInv' /\ PeerInv'
  BY <1>3, <1>4 DEF IInv, IdleInv, PeerInv
<1> QED BY <1>3, <1>5, <1>6, StillPlace, AskingFrame DEF IInv

\* scheduler_tick keeps IInv.
LEMMA TickStep ==
  ASSUME IInv, NEW c \in CPU, Tick(c)
  PROVE  IInv'
<1>1. UNCHANGED <<state, cpu, allowed, onrq, rq, nrUnint, curr, newidle,
                  waking, reqVars, nudge, push, migq, handling, pc>>
  BY DEF Tick
<1>2. resched' \in SUBSET Thread
  <2>1. curr[c] \in Thread /\ resched \in SUBSET Thread
    BY QueueTypes
  <2> QED BY <2>1 DEF Tick
<1>3. TypeOK'
  BY <1>1, <1>2 DEF IInv, TypeOK, reqVars
<1>4. IdleInv' /\ PeerInv'
  BY <1>1 DEF IInv, IdleInv, PeerInv
<1> QED BY <1>1, <1>3, <1>4, StillPlace, AskingFrame DEF IInv

\* The request for active balancing in load_balance keeps IInv.
LEMMA ActiveBalanceStep ==
  ASSUME IInv, NEW c \in CPU, NEW b \in CPU, ActiveBalance(c, b)
  PROVE  IInv'
<1>1. UNCHANGED <<state, cpu, allowed, onrq, rq, nrUnint, curr, newidle, resched,
                  waking, reqVars, migq, handling, pc>>
  BY DEF ActiveBalance
<1>2. b # c /\ push' = [push EXCEPT ![b] = c] /\ nudge' = [nudge EXCEPT ![c] = b]
  BY DEF ActiveBalance
<1>3. TypeOK'
  BY <1>1, <1>2 DEF IInv, TypeOK, reqVars
<1>4. IdleInv' /\ PeerInv'
  BY <1>1, <1>2 DEF IInv, IdleInv, PeerInv, TypeOK
<1> QED BY <1>1, <1>3, <1>4, StillPlace, AskingFrame DEF IInv

\* rebalance_domains keeps IInv.
LEMMA LoadBalanceStep ==
  ASSUME IInv, NEW c \in CPU, LoadBalance(c)
  PROVE  IInv'
<1>0. PICK b \in CPU \ {c} :
        \E S \in SUBSET {t \in rq[b] : CanMigrate(t, b, c)} :
          PullTasks(S, b, c, rq) /\ CheckPreempt(c, S, resched)
  BY DEF LoadBalance, Busiest
<1>1. PICK S \in SUBSET {t \in rq[b] : CanMigrate(t, b, c)} :
        PullTasks(S, b, c, rq) /\ CheckPreempt(c, S, resched)
  BY <1>0
<1>2. UNCHANGED <<state, allowed, onrq, nrUnint, curr, newidle, waking,
                  reqVars, nudge, push, migq, handling, pc>>
  BY DEF LoadBalance
<1>3. Place' /\ cpu' \in [Thread -> CPU] /\ rq' \in [CPU -> SUBSET Thread]
  BY <1>1, <1>2, PullPlace
<1>4. resched' \in SUBSET Thread
  <2>1. curr[c] \in Thread /\ resched \in SUBSET Thread
    BY QueueTypes
  <2> QED BY <1>1, <2>1 DEF CheckPreempt
<1>5. TypeOK'
  BY <1>2, <1>3, <1>4 DEF IInv, TypeOK, reqVars
<1>6. IdleInv' /\ PeerInv'
  BY <1>2 DEF IInv, IdleInv, PeerInv
<1> QED BY <1>2, <1>3, <1>5, <1>6, AskingFrame DEF IInv

-----------------------------------------------------------------------------
(***************************************************************************)
(* The actions of the migration protocol preserve the invariant, and what  *)
(* follows from it.                                                        *)
(***************************************************************************)

USE DEF migVars, rqVars

-----------------------------------------------------------------------------
\* A request goes to the head of the list.
LEMMA PrependType == \A t \in Task, s \in Seq(Task) : <<t>> \o s \in Seq(Task)
BY SMT

\* migrate_task, by a task t on behalf of a task p
LEMMA MigrateTaskStep ==
  ASSUME IInv, NEW t \in Task, pc[t] = "run", NEW p \in Task, NEW d \in CPU,
         MigrateTask(t, p, d), allowed' \in [Thread -> SUBSET CPU],
         \A k \in CPU : allowed'[migrator[k]] = allowed[migrator[k]],
         UNCHANGED <<state, onrq, rq, nrUnint, curr, newidle, resched,
                     waking, waiting, nudge, push, handling>>
  PROVE  IInv'
<1>1. p \in Thread /\ t \in Thread /\ p \notin Idlers /\ \A k \in CPU : p # migrator[k]
  BY Kinds
<1>2. IdleInv /\ PeerInv /\ AskingInv /\ TypeOK
  BY DEF IInv
<1>3. CASE /\ p \notin onrq /\ ~Running(p) /\ cpu' = [cpu EXCEPT ![p] = d]
           /\ UNCHANGED <<migq, reqTask, reqDest, reqCpu, done, pc>>
  <2>1. Place' /\ cpu' \in [Thread -> CPU]
    BY <1>1, <1>3, MovePlace
  <2>2. TypeOK'
    BY <1>2, <1>3, <2>1 DEF TypeOK
  <2>3. IdleInv' /\ PeerInv' /\ AskingInv'
    BY <1>2, <1>3 DEF IdleInv, PeerInv, AskingInv
  <2> QED BY <2>1, <2>2, <2>3 DEF IInv
<1>4. CASE /\ reqTask' = [reqTask EXCEPT ![t] = p]
           /\ reqDest' = [reqDest EXCEPT ![t] = d]
           /\ reqCpu' = [reqCpu EXCEPT ![t] = cpu[p]]
           /\ done' = [done EXCEPT ![t] = 0]
           /\ migq' = [migq EXCEPT ![cpu[p]] = <<t>> \o @]
           /\ pc' = [pc EXCEPT ![t] = "kick"]
           /\ UNCHANGED cpu
  <2>1. cpu[p] \in CPU
    BY <1>1, <1>2 DEF TypeOK
  <2>2. migq' \in [CPU -> Seq(Task)]
    <3>1. migq[cpu[p]] \in Seq(Task)
      BY <1>2, <2>1 DEF TypeOK
    <3>3. <<t>> \o migq[cpu[p]] \in Seq(Task)
      BY <3>1, PrependType
    <3> QED BY <1>2, <1>4, <2>1, <3>3 DEF TypeOK
  <2>3. /\ reqTask' \in [Task -> Task \cup {NoThread}] /\ reqDest' \in [Task -> CPU \cup {NoCpu}]
        /\ reqCpu' \in [Task -> CPU \cup {NoCpu}] /\ done' \in [Task -> Nat]
    BY <1>2, <1>4, <2>1 DEF TypeOK
  <2>4. pc' \in [Thread -> TaskPCs \cup MigPCs]
    BY <1>1, <1>2, <1>4 DEF TypeOK, TaskPCs
  <2>5. TypeOK'
    BY <1>2, <1>4, <2>2, <2>3, <2>4 DEF TypeOK
  <2>6. Place'
    BY <1>4 DEF IInv, Place, QueuedWhereItSays, CurrentInv, HomeInv
  <2>7. \A u \in Thread : pc'[u] = IF u = t THEN "kick" ELSE pc[u]
    BY <1>2, <1>4 DEF TypeOK
  <2>8. \A u \in Task : reqCpu'[u] = IF u = t THEN cpu[p] ELSE reqCpu[u]
    BY <1>2, <1>4 DEF TypeOK
  <2>9. \A c \in CPU : idle[c] \in Thread /\ idle[c] # t
    BY Kinds
  <2>10. IdleInv' /\ PeerInv'
    BY <1>2, <2>7, <2>9 DEF IdleInv, PeerInv
  <2>11. AskingInv'
    BY <1>1, <1>2, <2>1, <2>7, <2>8, Kinds DEF AskingInv
  <2> QED BY <2>5, <2>6, <2>10, <2>11 DEF IInv
<1> QED BY <1>3, <1>4 DEF MigrateTask

\* sched_exec keeps IInv.
LEMMA SchedExecStep ==
  ASSUME IInv, NEW c \in CPU, NEW d \in CPU, SchedExec(c, d)
  PROVE  IInv'
<1>1. curr[c] \in Task /\ pc[curr[c]] = "run" /\ MigrateTask(curr[c], curr[c], d)
  BY SchedAssumption DEF SchedExec
<1>2. UNCHANGED <<state, allowed, onrq, rq, nrUnint, curr, newidle, resched,
                  waking, waiting, nudge, push, handling>>
  BY DEF SchedExec
<1>3. allowed' \in [Thread -> SUBSET CPU]
  BY <1>2 DEF IInv, TypeOK
<1> QED BY <1>1, <1>2, <1>3, MigrateTaskStep

\* set_cpus_allowed keeps IInv.
LEMMA SetCpusAllowedStep ==
  ASSUME IInv, NEW c \in CPU, NEW p \in Task, NEW m \in Masks, SetCpusAllowed(c, p, m)
  PROVE  IInv'
<1>1. curr[c] \in Task /\ pc[curr[c]] = "run" /\ m \in SUBSET CPU /\ p \in Thread
  BY SchedAssumption, Kinds DEF SetCpusAllowed
<1>2. /\ allowed' = [allowed EXCEPT ![p] = m]
      /\ UNCHANGED <<state, onrq, rq, nrUnint, curr, newidle, resched,
                     waking, waiting, nudge, push, handling>>
  BY DEF SetCpusAllowed
<1>3. /\ allowed' \in [Thread -> SUBSET CPU]
      /\ \A k \in CPU : allowed'[migrator[k]] = allowed[migrator[k]]
  <2>1. allowed \in [Thread -> SUBSET CPU]
    BY DEF IInv, TypeOK
  <2>2. \A k \in CPU : migrator[k] \in Thread /\ migrator[k] # p
    BY Kinds
  <2>3. allowed' \in [Thread -> SUBSET CPU]
    BY <1>1, <1>2, <2>1, SMT
  <2>4. \A t \in Thread : t # p => allowed'[t] = allowed[t]
    BY <1>2, <2>1
  <2> QED BY <2>2, <2>3, <2>4
<1>4. CASE UNCHANGED <<cpu, migq, reqTask, reqDest, reqCpu, done, pc>>
  <2>1. Place'
    BY <1>2, <1>3, <1>4 DEF IInv, Place, QueuedWhereItSays, CurrentInv, HomeInv
  <2>2. TypeOK'
    BY <1>2, <1>3, <1>4 DEF IInv, TypeOK
  <2>3. IdleInv' /\ PeerInv' /\ AskingInv'
    BY <1>2, <1>4 DEF IInv, IdleInv, PeerInv, AskingInv
  <2> QED BY <2>1, <2>2, <2>3 DEF IInv
<1>5. CASE \E d \in m : MigrateTask(curr[c], p, d)
  <2>1. PICK d \in CPU : MigrateTask(curr[c], p, d)
    BY <1>1, <1>5
  <2> QED BY <1>1, <1>2, <1>3, <2>1, MigrateTaskStep
<1> QED BY <1>4, <1>5 DEF SetCpusAllowed

\* wait_for_completion of a migration request keeps IInv.
LEMMA WaitForCompletionStep ==
  ASSUME IInv, NEW c \in CPU, WaitForCompletion(c)
  PROVE  IInv'
<1> DEFINE t == curr[c]
<1>1. t \in Thread /\ pc[t] = "wait"
  BY CurrentFacts DEF WaitForCompletion
<1>2. t \in Task
  BY <1>1 DEF IInv, AskingInv
<1>3. UNCHANGED <<cpu, allowed, onrq, rq, nrUnint, curr, newidle, resched,
                  waking, nudge, push, migq, handling>>
  BY DEF WaitForCompletion
<1>4. IdleInv /\ PeerInv /\ AskingInv /\ TypeOK
  BY DEF IInv
<1>5. CASE /\ done[t] > 0
           /\ done' = [done EXCEPT ![t] = @ - 1]
           /\ waiting' = waiting \ {t}
           /\ pc' = [pc EXCEPT ![t] = "run"]
           /\ reqTask' = [reqTask EXCEPT ![t] = NoThread]
           /\ reqDest' = [reqDest EXCEPT ![t] = NoCpu]
           /\ reqCpu' = [reqCpu EXCEPT ![t] = NoCpu]
           /\ UNCHANGED state
  <2>1. done' \in [Task -> Nat]
    <3>1. done \in [Task -> Nat] /\ done[t] \in Nat
      BY <1>2, RequestTypes
    <3>2. done[t] - 1 \in Nat
      BY <1>5, <3>1, SMT
    <3> QED BY <1>5, <3>1, <3>2
  <2>2. pc' \in [Thread -> TaskPCs \cup MigPCs]
    BY <1>1, <1>4, <1>5 DEF TypeOK, TaskPCs
  <2>3. TypeOK'
    BY <1>3, <1>4, <1>5, <2>1, <2>2 DEF TypeOK
  <2>4. IdleInv' /\ PeerInv'
    BY <1>2, <1>3, <1>4, <1>5, Kinds DEF IdleInv, PeerInv, TypeOK
  <2>5. AskingInv'
    <3>1. \A u \in Thread : pc'[u] = IF u = t THEN "run" ELSE pc[u]
      BY <1>5, RequestTypes
    <3>2. \A u \in Task : u # t => reqCpu'[u] = reqCpu[u]
      BY <1>5, RequestTypes
    <3> QED BY <1>4, <3>1, <3>2, TaskKind DEF AskingInv
  <2> QED BY <1>3, <2>3, <2>4, <2>5, StillPlace DEF IInv
<1>6. CASE /\ waiting' = waiting \cup {t}
           /\ state' = [state EXCEPT ![t] = "U"]
           /\ pc' = [pc EXCEPT ![t] = "block"]
           /\ UNCHANGED <<done, reqTask, reqDest, reqCpu>>
  <2>1. pc' \in [Thread -> TaskPCs \cup MigPCs] /\ state' \in [Thread -> {"R", "I", "U"}]
    BY <1>1, <1>4, <1>6 DEF TypeOK, TaskPCs
  <2>2. TypeOK'
    BY <1>2, <1>3, <1>4, <1>6, <2>1 DEF TypeOK
  <2>3. IdleInv' /\ PeerInv'
    BY <1>2, <1>3, <1>4, <1>6, Kinds DEF IdleInv, PeerInv, TypeOK
  <2>4. AskingInv'
    <3>1. \A u \in Thread : pc'[u] = IF u = t THEN "block" ELSE pc[u]
      BY <1>6, RequestTypes
    <3>2. \A u \in Thread : u # t => (pc'[u] \in {"kick", "kicking", "wait", "block"} => u \in Task)
      BY <1>4, <3>1 DEF AskingInv
    <3>3. \A u \in Task : pc'[u] \in {"kick", "kicking"} => reqCpu'[u] \in CPU
      <4>1. reqCpu' = reqCpu
        BY <1>6
      <4>2. \A u \in Task : u \in Thread
        BY TaskKind
      <4>3. \A u \in Task : pc'[u] \in {"kick", "kicking"} => pc[u] \in {"kick", "kicking"}
        BY <3>1, <4>2
      <4> QED BY <1>4, <4>1, <4>3 DEF AskingInv
    <3>4. \A u \in Thread : pc'[u] \in {"kick", "kicking", "wait", "block"} => u \in Task
      BY <1>2, <3>2
    <3> QED BY <3>3, <3>4 DEF AskingInv
  <2> QED BY <1>3, <2>2, <2>3, <2>4, StillPlace DEF IInv
<1> QED BY <1>5, <1>6 DEF WaitForCompletion

-----------------------------------------------------------------------------
\* The migration thread

\* A migration thread keeps its labels to itself.
LEMMA MigratorLabel ==
  ASSUME IInv, NEW k \in CPU, NEW l \in MigPCs, pc' = [pc EXCEPT ![migrator[k]] = l],
         UNCHANGED reqCpu
  PROVE  /\ pc' \in [Thread -> TaskPCs \cup MigPCs] /\ AskingInv'
         /\ \A c \in CPU : pc'[idle[c]] = "run"
<1>1. pc \in [Thread -> TaskPCs \cup MigPCs] /\ AskingInv /\ \A c \in CPU : pc[idle[c]] = "run"
  BY DEF IInv, TypeOK, IdleInv
<1>2. \A u \in Thread : pc'[u] = IF u = migrator[k] THEN l ELSE pc[u]
  BY <1>1
<1>3. pc' \in [Thread -> TaskPCs \cup MigPCs]
  BY <1>1
<1>4. \A c \in CPU : idle[c] \in Thread /\ idle[c] # migrator[k]
  BY SchedAssumption
<1>5. l \notin {"kick", "kicking", "wait", "block"}
  BY DEF MigPCs
<1>6. AskingInv'
  <2>1. \A u \in Task : u \in Thread /\ u # migrator[k]
    BY Kinds
  <2> QED BY <1>1, <1>2, <1>5, <2>1 DEF AskingInv
<1> QED BY <1>1, <1>2, <1>3, <1>4, <1>6

\* migration_thread setting its state before it looks at its queue keeps IInv.
LEMMA MigrationAwakeStep ==
  ASSUME IInv, NEW c \in CPU, NEW k \in CPU, MigrationAwake(c, k)
  PROVE  IInv'
<1>1. /\ state' = [state EXCEPT ![migrator[k]] = "I"]
      /\ pc' = [pc EXCEPT ![migrator[k]] = "loop"]
      /\ UNCHANGED <<cpu, allowed, onrq, rq, nrUnint, curr, newidle, resched,
                     waking, reqTask, reqDest, reqCpu, done, waiting, nudge, push, migq, handling>>
  BY DEF MigrationAwake, reqVars
<1>2. /\ pc' \in [Thread -> TaskPCs \cup MigPCs] /\ AskingInv'
      /\ \A d \in CPU : pc'[idle[d]] = "run"
  BY <1>1, MigratorLabel DEF MigPCs
<1>3. \A d \in CPU : idle[d] \in Thread /\ idle[d] # migrator[k]
  BY SchedAssumption
<1>4. state' \in [Thread -> {"R", "I", "U"}] /\ \A d \in CPU : state'[idle[d]] = "R"
  BY <1>1, <1>3 DEF IInv, TypeOK, IdleInv
<1>5. TypeOK'
  BY <1>1, <1>2, <1>4 DEF IInv, TypeOK
<1>6. IdleInv' /\ PeerInv'
  BY <1>1, <1>2, <1>4 DEF IInv, IdleInv, PeerInv
<1> QED BY <1>1, <1>2, <1>5, <1>6, StillPlace DEF IInv

\* migration_thread taking a request off its queue keeps IInv.
LEMMA TakeRequestStep ==
  ASSUME IInv, NEW c \in CPU, NEW k \in CPU, TakeRequest(c, k)
  PROVE  IInv'
<1>1. /\ push' = [push EXCEPT ![k] = NoCpu]
      /\ UNCHANGED <<state, allowed, onrq, nrUnint, curr, newidle, waking,
                     reqTask, reqDest, reqCpu, done, waiting, nudge>>
  BY DEF TakeRequest, reqVars
<1>2. Place' /\ cpu' \in [Thread -> CPU] /\ rq' \in [CPU -> SUBSET Thread]
      /\ resched' \in SUBSET Thread
  <2>1. CASE UNCHANGED <<cpu, rq, resched>>
    BY <1>1, <2>1, StillPlace DEF IInv, TypeOK
  <2>2. CASE /\ push[k] # NoCpu
             /\ \E t \in rq[k] : /\ CanMigrate(t, k, push[k])
                                 /\ PullTasks({t}, k, push[k], rq)
                                 /\ CheckPreempt(push[k], {t}, resched)
    <3>1. push[k] \in CPU /\ push[k] # k
      BY <2>2 DEF IInv, TypeOK, PeerInv
    <3>2. PICK t \in rq[k] : /\ CanMigrate(t, k, push[k])
                            /\ PullTasks({t}, k, push[k], rq)
                            /\ CheckPreempt(push[k], {t}, resched)
      BY <2>2
    <3>3. {t} \in SUBSET {u \in rq[k] : CanMigrate(u, k, push[k])}
      BY <3>2
    <3>4. resched' \in SUBSET Thread
      <4>1. curr[push[k]] \in Thread /\ resched \in SUBSET Thread
        BY <3>1 DEF IInv, TypeOK
      <4> QED BY <3>2, <4>1 DEF CheckPreempt
    <3> QED BY <1>1, <3>1, <3>2, <3>3, <3>4, PullPlace
  <2> QED BY <2>1, <2>2 DEF TakeRequest, ActiveLoadBalance
<1>3. /\ migq' \in [CPU -> Seq(Task)] /\ handling' \in [CPU -> Task \cup {NoThread}]
      /\ \E l \in MigPCs : pc' = [pc EXCEPT ![migrator[k]] = l]
  <2>1. migq \in [CPU -> Seq(Task)] /\ handling \in [CPU -> Task \cup {NoThread}]
    BY DEF IInv, TypeOK
  <2>2. CASE UNCHANGED <<migq, handling>> /\ pc' = [pc EXCEPT ![migrator[k]] = "sleep"]
    BY <2>1, <2>2 DEF MigPCs
  <2>3. CASE /\ migq[k] # <<>>
             /\ handling' = [handling EXCEPT ![k] = Head(migq[k])]
             /\ migq' = [migq EXCEPT ![k] = Tail(@)]
             /\ pc' = [pc EXCEPT ![migrator[k]] = "move"]
    <3>1. migq[k] \in Seq(Task)
      BY <2>1
    <3>2. Head(migq[k]) \in Task /\ Tail(migq[k]) \in Seq(Task)
      BY <2>3, <3>1, SMT
    <3> QED BY <2>1, <2>3, <3>2 DEF MigPCs
  <2> QED BY <2>2, <2>3 DEF TakeRequest
<1>4. /\ pc' \in [Thread -> TaskPCs \cup MigPCs] /\ AskingInv'
      /\ \A d \in CPU : pc'[idle[d]] = "run"
  BY <1>1, <1>3, MigratorLabel
<1>5. TypeOK'
  BY <1>1, <1>2, <1>3, <1>4 DEF IInv, TypeOK
<1>6. IdleInv'
  BY <1>1, <1>4 DEF IInv, IdleInv
<1>7. PeerInv'
  <2>1. NoCpu \notin CPU
    BY SchedAssumption
  <2> QED BY <1>1, <2>1 DEF IInv, PeerInv, TypeOK
<1> QED BY <1>2, <1>4, <1>5, <1>6, <1>7 DEF IInv

\* __migrate_task: the migration thread is the current one of the CPU it takes
\* the thread from, so the thread is not.
LEMMA MoveRequestedStep ==
  ASSUME IInv, HandlingInv, NEW c \in CPU, NEW k \in CPU, MoveRequested(c, k)
  PROVE  IInv'
<1> DEFINE p == reqTask[handling[k]]
           d == reqDest[handling[k]]
<1>1. c = k /\ curr[k] = migrator[k] /\ pc[migrator[k]] = "move"
  BY MigratingHome DEF MoveRequested, Migrating
<1>2. handling[k] \in Task
  BY <1>1 DEF HandlingInv
<1>3. p \in Task \cup {NoThread} /\ d \in CPU \cup {NoCpu}
  BY <1>2 DEF IInv, TypeOK
<1>4. /\ pc' = [pc EXCEPT ![migrator[k]] = "complete"]
      /\ UNCHANGED <<state, allowed, onrq, nrUnint, curr, newidle, waking, reqTask,
                     reqDest, reqCpu, done, waiting, nudge, push, migq, handling>>
  BY DEF MoveRequested, reqVars
<1>5. /\ pc' \in [Thread -> TaskPCs \cup MigPCs] /\ AskingInv'
      /\ \A e \in CPU : pc'[idle[e]] = "run"
  BY <1>4, MigratorLabel DEF MigPCs
<1>6. Place' /\ cpu' \in [Thread -> CPU] /\ rq' \in [CPU -> SUBSET Thread]
      /\ resched' \in SUBSET Thread
  <2>0. cpu \in [Thread -> CPU] /\ rq \in [CPU -> SUBSET Thread] /\ resched \in SUBSET Thread
        /\ allowed \in [Thread -> SUBSET CPU] /\ onrq \in SUBSET Thread
    BY DEF IInv, TypeOK
  <2>1. CASE UNCHANGED <<cpu, rq, resched>>
    BY <1>4, <2>0, <2>1, StillPlace
  <2>2. CASE /\ cpu[p] = k /\ d \in allowed[p] /\ p \in onrq
             /\ PullTasks({p}, k, d, rq) /\ CheckPreempt(d, {p}, resched)
    <3>1. p \in Thread /\ d \in CPU /\ curr[k] # p
      BY <1>1, <1>3, <2>0, <2>2, Kinds
    <3>2. p \in rq[k] /\ CanMigrate(p, k, d)
      BY <2>2, <3>1 DEF CanMigrate, IInv, Place, QueuedWhereItSays
    <3>3. resched' \in SUBSET Thread
      <4>1. curr[d] \in Thread
        BY <3>1 DEF IInv, TypeOK
      <4> QED BY <2>0, <2>2, <4>1 DEF CheckPreempt
    <3>4. CASE d # k
      <4>1. {p} \in SUBSET {u \in rq[k] : CanMigrate(u, k, d)}
        BY <3>2
      <4> QED BY <1>4, <2>2, <3>1, <3>3, <3>4, <4>1, PullPlace
    <3>5. CASE d = k
      <4>1. cpu' = cpu
        BY <2>0, <2>2, <3>1, <3>5 DEF PullTasks
      <4>2. rq' = rq
        BY <2>0, <2>2, <3>1, <3>2, <3>5 DEF PullTasks
      <4> QED BY <1>4, <2>0, <3>3, <4>1, <4>2, StillPlace
    <3> QED BY <3>4, <3>5
  <2>3. CASE /\ cpu[p] = k /\ d \in allowed[p] /\ p \notin onrq
             /\ cpu' = [cpu EXCEPT ![p] = d] /\ UNCHANGED <<rq, resched>>
    <3>1. CASE p = NoThread
      <4>0. p \notin Thread
        BY <3>1, SchedAssumption
      <4>1. cpu' = cpu
        BY <2>0, <2>3, <4>0
      <4> QED BY <1>4, <2>0, <2>3, <4>1, StillPlace
    <3>2. CASE p \in Task
      <4>1. p \in Thread /\ p \notin Idlers /\ d \in CPU /\ \A e \in CPU : p # migrator[e]
        BY <2>0, <2>3, <3>2, Kinds
      <4>2. ~Running(p)
        BY <1>1, <2>3, <4>1 DEF Running
      <4> QED BY <1>4, <2>0, <2>3, <4>1, <4>2, MovePlace
    <3> QED BY <1>3, <3>1, <3>2
  <2> QED BY <2>1, <2>2, <2>3 DEF MoveRequested
<1>7. TypeOK'
  BY <1>4, <1>5, <1>6 DEF IInv, TypeOK
<1>8. IdleInv' /\ PeerInv'
  BY <1>4, <1>5 DEF IInv, IdleInv, PeerInv
<1> QED BY <1>5, <1>6, <1>7, <1>8 DEF IInv

\* complete() of a migration request keeps IInv.
LEMMA CompleteStep ==
  ASSUME IInv, HandlingInv, NEW c \in CPU, NEW k \in CPU, Complete(c, k)
  PROVE  IInv'
<1> DEFINE m == migrator[k]
           t == handling[k]
<1>1. pc[m] \in {"complete", "completing"} /\ t \in Task /\ t \in Thread /\ t \notin Idlers
  BY Kinds DEF Complete, Migrating, HandlingInv
<1>2. done' \in [Task -> Nat]
  <2>1. done \in [Task -> Nat]
    BY DEF IInv, TypeOK
  <2>2. [done EXCEPT ![t] = @ + 1] \in [Task -> Nat]
    BY <1>1, <2>1, SMT
  <2> QED BY <2>1, <2>2 DEF Complete
<1>3. UNCHANGED <<allowed, curr, newidle, waking, reqTask, reqDest, reqCpu,
                  waiting, nudge, push, migq>>
  BY DEF Complete
<1>4. PICK l \in {"loop", "completing"} : pc' = [pc EXCEPT ![m] = l]
  BY DEF Complete
<1>5. /\ pc' \in [Thread -> TaskPCs \cup MigPCs] /\ AskingInv'
      /\ \A d \in CPU : pc'[idle[d]] = "run"
  BY <1>3, <1>4, MigratorLabel DEF MigPCs
<1>6. handling' \in [CPU -> Task \cup {NoThread}]
  BY DEF Complete, IInv, TypeOK
<1>7. /\ Place' /\ state' \in [Thread -> {"R", "I", "U"}] /\ cpu' \in [Thread -> CPU]
      /\ onrq' \in SUBSET Thread /\ rq' \in [CPU -> SUBSET Thread]
      /\ resched' \in SUBSET Thread /\ nrUnint' \in Int
      /\ \A d \in CPU : idle[d] \notin onrq' /\ state'[idle[d]] = "R"
  <2>1. CASE \/ WakeHere(t) /\ UNCHANGED cpu
             \/ WakeTo(c, t) /\ UNCHANGED <<state, onrq, rq, nrUnint, resched>>
    <3>1. waking' \in SUBSET (Thread \ Idlers)
      BY <1>3 DEF IInv, IdleInv
    <3> QED BY <1>1, <1>3, <2>1, <3>1, WakeFrame
  <2>2. CASE UNCHANGED <<state, cpu, onrq, rq, nrUnint, resched>>
    BY <1>3, <2>2, StillPlace DEF IInv, TypeOK, IdleInv
  <2> QED BY <2>1, <2>2 DEF Complete
<1>8. TypeOK'
  BY <1>2, <1>3, <1>5, <1>6, <1>7 DEF IInv, TypeOK
<1>9. IdleInv' /\ PeerInv'
  BY <1>3, <1>5, <1>7 DEF IInv, IdleInv, PeerInv
<1> QED BY <1>5, <1>7, <1>8, <1>9 DEF IInv

-----------------------------------------------------------------------------
\* A migration thread takes a request before it moves anything, and lets go of
\* it only on its way back to the queue.
LEMMA HandlingStep ==
  ASSUME IInv, HandlingInv, [Next]_vars
  PROVE  HandlingInv'
<1> DEFINE Busy == {"move", "complete", "completing"}
<1>1. \A k \in CPU : migrator[k] \in Thread /\ migrator[k] \notin Task
  BY Kinds
<1>2. \A k, j \in CPU : migrator[k] = migrator[j] => k = j
  BY Kinds
<1>3. /\ pc \in [Thread -> TaskPCs \cup MigPCs] /\ migq \in [CPU -> Seq(Task)]
      /\ handling \in [CPU -> Task \cup {NoThread}]
  BY DEF IInv, TypeOK
<1>4. ASSUME UNCHANGED handling,
             \A k \in CPU : pc'[migrator[k]] \in Busy => pc[migrator[k]] \in Busy
      PROVE  HandlingInv'
  BY <1>4 DEF HandlingInv
<1>5. ASSUME NEW c \in CPU, Kick(c) \/ WaitForCompletion(c) \/ (\E d \in CPU : SchedExec(c, d))
               \/ \E p \in Task, m \in Masks : SetCpusAllowed(c, p, m)
      PROVE  HandlingInv'
  <2>1. UNCHANGED handling
    BY <1>5 DEF Kick, WaitForCompletion, SchedExec, SetCpusAllowed
  <2>2. curr[c] \in Thread
    BY CurrentFacts
  <2>3. curr[c] \in Task
    BY <1>5, <2>2, SchedAssumption
       DEF Kick, WaitForCompletion, SchedExec, SetCpusAllowed, IInv, AskingInv
  <2>4. pc' = pc \/ \E l \in TaskPCs : pc' = [pc EXCEPT ![curr[c]] = l]
    BY <1>5 DEF Kick, WaitForCompletion, SchedExec, SetCpusAllowed, MigrateTask, TaskPCs
  <2>5. \A k \in CPU : pc'[migrator[k]] = pc[migrator[k]]
    BY <1>1, <1>3, <2>3, <2>4
  <2> QED BY <1>4, <2>1, <2>5
<1>6. ASSUME NEW c \in CPU, Schedule(c) PROVE HandlingInv'
  <2>1. UNCHANGED handling
    BY <1>6 DEF Schedule, Reschedule
  <2>2. curr[c] \in Thread
    BY CurrentFacts
  <2>3. pc' = [pc EXCEPT ![curr[c]] = CASE @ = "block" -> "wait"
                                        [] @ = "sleep" -> "awake"
                                        [] OTHER -> @]
    BY <1>6 DEF Schedule
  <2>4. \A k \in CPU : pc'[migrator[k]] \in Busy => pc[migrator[k]] \in Busy
    BY <1>1, <1>3, <2>2, <2>3
  <2> QED BY <1>4, <2>1, <2>4
<1>7. ASSUME NEW c \in CPU, NEW k \in CPU,
             MigrationAwake(c, k) \/ TakeRequest(c, k) \/ MoveRequested(c, k) \/ Complete(c, k)
      PROVE  HandlingInv'
  <2>1. CASE MigrationAwake(c, k)
    BY <1>1, <1>3, <1>4, <2>1 DEF MigrationAwake
  <2>2. CASE TakeRequest(c, k)
    <3>1. CASE UNCHANGED handling /\ pc' = [pc EXCEPT ![migrator[k]] = "sleep"]
      BY <1>1, <1>3, <1>4, <3>1
    <3>2. CASE /\ migq[k] # <<>> /\ handling' = [handling EXCEPT ![k] = Head(migq[k])]
               /\ pc' = [pc EXCEPT ![migrator[k]] = "move"]
      <4>1. Head(migq[k]) \in Task
        BY <1>3, <3>2, SMT
      <4> QED BY <1>1, <1>2, <1>3, <3>2, <4>1 DEF HandlingInv
    <3> QED BY <2>2, <3>1, <3>2 DEF TakeRequest
  <2>3. CASE MoveRequested(c, k)
    BY <1>1, <1>3, <1>4, <2>3 DEF MoveRequested, Migrating
  <2>4. CASE Complete(c, k)
    <3>1. pc[migrator[k]] \in Busy
      BY <2>4 DEF Complete, Migrating
    <3>2. CASE pc' = [pc EXCEPT ![migrator[k]] = "completing"] /\ UNCHANGED handling
      BY <1>1, <1>3, <1>4, <3>1, <3>2
    <3>3. CASE /\ pc' = [pc EXCEPT ![migrator[k]] = "loop"]
               /\ handling' = [handling EXCEPT ![k] = NoThread]
      BY <1>1, <1>2, <1>3, <3>3 DEF HandlingInv
    <3> QED BY <2>4, <3>2, <3>3 DEF Complete
  <2> QED BY <1>7, <2>1, <2>2, <2>3, <2>4
<1>8. ASSUME NEW c \in CPU, SetState(c) \/ InterruptStep(c) PROVE HandlingInv'
  <2>1. UNCHANGED <<handling, pc>>
    BY <1>8 DEF SetState, InterruptStep, Preempt, Reschedule, NewIdle, Tick, LoadBalance,
                Nudge, ActiveBalance, Wake
  <2> QED BY <1>4, <2>1
<1>9. ASSUME NEW p \in Thread, WakeMoved(p) PROVE HandlingInv'
  <2>1. UNCHANGED <<handling, pc>>
    BY <1>9 DEF WakeMoved
  <2> QED BY <1>4, <2>1
<1>10. CASE UNCHANGED vars
  BY <1>10 DEF vars, HandlingInv
<1> QED BY <1>5, <1>6, <1>7, <1>8, <1>9, <1>10 DEF Next, ThreadStep

\* Every step preserves the invariant.
LEMMA NextStep ==
  ASSUME IInv, HandlingInv, [Next]_vars
  PROVE  IInv' /\ HandlingInv'
<1>1. CASE UNCHANGED vars
  BY <1>1 DEF vars, reqVars, IInv, HandlingInv, TypeOK, Place, QueuedWhereItSays, CurrentInv,
              HomeInv, IdleInv, PeerInv, AskingInv
<1>2. ASSUME NEW c \in CPU, ThreadStep(c) PROVE IInv'
  BY <1>2, ScheduleStep, SetStateStep, KickStep, WaitForCompletionStep, SchedExecStep,
     SetCpusAllowedStep, MigrationAwakeStep, TakeRequestStep, MoveRequestedStep, CompleteStep
     DEF ThreadStep
<1>3. ASSUME NEW c \in CPU, InterruptStep(c) PROVE IInv'
  BY <1>3, PreemptStep, NewIdleStep, TickStep, LoadBalanceStep, NudgeStep,
     ActiveBalanceStep, WakeStep DEF InterruptStep
<1> QED BY <1>1, <1>2, <1>3, WakeMovedStep, HandlingStep DEF Next

\* The invariant holds in every reachable state.
THEOREM Invariant == MigratorsHome /\ Spec => [](IInv /\ HandlingInv)
<1>1. MigratorsHome /\ Init => IInv /\ HandlingInv
  <2> SUFFICES ASSUME MigratorsHome, Init PROVE HandlingInv
    BY InitIInv
  <2>1. \A t \in Thread : pc[t] \in {"awake", "run"}
    BY DEF Init
  <2> QED BY <2>1, Kinds DEF HandlingInv
<1>2. IInv /\ HandlingInv /\ [Next]_vars => (IInv /\ HandlingInv)'
  BY NextStep
<1> QED BY <1>1, <1>2, PTL DEF Spec

\* The types of the scheduler's state, with the migration threads home.
THEOREM SchedTypes == MigratorsHome /\ Spec => []TypeOK
<1>1. IInv => TypeOK
  BY DEF IInv
<1> QED BY <1>1, Invariant, PTL

\* With the migration threads home no thread runs on two CPUs: curr of a CPU is
\* its idle thread, or a thread whose p->cpu is that CPU, queued there. Before,
\* __migrate_task may move a thread that executes (create_system_task).
THEOREM RunsOnOneCpu == MigratorsHome /\ Spec => []OneCpu
<1>1. IInv => OneCpu
  BY Kinds DEF IInv, Place, CurrentInv, OneCpu
<1> QED BY <1>1, Invariant, PTL

\* With the migration threads home on_rq, p->cpu and the queues agree, whatever
\* wakeups, pulls and migrations interleave.
THEOREM QueuesAgree == MigratorsHome /\ Spec => []QueuedWhereItSays
<1>1. IInv => QueuedWhereItSays
  BY DEF IInv, Place
<1> QED BY <1>1, Invariant, PTL

\* Once the migration threads are home, the comment at core.c:3326 is right: a
\* thread about to be moved by __migrate_task is not executing.
THEOREM HomeForcesOff == MigratorsHome /\ Spec => []MigrationForcesOff
<1>1. IInv /\ HandlingInv => MigrationForcesOff
  <2> SUFFICES ASSUME IInv, HandlingInv, NEW c \in CPU, NEW k \in CPU,
                      Migrating(c, k, "move")
               PROVE  curr[k] # reqTask[handling[k]]
    BY DEF MigrationForcesOff
  <2>1. curr[k] = migrator[k] /\ pc[migrator[k]] = "move"
    BY MigratingHome DEF Migrating
  <2>2. reqTask[handling[k]] \in Task \cup {NoThread}
    BY <2>1 DEF HandlingInv, IInv, TypeOK
  <2> QED BY <2>1, <2>2, Kinds
<1> QED BY <1>1, Invariant, PTL
=============================================================================
