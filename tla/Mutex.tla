------------------------------- MODULE Mutex -------------------------------
(***************************************************************************)
(* The sleeping lock of kernel/core/locking/mutex.c over the decrement and  *)
(* increment fast paths of asm-generic/mutex-dec.h.  A step is one atomic   *)
(* operation on count, with the work under wait_lock that follows it: the   *)
(* fast paths never take wait_lock, so every operation on count may fall    *)
(* between two operations of the thread that holds it.                      *)
(***************************************************************************)
EXTENDS Integers, Sequences, SequencesExt

CONSTANTS
  Thread,
  Interruptible,   \* the threads that call mutex_lock_interruptible
  NoThread

ASSUME MutexAssumption == Interruptible \subseteq Thread /\ NoThread \notin Thread

VARIABLES
  count,      \* lock->count: 1 unlocked, 0 locked, negative with waiters
  waitLock,   \* the thread that holds lock->wait_lock
  waitList,   \* lock->wait_list
  state,      \* task->state: "R" running, "S" the state it waits in
  signal,     \* the threads with TIF_SIGPENDING set
  pc

mutexVars == <<count, waitLock, waitList, state, signal, pc>>

\* __mutex_init
MutexInit ==
  /\ count = 1
  /\ waitLock = NoThread
  /\ waitList = <<>>
  /\ state = [t \in Thread |-> "R"]
  /\ signal = {}
  /\ pc = [t \in Thread |-> "idle"]

Goto(t, l) == pc' = [pc EXCEPT ![t] = l]

Acquire(t) == waitLock = NoThread /\ waitLock' = t

Release == waitLock' = NoThread

\* mutex_remove_waiter
Unlink(t) ==
  \E i \in 1..Len(waitList) :
    waitList[i] = t /\ waitList' = RemoveAt(waitList, i)

-----------------------------------------------------------------------------
\* As Lock, taking a mutex that was not unlocked
LockAnyway(t) ==
  /\ pc[t] = "idle"
  /\ count' = count - 1
  /\ Goto(t, IF count >= 0 THEN "held" ELSE "slow")
  /\ UNCHANGED <<waitLock, waitList, state, signal>>

\* __mutex_fastpath_lock
Lock(t) ==
  /\ pc[t] = "idle"
  /\ count' = count - 1
  /\ Goto(t, IF count - 1 < 0 THEN "slow" ELSE "held")
  /\ UNCHANGED <<waitLock, waitList, state, signal>>

\* __mutex_lock_common: join the list and try for the first time
LockSlow(t) ==
  /\ pc[t] = "slow"
  /\ Acquire(t)
  /\ waitList' = Append(waitList, t)
  /\ count' = -1
  /\ Goto(t, IF count = 1 THEN "got" ELSE "loop")
  /\ UNCHANGED <<state, signal>>

\* A turn of the loop that finds the mutex unlocked
LoopGets(t) ==
  /\ pc[t] = "loop"
  /\ count = 1
  /\ count' = -1
  /\ Goto(t, "got")
  /\ UNCHANGED <<waitLock, waitList, state, signal>>

\* A turn that finds it locked and a signal pending: -EINTR
LoopInterrupted(t) ==
  /\ pc[t] = "loop"
  /\ count # 1
  /\ t \in Interruptible \cap signal
  /\ count' = -1
  /\ Unlink(t)
  /\ Release
  /\ Goto(t, "idle")
  /\ UNCHANGED <<state, signal>>

\* A turn that finds it locked, as far as the call of schedule
LoopSleeps(t) ==
  /\ pc[t] = "loop"
  /\ count # 1
  /\ t \notin Interruptible \cap signal
  /\ count' = -1
  /\ state' = [state EXCEPT ![t] = "S"]
  /\ Release
  /\ Goto(t, "schedule")
  /\ UNCHANGED <<waitList, signal>>

\* schedule: a thread with a signal pending does not go to sleep
Schedule(t) ==
  /\ pc[t] = "schedule"
  /\ state[t] = "S"
  /\ IF t \in Interruptible \cap signal
       THEN state' = [state EXCEPT ![t] = "R"] /\ UNCHANGED pc
       ELSE Goto(t, "asleep") /\ UNCHANGED state
  /\ UNCHANGED <<count, waitLock, waitList, signal>>

\* The return from schedule
Awake(t) ==
  /\ pc[t] \in {"schedule", "asleep"}
  /\ state[t] = "R"
  /\ Acquire(t)
  /\ Goto(t, "loop")
  /\ UNCHANGED <<count, waitList, state, signal>>

\* As LockDone, always resetting count
LockDoneZero(t) ==
  /\ pc[t] = "got"
  /\ Unlink(t)
  /\ count' = 0
  /\ Release
  /\ Goto(t, "held")
  /\ UNCHANGED <<state, signal>>

\* The done label of __mutex_lock_common
LockDone(t) ==
  /\ pc[t] = "got"
  /\ Unlink(t)
  /\ count' = IF waitList' = <<>> THEN 0 ELSE count
  /\ Release
  /\ Goto(t, "held")
  /\ UNCHANGED <<state, signal>>

-----------------------------------------------------------------------------
\* __mutex_trylock_slowpath, as far as the exchange
Trylock(t) ==
  /\ pc[t] = "idle"
  /\ Acquire(t)
  /\ count' = -1
  /\ Goto(t, IF count = 1 THEN "trygot" ELSE "trymissed")
  /\ UNCHANGED <<waitList, state, signal>>

\* The rest of __mutex_trylock_slowpath
TrylockDone(t) ==
  /\ pc[t] \in {"trygot", "trymissed"}
  /\ count' = IF waitList = <<>> THEN 0 ELSE count
  /\ Release
  /\ Goto(t, IF pc[t] = "trygot" THEN "held" ELSE "idle")
  /\ UNCHANGED <<waitList, state, signal>>

\* __mutex_fastpath_unlock
Unlock(t) ==
  /\ pc[t] = "held"
  /\ count' = count + 1
  /\ Goto(t, IF count + 1 <= 0 THEN "release" ELSE "idle")
  /\ UNCHANGED <<waitLock, waitList, state, signal>>

\* __mutex_unlock_common_slowpath, as far as the store of 1
UnlockSlow(t) ==
  /\ pc[t] = "release"
  /\ Acquire(t)
  /\ count' = 1
  /\ Goto(t, "wake")
  /\ UNCHANGED <<waitList, state, signal>>

\* The wakeup of the first waiter
UnlockWake(t) ==
  /\ pc[t] = "wake"
  /\ state' = IF waitList = <<>> THEN state
                                 ELSE [state EXCEPT ![Head(waitList)] = "R"]
  /\ Release
  /\ Goto(t, "idle")
  /\ UNCHANGED <<count, waitList, signal>>

\* do_send_signal from another thread: the flag is set, nobody is woken
Signal(t) ==
  /\ t \notin signal
  /\ pc[t] # "idle"
  /\ signal' = signal \cup {t}
  /\ UNCHANGED <<count, waitLock, waitList, state, pc>>

\* get_signal, on the way back to user mode
Deliver(t) ==
  /\ t \in signal
  /\ pc[t] = "idle"
  /\ signal' = signal \ {t}
  /\ UNCHANGED <<count, waitLock, waitList, state, pc>>

-----------------------------------------------------------------------------
Slowly(t) ==
  \/ LockSlow(t) \/ LoopGets(t) \/ LoopInterrupted(t) \/ LoopSleeps(t)
  \/ Schedule(t) \/ Awake(t) \/ LockDone(t)
  \/ TrylockDone(t) \/ UnlockSlow(t) \/ UnlockWake(t)

MutexNext ==
  \/ \E t \in Thread : Lock(t) \/ Trylock(t) \/ Unlock(t) \/ Slowly(t)
  \/ \E t \in Interruptible : Signal(t) \/ Deliver(t)

MutexSpec == MutexInit /\ [][MutexNext]_mutexVars

\* A thread inside the lock's code goes on.  Nothing obliges a thread to take
\* the mutex, nor one that holds it to give it back within any time.
\* wait_lock is a queued spinlock: who waits for it gets it.
MutexFairSpec == MutexSpec /\ \A t \in Thread : SF_mutexVars(Slowly(t))

-----------------------------------------------------------------------------
Labels == {"idle", "slow", "loop", "schedule", "asleep", "got", "held",
           "trygot", "trymissed", "release", "wake"}

\* Threads that took the mutex and have not yet given it back
Owner == {t \in Thread : pc[t] \in {"got", "trygot", "held", "release"}}

MutexTypeOK ==
  /\ count \in Int /\ count <= 1
  /\ waitLock \in Thread \cup {NoThread}
  /\ waitList \in Seq(Thread)
  /\ state \in [Thread -> {"R", "S"}]
  /\ signal \subseteq Interruptible
  /\ pc \in [Thread -> Labels]

\* mutex_lock "Lock the mutex exclusively for this task", mutex.c:59: two
\* threads never own it, whichever of the three ways in each of them took.
MutualExclusion == \A t, u \in Owner : t = u

\* "1: unlocked, 0: locked, negative: locked", mutex.h:21, which
\* mutex_is_locked relies on: count is 1 exactly when nobody owns the mutex.
OneIsUnlocked == count = 1 <=> Owner = {}

\* A waiter is never forgotten.  The owner's unlock wakes somebody only when it
\* finds count negative; so when count is not negative and a thread waits,
\* either a waiter is awake and will exchange count itself, or the thread that
\* unlocks is on its way to the wakeup.
NoStrandedWaiter ==
  waitLock = NoThread /\ waitList # <<>> /\ count >= 0 =>
    \/ \E i \in 1..Len(waitList) : state[waitList[i]] = "R"
    \/ \E t \in Thread : pc[t] = "release"

=============================================================================
