---------------------------- MODULE MutexProofs ----------------------------
(***************************************************************************)
(* Mutual exclusion and the absence of stranded waiters for any number of   *)
(* threads.  IInv adds what the slow paths know while they hold wait_lock:  *)
(* after its exchange a new owner finds count negative until it stores 0,   *)
(* and a waiter that sleeps leaves either a negative count behind or        *)
(* somebody who is awake.                                                   *)
(***************************************************************************)
EXTENDS Mutex, SequenceTheorems, TLAPS

\* A new owner that has not yet stored 0 sees only decrements, as nobody else
\* can unlock; one that tried in vain may see the owner's increment as well.
GotInv ==
  \A t \in Thread :
    /\ pc[t] \in {"got", "trygot"} => count < 0
    /\ pc[t] = "trymissed" =>
         count < 0 \/ (count = 0 /\ \E u \in Thread : pc[u] = "release")

\* A thread that waits and a count that no longer says so: a waiter is awake,
\* or the thread that unlocks has its wakeup before it.
AwakeInv ==
  waitList # <<>> /\ count >= 0 =>
    \/ \E i \in 1..Len(waitList) : state[waitList[i]] = "R"
    \/ \E t \in Thread : pc[t] \in {"release", "wake"}

\* wait_lock is held at these labels
LockInv ==
  \A t \in Thread :
    pc[t] \in {"loop", "got", "trygot", "trymissed", "wake"} => waitLock = t

IInv == /\ MutexTypeOK /\ MutualExclusion /\ OneIsUnlocked
        /\ GotInv /\ AwakeInv /\ LockInv

-----------------------------------------------------------------------------
\* A leaf goes to Zenon, and to the SMT solver where it says so.
USE Zenon

\* mutex_remove_waiter leaves a list of threads
LEMMA UnlinkType ==
  ASSUME waitList \in Seq(Thread), NEW t \in Thread, Unlink(t)
  PROVE  waitList' \in Seq(Thread)
<1>1. PICK i \in 1..Len(waitList) : waitList' = RemoveAt(waitList, i)
  BY DEF Unlink
<1>2. SubSeq(waitList, 1, i - 1) \in Seq(Thread)
  BY SubSeqProperties, SMT
<1>3. SubSeq(waitList, i + 1, Len(waitList)) \in Seq(Thread)
  BY SubSeqProperties, SMT
<1> QED BY <1>1, <1>2, <1>3, SMT DEF RemoveAt

\* A step of one thread preserves the types
LEMMA TypeStep ==
  ASSUME MutexTypeOK, OneIsUnlocked, MutexNext
  PROVE  MutexTypeOK'
<1> USE MutexAssumption DEF Goto, Acquire, Release, Labels
<1>1. ASSUME NEW t \in Thread, Lock(t) \/ Trylock(t) \/ Slowly(t)
      PROVE  MutexTypeOK'
  <2>1. CASE LockSlow(t) BY <2>1, SMT DEF LockSlow, MutexTypeOK
  <2>2. CASE LoopInterrupted(t)
    <3>1. waitList' \in Seq(Thread) BY <2>2, UnlinkType DEF LoopInterrupted, MutexTypeOK
    <3> QED BY <2>2, <3>1, SMT DEF LoopInterrupted, MutexTypeOK
  <2>3. CASE LockDone(t)
    <3>1. waitList' \in Seq(Thread) BY <2>3, UnlinkType DEF LockDone, MutexTypeOK
    <3> QED BY <2>3, <3>1, SMT DEF LockDone, MutexTypeOK
  <2>4. CASE UnlockWake(t) BY <2>4 DEF UnlockWake, MutexTypeOK
  <2>5. CASE Schedule(t) BY <2>5 DEF Schedule, MutexTypeOK
  <2>6. CASE Lock(t) \/ Trylock(t) \/ TrylockDone(t)
    BY <2>6, SMT DEF Lock, Trylock, TrylockDone, MutexTypeOK
  <2>7. CASE LoopGets(t) \/ LoopSleeps(t) \/ Awake(t) \/ UnlockSlow(t)
    BY <2>7, SMT DEF LoopGets, LoopSleeps, Awake, UnlockSlow, MutexTypeOK
  <2> QED BY <1>1, <2>1, <2>2, <2>3, <2>4, <2>5, <2>6, <2>7 DEF Slowly
<1>2. ASSUME NEW t \in Thread, Unlock(t)
      PROVE  MutexTypeOK'
  <2>1. count # 1 BY <1>2 DEF Unlock, OneIsUnlocked, Owner
  <2> QED BY <1>2, <2>1, SMT DEF Unlock, MutexTypeOK
<1>3. ASSUME NEW t \in Interruptible, Signal(t) \/ Deliver(t)
      PROVE  MutexTypeOK'
  BY <1>3 DEF Signal, Deliver, MutexTypeOK
<1> QED BY <1>1, <1>2, <1>3 DEF MutexNext

\* A step keeps the owner unique and count 1 exactly when there is none: only a
\* thread that saw 1 becomes an owner, and only the owner stores 1.
LEMMA OwnerStep ==
  ASSUME IInv, MutexNext
  PROVE  MutualExclusion' /\ OneIsUnlocked' /\ GotInv'
<1> USE MutexAssumption DEF Goto, Acquire, Release
<1>0. MutexTypeOK /\ MutualExclusion /\ OneIsUnlocked /\ GotInv /\ LockInv
  BY DEF IInv
<1>1. ASSUME NEW t \in Thread,
             Lock(t) \/ LockSlow(t) \/ LoopGets(t) \/ Trylock(t)
      PROVE  MutualExclusion' /\ OneIsUnlocked' /\ GotInv'
  BY <1>0, <1>1, SMT
  DEF Lock, LockSlow, LoopGets, Trylock, MutexTypeOK, Labels, Owner,
      MutualExclusion, OneIsUnlocked, GotInv, LockInv
<1>2. ASSUME NEW t \in Thread, LoopInterrupted(t) \/ LoopSleeps(t) \/ Awake(t)
      PROVE  MutualExclusion' /\ OneIsUnlocked' /\ GotInv'
  BY <1>0, <1>2, SMT
  DEF LoopInterrupted, LoopSleeps, Awake, MutexTypeOK, Labels, Owner,
      MutualExclusion, OneIsUnlocked, GotInv, LockInv
<1>3. ASSUME NEW t \in Thread, Schedule(t)
      PROVE  MutualExclusion' /\ OneIsUnlocked' /\ GotInv'
  BY <1>0, <1>3, SMT
  DEF Schedule, MutexTypeOK, Labels, Owner, MutualExclusion, OneIsUnlocked, GotInv,
      LockInv
<1>4. ASSUME NEW t \in Thread, LockDone(t) \/ TrylockDone(t)
      PROVE  MutualExclusion' /\ OneIsUnlocked' /\ GotInv'
  BY <1>0, <1>4, SMT
  DEF LockDone, TrylockDone, MutexTypeOK, Labels, Owner, MutualExclusion,
      OneIsUnlocked, GotInv, LockInv
<1>5. ASSUME NEW t \in Thread, Unlock(t) \/ UnlockSlow(t) \/ UnlockWake(t)
      PROVE  MutualExclusion' /\ OneIsUnlocked' /\ GotInv'
  BY <1>0, <1>5, SMT
  DEF Unlock, UnlockSlow, UnlockWake, MutexTypeOK, Labels, Owner, MutualExclusion,
      OneIsUnlocked, GotInv, LockInv
<1>6. ASSUME NEW t \in Interruptible, Signal(t) \/ Deliver(t)
      PROVE  MutualExclusion' /\ OneIsUnlocked' /\ GotInv'
  BY <1>0, <1>6
  DEF Signal, Deliver, Owner, MutualExclusion, OneIsUnlocked, GotInv, LockInv
<1> QED BY <1>1, <1>2, <1>3, <1>4, <1>5, <1>6 DEF MutexNext, Slowly

\* wait_lock is held by one thread, at the labels that say so
LEMMA LockStep ==
  ASSUME MutexTypeOK, LockInv, MutexNext
  PROVE  LockInv'
<1> USE MutexAssumption DEF Goto, Acquire, Release, MutexTypeOK, LockInv
<1>1. ASSUME NEW t \in Thread, Lock(t) \/ Trylock(t) \/ Unlock(t)
      PROVE  LockInv'
  BY <1>1 DEF Lock, Trylock, Unlock
<1>2. ASSUME NEW t \in Thread,
             LockSlow(t) \/ LoopGets(t) \/ LoopInterrupted(t) \/ LoopSleeps(t)
      PROVE  LockInv'
  BY <1>2, SMT DEF LockSlow, LoopGets, LoopInterrupted, LoopSleeps
<1>3. ASSUME NEW t \in Thread, Schedule(t) \/ Awake(t) \/ LockDone(t)
      PROVE  LockInv'
  BY <1>3, SMT DEF Schedule, Awake, LockDone
<1>4. ASSUME NEW t \in Thread, TrylockDone(t) \/ UnlockSlow(t) \/ UnlockWake(t)
      PROVE  LockInv'
  BY <1>4 DEF TrylockDone, UnlockSlow, UnlockWake
<1>5. ASSUME NEW t \in Interruptible, Signal(t) \/ Deliver(t)
      PROVE  LockInv'
  BY <1>5 DEF Signal, Deliver
<1> QED BY <1>1, <1>2, <1>3, <1>4, <1>5 DEF MutexNext, Slowly

\* A step never strands a waiter
LEMMA AwakeStep ==
  ASSUME IInv, MutexNext
  PROVE  AwakeInv'
<1> USE MutexAssumption DEF Goto, Acquire, Release
<1>0. MutexTypeOK /\ MutualExclusion /\ GotInv /\ AwakeInv BY DEF IInv
<1>1. ASSUME NEW t \in Thread, LockSlow(t) \/ LoopGets(t) \/ Trylock(t)
                              \/ LoopInterrupted(t) \/ LoopSleeps(t)
      PROVE  AwakeInv'
  <2>1. count' = -1
    BY <1>1 DEF LockSlow, LoopGets, Trylock, LoopInterrupted, LoopSleeps
  <2> QED BY <2>1, SMT DEF AwakeInv
<1>2. ASSUME NEW t \in Thread, Lock(t) \/ Awake(t) \/ UnlockSlow(t)
      PROVE  AwakeInv'
  BY <1>0, <1>2, SMT DEF Lock, Awake, UnlockSlow, MutexTypeOK, AwakeInv
<1>3. ASSUME NEW t \in Thread, Schedule(t)
      PROVE  AwakeInv'
  BY <1>0, <1>3, SMT DEF Schedule, MutexTypeOK, AwakeInv
<1>4. ASSUME NEW t \in Thread, LockDone(t) \/ TrylockDone(t)
      PROVE  AwakeInv'
  <2>1. CASE waitList' = <<>> BY <2>1 DEF AwakeInv
  <2>2. CASE waitList' # <<>>
    BY <1>0, <1>4, <2>2, SMT DEF LockDone, TrylockDone, MutexTypeOK, GotInv, AwakeInv
  <2> QED BY <2>1, <2>2
<1>5. ASSUME NEW t \in Thread, Unlock(t)
      PROVE  AwakeInv'
  <2>1. CASE count + 1 <= 0
    BY <1>0, <1>5, <2>1 DEF Unlock, MutexTypeOK, AwakeInv
  <2>2. CASE count + 1 > 0
    BY <1>0, <1>5, <2>2, SMT DEF Unlock, MutexTypeOK, AwakeInv, MutualExclusion, Owner
  <2> QED BY <1>0, <2>1, <2>2, SMT DEF MutexTypeOK
<1>6. ASSUME NEW t \in Thread, UnlockWake(t)
      PROVE  AwakeInv'
  <2>1. CASE waitList = <<>> BY <1>6, <2>1 DEF UnlockWake, AwakeInv
  <2>2. CASE waitList # <<>>
    <3>1. /\ 1 \in 1..Len(waitList) /\ Head(waitList) = waitList[1]
          /\ waitList[1] \in Thread
      BY <1>0, <2>2, SMT DEF MutexTypeOK
    <3>2. state'[waitList'[1]] = "R" /\ waitList' = waitList
      BY <1>0, <1>6, <2>2, <3>1 DEF UnlockWake, MutexTypeOK
    <3> QED BY <3>1, <3>2 DEF AwakeInv
  <2> QED BY <2>1, <2>2
<1>7. ASSUME NEW t \in Interruptible, Signal(t) \/ Deliver(t)
      PROVE  AwakeInv'
  BY <1>0, <1>7 DEF Signal, Deliver, AwakeInv
<1> QED BY <1>1, <1>2, <1>3, <1>4, <1>5, <1>6, <1>7 DEF MutexNext, Slowly

-----------------------------------------------------------------------------
\* The inductive invariant holds in every reachable state
LEMMA Invariant == MutexSpec => []IInv
<1>1. MutexInit => IInv
  BY MutexAssumption, SMT
  DEF MutexInit, IInv, MutexTypeOK, Labels, Owner, MutualExclusion, OneIsUnlocked, GotInv,
      AwakeInv, LockInv
<1>2. IInv /\ [MutexNext]_mutexVars => IInv'
  <2>1. CASE MutexNext BY <2>1, TypeStep, OwnerStep, LockStep, AwakeStep DEF IInv
  <2>2. CASE UNCHANGED mutexVars
    BY <2>2 DEF mutexVars, IInv, MutexTypeOK, Owner, MutualExclusion, OneIsUnlocked,
                GotInv, AwakeInv, LockInv
  <2> QED BY <2>1, <2>2
<1> QED BY <1>1, <1>2, PTL DEF MutexSpec

\* The types of the mutex, count never above 1 included
THEOREM MutexTypes == MutexSpec => []MutexTypeOK
<1>1. IInv => MutexTypeOK BY DEF IInv
<1> QED BY <1>1, Invariant, PTL

\* Two threads never own the mutex of mutex.c at once, for any number of
\* threads and any mixture of the fast, slow, interruptible and trylock paths
THEOREM Exclusive == MutexSpec => []MutualExclusion
<1>1. IInv => MutualExclusion BY DEF IInv
<1> QED BY <1>1, Invariant, PTL

\* count is 1 exactly while nobody owns the mutex: mutex_is_locked is right
THEOREM IsLockedRight == MutexSpec => []OneIsUnlocked
<1>1. IInv => OneIsUnlocked BY DEF IInv
<1> QED BY <1>1, Invariant, PTL

\* No waiter is left asleep by an unlock that wakes nobody, for any number of
\* threads
THEOREM WaitersRemembered == MutexSpec => []NoStrandedWaiter
<1>1. IInv => NoStrandedWaiter
  <2>1. SUFFICES ASSUME IInv, waitLock = NoThread, waitList # <<>>, count >= 0
                 PROVE  NoStrandedWaiter
    BY DEF NoStrandedWaiter
  <2>2. \A t \in Thread : pc[t] # "wake"
    BY <2>1, MutexAssumption DEF IInv, LockInv
  <2> QED BY <2>1, <2>2 DEF IInv, AwakeInv, NoStrandedWaiter
<1> QED BY <1>1, Invariant, PTL

=============================================================================
