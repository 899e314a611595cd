----------------------------- MODULE QSpinlock -----------------------------
(***************************************************************************)
(* The queued spinlock of kernel/core/locking/qspinlock.c: one lock word    *)
(* (tail, pending, locked) and one queue node per CPU.  A step is one       *)
(* atomic access to the word or to a node, in a sequentially consistent     *)
(* memory; the configuration has less than 16K CPUs, so the pending byte    *)
(* and the tail are stored and exchanged on their own.  A CPU holds or      *)
(* waits for the lock in one context at a time.                             *)
(***************************************************************************)
EXTENDS Naturals

CONSTANTS CPU, None

ASSUME QSpinlockAssumption == None \notin CPU

VARIABLES
  tail,      \* lock->tail: the CPU whose node is last in the queue
  pending,   \* lock->pending
  locked,    \* lock->locked
  next,      \* node->next
  granted,   \* node->locked: this node was handed the head of the queue
  prev,      \* the local variable prev
  val,       \* the local variable val: a copy of the word
  at

word == <<tail, pending, locked>>
spinVars == <<word, next, granted, prev, val, at>>

Unlocked == <<None, FALSE, FALSE>>
Pending == <<None, TRUE, FALSE>>

Contended(w) == w[1] # None \/ w[2]

SpinInit ==
  /\ tail = None /\ pending = FALSE /\ locked = FALSE
  /\ next = [c \in CPU |-> None]
  /\ granted = [c \in CPU |-> FALSE]
  /\ prev = [c \in CPU |-> None]
  /\ val = [c \in CPU |-> Unlocked]
  /\ at = [c \in CPU |-> "idle"]

SpinGoto(c, l) == at' = [at EXCEPT ![c] = l]

\* The local val is not read again.  Dead values are reset, here as in prev,
\* granted and next below, to keep states apart only by what a step can read.
Dead(c) == val' = [val EXCEPT ![c] = Unlocked]

SetWord(t, p, l) == tail' = t /\ pending' = p /\ locked' = l

-----------------------------------------------------------------------------
\* queued_spin_lock
SpinLock(c) ==
  /\ at[c] = "idle"
  /\ \/ /\ word = Unlocked
        /\ locked' = TRUE
        /\ SpinGoto(c, "held")
        /\ UNCHANGED val
     \/ /\ word # Unlocked
        /\ val' = [val EXCEPT ![c] = word]
        /\ SpinGoto(c, "slow")
        /\ UNCHANGED locked
  /\ UNCHANGED <<tail, pending, next, granted, prev>>

\* queued_spin_lock_slowpath: one more look at a word that is being handed from
\* pending to locked, then the test for contention
Look(c) ==
  /\ at[c] = "slow"
  /\ LET v == IF val[c] = Pending THEN word ELSE val[c]
     IN  SpinGoto(c, IF Contended(v) THEN "queue" ELSE "fetch")
  /\ Dead(c)
  /\ UNCHANGED <<word, next, granted, prev>>

\* queued_fetch_set_pending_acquire and the decision on the old word
FetchSetPending(c) ==
  /\ at[c] = "fetch"
  /\ pending' = TRUE
  /\ SpinGoto(c, IF Contended(word) THEN (IF pending THEN "queue" ELSE "undo")
             ELSE IF locked THEN "spin" ELSE "take")
  /\ UNCHANGED <<tail, locked, next, granted, prev, val>>

\* As ClearPending, trying the pending bit again
ClearPendingRetry(c) ==
  /\ at[c] = "undo"
  /\ pending' = FALSE
  /\ SpinGoto(c, "fetch")
  /\ UNCHANGED <<tail, locked, next, granted, prev, val>>

\* clear_pending
ClearPending(c) ==
  /\ at[c] = "undo"
  /\ pending' = FALSE
  /\ SpinGoto(c, "queue")
  /\ UNCHANGED <<tail, locked, next, granted, prev, val>>

\* As PendingWait, without the wait
PendingNoWait(c) ==
  /\ at[c] = "spin"
  /\ SpinGoto(c, "take")
  /\ UNCHANGED <<word, next, granted, prev, val>>

\* The pending CPU waits for the owner to go away
PendingWait(c) ==
  /\ at[c] = "spin"
  /\ ~locked
  /\ SpinGoto(c, "take")
  /\ UNCHANGED <<word, next, granted, prev, val>>

\* clear_pending_set_locked
PendingTake(c) ==
  /\ at[c] = "take"
  /\ SetWord(tail, FALSE, TRUE)
  /\ SpinGoto(c, "held")
  /\ UNCHANGED <<next, granted, prev, val>>

-----------------------------------------------------------------------------
\* The queue label: take and initialise the node, try once more
Queue(c) ==
  /\ at[c] = "queue"
  /\ granted' = [granted EXCEPT ![c] = FALSE]
  /\ next' = [next EXCEPT ![c] = None]
  /\ \/ word = Unlocked /\ locked' = TRUE /\ SpinGoto(c, "held")
     \/ word # Unlocked /\ UNCHANGED locked /\ SpinGoto(c, "join")
  /\ UNCHANGED <<tail, pending, prev, val>>

\* xchg_tail
XchgTail(c) ==
  /\ at[c] = "join"
  /\ tail' = c
  /\ prev' = [prev EXCEPT ![c] = tail]
  /\ SpinGoto(c, IF tail = None THEN "head" ELSE "link")
  /\ UNCHANGED <<pending, locked, next, granted, val>>

\* WRITE_ONCE(prev->next, node)
Link(c) ==
  /\ at[c] = "link"
  /\ next' = [next EXCEPT ![prev[c]] = c]
  /\ SpinGoto(c, "wait")
  /\ UNCHANGED <<word, granted, prev, val>>

\* arch_mcs_spin_lock_contended
Granted(c) ==
  /\ at[c] = "wait"
  /\ granted[c]
  /\ granted' = [granted EXCEPT ![c] = FALSE]
  /\ prev' = [prev EXCEPT ![c] = None]
  /\ SpinGoto(c, "head")
  /\ UNCHANGED <<word, next, val>>

\* The head of the queue waits for the owner and the pending CPU
HeadWait(c) ==
  /\ at[c] = "head"
  /\ ~pending /\ ~locked
  /\ val' = [val EXCEPT ![c] = word]
  /\ SpinGoto(c, "claim")
  /\ UNCHANGED <<word, next, granted, prev>>

\* Claim the lock: alone in the queue and nobody pending, empty the queue with
\* it; else set_locked
Claim(c) ==
  /\ at[c] = "claim"
  /\ \/ /\ val[c][1] = c /\ word = val[c]
        /\ SetWord(None, FALSE, TRUE)
        /\ SpinGoto(c, "held")
     \/ /\ val[c][1] # c \/ word # val[c]
        /\ SpinGoto(c, "setlocked")
        /\ UNCHANGED word
  /\ Dead(c)
  /\ UNCHANGED <<next, granted, prev>>

\* set_locked
SetLocked(c) ==
  /\ at[c] = "setlocked"
  /\ locked' = TRUE
  /\ SpinGoto(c, "pass")
  /\ UNCHANGED <<tail, pending, next, granted, prev, val>>

\* Wait for the next node and hand it the head of the queue
Pass(c) ==
  /\ at[c] = "pass"
  /\ next[c] # None
  /\ granted' = [granted EXCEPT ![next[c]] = TRUE]
  /\ next' = [next EXCEPT ![c] = None]
  /\ SpinGoto(c, "held")
  /\ UNCHANGED <<word, prev, val>>

\* As Unlock, storing the whole half word
SpinUnlockPending(c) ==
  /\ at[c] = "held"
  /\ SetWord(tail, FALSE, FALSE)
  /\ SpinGoto(c, "idle")
  /\ UNCHANGED <<next, granted, prev, val>>

\* queued_spin_unlock
SpinUnlock(c) ==
  /\ at[c] = "held"
  /\ locked' = FALSE
  /\ SpinGoto(c, "idle")
  /\ UNCHANGED <<tail, pending, next, granted, prev, val>>

-----------------------------------------------------------------------------
Locking(c) ==
  \/ Look(c) \/ FetchSetPending(c) \/ ClearPending(c)
  \/ PendingWait(c) \/ PendingTake(c)
  \/ Queue(c) \/ XchgTail(c) \/ Link(c) \/ Granted(c)
  \/ HeadWait(c) \/ Claim(c) \/ SetLocked(c) \/ Pass(c)

SpinNext == \E c \in CPU : SpinLock(c) \/ Locking(c) \/ SpinUnlock(c)

SpinSpec == SpinInit /\ [][SpinNext]_spinVars

\* A CPU that spins executes, and a critical section ends: it runs with
\* preemption off.  Nothing obliges a CPU to take the lock.
SpinFairSpec == SpinSpec /\ \A c \in CPU : WF_spinVars(Locking(c)) /\ WF_spinVars(SpinUnlock(c))

-----------------------------------------------------------------------------
Waiting == {"link", "wait", "head", "claim", "setlocked", "pass"}

SpinLabels == {"idle", "slow", "fetch", "undo", "spin", "take", "queue", "join",
           "held"} \cup Waiting

Word == (CPU \cup {None}) \X BOOLEAN \X BOOLEAN

SpinTypeOK ==
  /\ word \in Word
  /\ next \in [CPU -> CPU \cup {None}]
  /\ granted \in [CPU -> BOOLEAN]
  /\ prev \in [CPU -> CPU \cup {None}]
  /\ val \in [CPU -> Word]
  /\ at \in [CPU -> SpinLabels]

\* CPUs that own the lock; one that passes the queue on already does
SpinOwner == {c \in CPU : at[c] \in {"held", "pass"}}

\* Two CPUs are never inside the lock, by whichever of the fast path, the
\* pending bit and the queue they came.
SpinExclusion == \A c, d \in SpinOwner : c = d

\* The CPU that waits with the pending bit is the only one, so the plain stores
\* of clear_pending and clear_pending_set_locked overwrite nobody else's bit.
OnePending ==
  \A c, d \in CPU : at[c] \in {"spin", "take", "undo"}
                 /\ at[d] \in {"spin", "take", "undo"} => c = d /\ pending

\* A node is linked only behind a node that is still in the queue: prev did not
\* leave, and did not come back with a fresh node, since xchg_tail returned it.
LinkToWaiting ==
  \A c \in CPU : at[c] = "link" =>
    /\ at[prev[c]] \in Waiting
    /\ next[prev[c]] = None
    /\ \A d \in CPU \ {c} : at[d] \in {"link", "wait"} /\ ~granted[d] =>
                              prev[d] # prev[c]

\* "Either somebody is queued behind us or _Q_PENDING_VAL got set which will then
\* detect the remaining tail and queue behind us ensuring we'll see a @next": a
\* CPU that waits for its successor has one on its way.
SuccessorExists ==
  \A c \in CPU : at[c] = "pass" /\ next[c] = None =>
    \/ \E d \in CPU : at[d] = "link" /\ prev[d] = c
    \/ tail = c /\ \E d \in CPU : at[d] \in {"undo", "queue", "join"}

\* Every CPU that wants the lock gets it, also against CPUs that keep coming.
Acquires == \A c \in CPU : at[c] = "slow" ~> at[c] = "held"

=============================================================================
