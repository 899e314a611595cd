-------------------------- MODULE QSpinlockProofs --------------------------
(***************************************************************************)
(* The queued spinlock for any number of CPUs.  SpinInv says what the word  *)
(* and the nodes mean: the pending bit belongs to the one CPU that set it,  *)
(* the locked byte to the owner, and the CPUs with a node form one queue    *)
(* q[lo..hi-1], linked from the head to the tail.  A CPU that joins moves   *)
(* hi and one that leaves moves lo, so the others keep their place.         *)
(***************************************************************************)
EXTENDS QSpinlock, TLAPS

\* The queue: q[lo..hi-1] are the CPUs with a node in it, first to last, ...
Members(q, lo, hi) ==
  /\ lo <= hi
  /\ \A i \in Nat : lo <= i /\ i < hi => q[i] \in CPU /\ at[q[i]] \in Waiting
  /\ \A c \in CPU : at[c] \in Waiting => \E i \in Nat : lo <= i /\ i < hi /\ q[i] = c
  /\ \A i, j \in Nat : lo <= i /\ i < hi /\ lo <= j /\ j < hi /\ q[i] = q[j] => i = j

\* ... the tail is the last one, which knows of no successor, ...
LastIsTail(q, lo, hi) ==
  /\ tail = IF lo = hi THEN None ELSE q[hi - 1]
  /\ lo < hi => next[q[hi - 1]] = None

\* ... only the first has the head of the queue, or has been granted it, ...
FirstIsHead(q, lo, hi) ==
  /\ lo < hi => at[q[lo]] # "link" /\ (at[q[lo]] = "wait" => granted[q[lo]])
  /\ \A c \in CPU : granted[c] => at[c] = "wait" /\ lo < hi /\ c = q[lo]

\* ... and the others wait behind their predecessor, which knows them from the
\* moment they linked themselves.
Linked(q, lo, hi) ==
  /\ \A i \in Nat : lo < i /\ i < hi =>
       /\ at[q[i]] \in {"link", "wait"}
       /\ prev[q[i]] = q[i - 1]
       /\ next[q[i - 1]] = IF at[q[i]] = "link" THEN None ELSE q[i]
  /\ \A c \in CPU : at[c] = "join" => next[c] = None

Chain(q, lo, hi) ==
  /\ Members(q, lo, hi) /\ LastIsTail(q, lo, hi)
  /\ FirstIsHead(q, lo, hi) /\ Linked(q, lo, hi)

QueueInv == \E lo, hi \in Nat : \E q \in [Nat -> CPU \cup {None}] : Chain(q, lo, hi)

\* The pending bit belongs to the one CPU that set it
PendingInv ==
  /\ OnePending
  /\ pending => \E c \in CPU : at[c] \in {"spin", "take", "undo"}

\* The locked byte belongs to the owner, and whoever is about to set it finds
\* it clear.
LockedInv ==
  /\ SpinExclusion
  /\ locked <=> SpinOwner # {}
  /\ \A c \in CPU : at[c] = "take" => ~locked
  /\ \A c \in CPU : at[c] \in {"claim", "setlocked"} =>
       ~locked /\ \A d \in CPU : at[d] \notin {"spin", "take"}

\* What the head of the queue knows of the tail after it compared it
ClaimInv ==
  \A c \in CPU :
    /\ at[c] = "claim" => /\ ~val[c][2] /\ ~val[c][3]
                          /\ val[c][1] # c => tail # c
    /\ at[c] \in {"setlocked", "pass"} =>
         tail # c \/ \E d \in CPU : at[d] \in {"undo", "queue", "join"}

SpinInv == SpinTypeOK /\ QueueInv /\ PendingInv /\ LockedInv /\ ClaimInv

-----------------------------------------------------------------------------
Heads == {"head", "claim", "setlocked", "pass"}

\* A leaf goes to Zenon, and to the SMT solver where it says so.
USE Zenon

\* A CPU with a node in the queue keeps the tail from being empty, and there is
\* one head.
LEMMA QueueFacts ==
  ASSUME SpinTypeOK, QueueInv
  PROVE  /\ \A c \in CPU : at[c] \in Waiting => tail # None
         /\ \A c, d \in CPU : at[c] \in Heads /\ at[d] \in Heads => c = d
<1>1. PICK lo, hi \in Nat, q \in [Nat -> CPU \cup {None}] : Chain(q, lo, hi)
  BY DEF QueueInv
<1>2. \A c \in CPU : at[c] \in Waiting => tail # None
  <2> SUFFICES ASSUME NEW c \in CPU, at[c] \in Waiting PROVE tail # None
    OBVIOUS
  <2>1. PICK i \in Nat : lo <= i /\ i < hi /\ q[i] = c
    BY <1>1 DEF Chain, Members, LastIsTail, FirstIsHead, Linked
  <2>2. q[hi - 1] \in CPU
    BY <1>1, <2>1, SMT DEF Chain, Members, LastIsTail, FirstIsHead, Linked
  <2> QED BY <1>1, <2>1, <2>2, QSpinlockAssumption, SMT DEF Chain, Members, LastIsTail, FirstIsHead, Linked
<1>3. ASSUME NEW c \in CPU, at[c] \in Heads PROVE c = q[lo]
  <2>1. PICK i \in Nat : lo <= i /\ i < hi /\ q[i] = c
    BY <1>1, <1>3 DEF Chain, Members, LastIsTail, FirstIsHead, Linked, Heads, Waiting
  <2>2. ~(lo < i)
    BY <1>1, <1>3, <2>1 DEF Chain, Members, LastIsTail, FirstIsHead, Linked, Heads
  <2> QED BY <2>1, <2>2, SMT
<1> QED BY <1>2, <1>3

\* Every step keeps the types
LEMMA SpinTypeStep ==
  ASSUME SpinTypeOK, QueueInv, SpinNext
  PROVE  SpinTypeOK'
<1> USE QSpinlockAssumption DEF SpinTypeOK, word, Word, SpinLabels, Waiting, SpinGoto, Dead, SetWord, Unlocked
<1>1. PICK c \in CPU : SpinLock(c) \/ Locking(c) \/ SpinUnlock(c)
  BY DEF SpinNext
<1>2. CASE SpinLock(c)
  <2>1. CASE word = Unlocked BY <1>2, <2>1 DEF SpinLock
  <2>2. CASE word # Unlocked
    <3>1. word \in Word OBVIOUS
    <3>2. val' \in [CPU -> Word] BY <1>2, <2>2, <3>1 DEF SpinLock
    <3> QED BY <1>2, <2>2, <3>2 DEF SpinLock
  <2> QED BY <2>1, <2>2
<1>3. CASE Look(c) BY <1>3 DEF Look
<1>4. CASE FetchSetPending(c) \/ ClearPending(c) \/ PendingWait(c) \/ PendingTake(c)
  BY <1>4 DEF FetchSetPending, ClearPending, PendingWait, PendingTake
<1>5. CASE Queue(c) BY <1>5 DEF Queue
<1>6. CASE XchgTail(c) BY <1>6 DEF XchgTail
<1>7. CASE Link(c) BY <1>7 DEF Link
<1>8. CASE Granted(c) BY <1>8 DEF Granted
<1>9. CASE HeadWait(c) BY <1>9 DEF HeadWait
<1>10. CASE Claim(c) BY <1>10 DEF Claim
<1>11. CASE SetLocked(c) BY <1>11 DEF SetLocked
<1>12. CASE Pass(c) BY <1>12 DEF Pass
<1>13. CASE SpinUnlock(c) BY <1>13 DEF SpinUnlock
<1> QED BY <1>1, <1>2, <1>3, <1>4, <1>5, <1>6, <1>7, <1>8, <1>9, <1>10, <1>11, <1>12, <1>13
        DEF Locking

\* A step keeps the pending bit with the one CPU that set it
LEMMA PendingStep ==
  ASSUME SpinTypeOK, PendingInv, ClaimInv, SpinNext
  PROVE  PendingInv'
<1> USE QSpinlockAssumption DEF PendingInv, OnePending, SpinTypeOK, word, SpinGoto, SetWord
<1>1. PICK c \in CPU : SpinLock(c) \/ Locking(c) \/ SpinUnlock(c)
  BY DEF SpinNext
<1>2. CASE SpinLock(c) BY <1>2, SMT DEF SpinLock
<1>3. CASE Look(c) BY <1>3 DEF Look
<1>4. CASE FetchSetPending(c) BY <1>4, SMT DEF FetchSetPending, Contended
<1>5. CASE ClearPending(c) BY <1>5 DEF ClearPending
<1>6. CASE PendingWait(c) BY <1>6, SMT DEF PendingWait
<1>7. CASE PendingTake(c) BY <1>7 DEF PendingTake
<1>8. CASE Queue(c) BY <1>8, SMT DEF Queue
<1>9. CASE XchgTail(c) \/ Link(c) \/ Granted(c) \/ SetLocked(c) \/ Pass(c) \/ SpinUnlock(c)
  BY <1>9, SMT DEF XchgTail, Link, Granted, SetLocked, Pass, SpinUnlock
<1>10. CASE HeadWait(c) BY <1>10 DEF HeadWait
<1>11. CASE Claim(c)
  <2>1. \A d \in CPU : (at[d] \in {"spin", "take", "undo"})' <=> at[d] \in {"spin", "take", "undo"}
    BY <1>11, SMT DEF Claim
  <2>2. CASE word # val[c] \/ val[c][1] # c BY <1>11, <2>1, <2>2, SMT DEF Claim
  <2>3. CASE word = val[c]
    <3>1. ~pending BY <1>11, <2>3, SMT DEF Claim, ClaimInv
    <3> QED BY <1>11, <2>1, <3>1, SMT DEF Claim
  <2> QED BY <2>2, <2>3
<1> QED BY <1>1, <1>2, <1>3, <1>4, <1>5, <1>6, <1>7, <1>8, <1>9, <1>10, <1>11 DEF Locking

\* A step keeps the locked byte with the owner
LEMMA LockedStep ==
  ASSUME SpinTypeOK, QueueInv, PendingInv, LockedInv, SpinNext
  PROVE  LockedInv'
<1>0. /\ \A c \in CPU : at[c] \in {"claim", "setlocked"} => tail # None
      /\ \A c, d \in CPU : at[c] \in {"claim", "setlocked"} /\ at[d] \in {"head", "claim", "setlocked"} => c = d
  BY QueueFacts DEF Heads, Waiting
<1> USE QSpinlockAssumption DEF SpinTypeOK, word, SpinGoto, SetWord
<1>1. PICK c \in CPU : SpinLock(c) \/ Locking(c) \/ SpinUnlock(c)
  BY DEF SpinNext
<1>2. CASE SpinLock(c)
  <2>1. CASE word = Unlocked
    <3>1. tail = None /\ ~pending /\ ~locked BY <2>1 DEF Unlocked
    <3>2. \A d \in CPU : at[d] \notin {"spin", "take", "claim", "setlocked", "held", "pass"}
      BY <1>0, <3>1 DEF PendingInv, OnePending, LockedInv, SpinOwner
    <3> QED BY <1>2, <2>1, <3>2, SMT DEF SpinLock, LockedInv, SpinExclusion, SpinOwner
  <2>2. CASE word # Unlocked
    BY <1>2, <2>2, SMT DEF SpinLock, LockedInv, SpinExclusion, SpinOwner
  <2> QED BY <2>1, <2>2
<1>3. CASE Look(c) BY <1>3 DEF Look, LockedInv, SpinExclusion, SpinOwner
<1>4. CASE FetchSetPending(c) BY <1>0, <1>4, SMT DEF FetchSetPending, Contended, LockedInv, SpinExclusion, SpinOwner
<1>5. CASE ClearPending(c) BY <1>5 DEF ClearPending, LockedInv, SpinExclusion, SpinOwner
<1>6. CASE PendingWait(c) BY <1>6, SMT DEF PendingWait, LockedInv, SpinExclusion, SpinOwner
<1>7. CASE PendingTake(c) BY <1>7, SMT DEF PendingTake, LockedInv, SpinExclusion, SpinOwner, PendingInv, OnePending
<1>8. CASE Queue(c)
  <2>1. CASE word = Unlocked
    <3>1. tail = None /\ ~pending /\ ~locked BY <2>1 DEF Unlocked
    <3>2. \A d \in CPU : at[d] \notin {"spin", "take", "claim", "setlocked", "held", "pass"}
      BY <1>0, <3>1 DEF PendingInv, OnePending, LockedInv, SpinOwner
    <3> QED BY <1>8, <2>1, <3>2, SMT DEF Queue, LockedInv, SpinExclusion, SpinOwner
  <2>2. CASE word # Unlocked
    BY <1>8, <2>2, SMT DEF Queue, LockedInv, SpinExclusion, SpinOwner
  <2> QED BY <2>1, <2>2
<1>9. CASE XchgTail(c) \/ Link(c) \/ Granted(c)
  BY <1>9, SMT DEF XchgTail, Link, Granted, LockedInv, SpinExclusion, SpinOwner
<1>10. CASE HeadWait(c) BY <1>10 DEF HeadWait, LockedInv, SpinExclusion, SpinOwner, PendingInv, OnePending
<1>11. CASE Claim(c) BY <1>0, <1>11, SMT DEF Claim, LockedInv, SpinExclusion, SpinOwner
<1>12. CASE SetLocked(c) BY <1>0, <1>12 DEF SetLocked, LockedInv, SpinExclusion, SpinOwner
<1>13. CASE Pass(c) BY <1>13, SMT DEF Pass, LockedInv, SpinExclusion, SpinOwner
<1>14. CASE SpinUnlock(c) BY <1>14, SMT DEF SpinUnlock, LockedInv, SpinExclusion, SpinOwner
<1> QED BY <1>1, <1>2, <1>3, <1>4, <1>5, <1>6, <1>7, <1>8, <1>9, <1>10, <1>11, <1>12, <1>13, <1>14
        DEF Locking

\* A step keeps what the head of the queue knows
LEMMA ClaimStep ==
  ASSUME SpinTypeOK, QueueInv, PendingInv, LockedInv, ClaimInv, SpinNext
  PROVE  ClaimInv'
<1>0. \A c \in CPU : at[c] \in Waiting => tail # None
  BY QueueFacts
<1> USE QSpinlockAssumption DEF SpinTypeOK, word, Word, SpinGoto, SetWord, Dead
<1>1. PICK c \in CPU : SpinLock(c) \/ Locking(c) \/ SpinUnlock(c)
  BY DEF SpinNext
<1>2. CASE SpinLock(c) BY <1>2, SMT DEF SpinLock, ClaimInv
<1>3. CASE Look(c) BY <1>3 DEF Look, ClaimInv
<1>4. CASE FetchSetPending(c) BY <1>4 DEF FetchSetPending, ClaimInv
<1>6. CASE PendingWait(c) \/ PendingTake(c) BY <1>6, SMT DEF PendingWait, PendingTake, ClaimInv
<1>7. CASE SpinUnlock(c) BY <1>7 DEF SpinUnlock, ClaimInv
<1>5. CASE ClearPending(c) BY <1>5 DEF ClearPending, ClaimInv
<1>8. CASE Queue(c)
  <2>1. \A d \in CPU : at[d] \in {"setlocked", "pass"} => word # Unlocked
    BY <1>0 DEF Unlocked, Waiting
  <2> QED BY <1>8, <2>1, SMT DEF Queue, ClaimInv
<1>9. CASE XchgTail(c) BY <1>9 DEF XchgTail, ClaimInv
<1>10. CASE Link(c) \/ Granted(c) BY <1>10, SMT DEF Link, Granted, ClaimInv
<1>11. CASE HeadWait(c) BY <1>11 DEF HeadWait, ClaimInv
<1>12. CASE Claim(c)
  <2>1. CASE val[c][1] = c /\ word = val[c]
    BY <1>12, <2>1, SMT DEF Claim, ClaimInv
  <2>2. CASE val[c][1] # c \/ word # val[c]
    <3>1. tail # c \/ pending
      BY <1>12, <2>2, SMT DEF Claim, ClaimInv, LockedInv
    <3>2. tail # c \/ \E d \in CPU : at[d] = "undo"
      BY <1>12, <3>1 DEF Claim, PendingInv, LockedInv
    <3>3. at' = [at EXCEPT ![c] = "setlocked"] /\ UNCHANGED word
      BY <1>12, <2>2 DEF Claim
    <3>4. \A d \in CPU \ {c} : val'[d] = val[d] BY <1>12 DEF Claim
    <3>5. \A d \in CPU : at[d] \in {"undo", "queue", "join"} => at'[d] \in {"undo", "queue", "join"}
      BY <1>12, <3>3 DEF Claim
    <3>6. \A d \in CPU \ {c} : at'[d] = at[d] BY <3>3
    <3>7. tail' = tail /\ at'[c] = "setlocked" BY <3>3
    <3> QED BY <3>2, <3>4, <3>5, <3>6, <3>7, SMT DEF ClaimInv
  <2> QED BY <2>1, <2>2
<1>13. CASE SetLocked(c) BY <1>13 DEF SetLocked, ClaimInv
<1>14. CASE Pass(c) BY <1>14 DEF Pass, ClaimInv
<1> QED BY <1>1, <1>2, <1>3, <1>4, <1>5, <1>6, <1>7, <1>8, <1>9, <1>10, <1>11, <1>12, <1>13, <1>14
        DEF Locking

\* A step keeps the queue: a CPU joins behind the last one, links itself to it,
\* and leaves from the front.
LEMMA QueueStep ==
  ASSUME SpinInv, SpinNext
  PROVE  QueueInv'
<1>0. SpinTypeOK /\ QueueInv /\ PendingInv /\ LockedInv /\ ClaimInv
  BY DEF SpinInv
<1>1. PICK lo, hi \in Nat, q \in [Nat -> CPU \cup {None}] : Chain(q, lo, hi)
  BY <1>0 DEF QueueInv
<1>2. PICK c \in CPU : SpinLock(c) \/ Locking(c) \/ SpinUnlock(c)
  BY DEF SpinNext
<1>3. SUFFICES \E r \in [Nat -> CPU \cup {None}] : \E a, b \in Nat : Chain(r, a, b)'
  BY DEF QueueInv
<1> USE QSpinlockAssumption DEF SpinTypeOK, SpinGoto, SetWord, Waiting
\* steps outside the queue
<1>4. ASSUME UNCHANGED <<tail, prev>>, at[c] \notin Waiting, at'[c] \notin Waiting,
             \A d \in CPU \ {c} : at'[d] = at[d] /\ next'[d] = next[d] /\ granted'[d] = granted[d],
             ~granted'[c], at'[c] = "join" => next'[c] = None
      PROVE  Chain(q, lo, hi)'
  <2>1. Members(q, lo, hi)' BY <1>0, <1>1, <1>4 DEF Chain, Members
  <2>2. LastIsTail(q, lo, hi)' BY <1>0, <1>1, <1>4, SMT DEF Chain, Members, LastIsTail
  <2>3. FirstIsHead(q, lo, hi)' BY <1>0, <1>1, <1>4, SMT DEF Chain, Members, FirstIsHead
  <2>4. Linked(q, lo, hi)' BY <1>0, <1>1, <1>4, SMT DEF Chain, Members, Linked
  <2> QED BY <2>1, <2>2, <2>3, <2>4 DEF Chain
<1>14. ~granted[c] \/ at[c] = "wait" BY <1>1 DEF Chain, FirstIsHead
<1>5. CASE SpinLock(c) \/ Look(c) \/ FetchSetPending(c) \/ ClearPending(c) \/ PendingWait(c)
           \/ PendingTake(c) \/ SpinUnlock(c)
  <2>1. /\ UNCHANGED <<tail, prev, next, granted>> /\ at[c] \notin Waiting
        /\ \A d \in CPU \ {c} : at'[d] = at[d]
        /\ at'[c] \notin Waiting \cup {"join"}
    BY <1>0, <1>5
    DEF SpinLock, Look, FetchSetPending, ClearPending, PendingWait, PendingTake, SpinUnlock, word
  <2> QED BY <1>0, <1>1, <1>4, <1>14, <2>1
<1>6. CASE Queue(c)
  BY <1>0, <1>4, <1>6 DEF Queue
<1>7. CASE XchgTail(c)
  <2> DEFINE r == [q EXCEPT ![hi] = c]
  <2>1. r \in [Nat -> CPU \cup {None}] /\ r[hi] = c /\ \A i \in Nat : i # hi => r[i] = q[i]
    OBVIOUS
  <2> HIDE DEF r
  <2>2. /\ at[c] = "join" /\ tail' = c /\ prev'[c] = tail
        /\ \A d \in CPU \ {c} : at'[d] = at[d] /\ prev'[d] = prev[d]
        /\ at'[c] = IF tail = None THEN "head" ELSE "link"
        /\ UNCHANGED <<next, granted>>
    BY <1>0, <1>7 DEF XchgTail
  <2>3. \A i \in Nat : lo <= i /\ i < hi => q[i] \in CPU \ {c}
    BY <1>1, <2>2 DEF Chain, Members
  <2>4. Members(r, lo, hi + 1)' BY <1>1, <2>1, <2>2, <2>3, SMT DEF Chain, Members
  <2>5. LastIsTail(r, lo, hi + 1)' BY <1>0, <1>1, <2>1, <2>2, <2>3, SMT DEF Chain, Members, LastIsTail, Linked
  <2>6. FirstIsHead(r, lo, hi + 1)' BY <1>0, <1>1, <2>1, <2>2, <2>3, SMT DEF Chain, Members, LastIsTail, FirstIsHead
  <2>7. Linked(r, lo, hi + 1)'
    BY <1>0, <1>1, <2>1, <2>2, <2>3, SMT DEF Chain, Members, LastIsTail, Linked
  <2>8. Chain(r, lo, hi + 1)' BY <2>4, <2>5, <2>6, <2>7 DEF Chain
  <2> QED BY <2>1, <2>8, SMT
\* steps of a CPU in the queue that leave its members alone
<1>15. ASSUME UNCHANGED tail, at[c] \in Waiting, at'[c] \in Waiting,
              \A d \in CPU \ {c} : at'[d] = at[d]
       PROVE  Members(q, lo, hi)'
  BY <1>0, <1>1, <1>15 DEF Chain, Members
<1>17. Members(q, lo, hi) /\ LastIsTail(q, lo, hi) /\ FirstIsHead(q, lo, hi) /\ Linked(q, lo, hi)
  BY <1>1 DEF Chain
<1>18. ASSUME \A i \in Nat : lo < i /\ i < hi =>
                at'[q[i]] = at[q[i]] /\ prev'[q[i]] = prev[q[i]] /\ next'[q[i - 1]] = next[q[i - 1]],
              \A d \in CPU : at'[d] = "join" => at[d] = "join" /\ next'[d] = next[d]
       PROVE  Linked(q, lo, hi)'
  <2>1. ASSUME NEW i \in Nat, lo < i, i < hi
        PROVE  /\ at'[q[i]] \in {"link", "wait"} /\ prev'[q[i]] = q[i - 1]
               /\ next'[q[i - 1]] = IF at'[q[i]] = "link" THEN None ELSE q[i]
    <3>1. /\ at[q[i]] \in {"link", "wait"} /\ prev[q[i]] = q[i - 1]
          /\ next[q[i - 1]] = IF at[q[i]] = "link" THEN None ELSE q[i]
      BY <1>17, <2>1 DEF Linked
    <3> QED BY <1>18, <2>1, <3>1
  <2>2. \A d \in CPU : at'[d] = "join" => next'[d] = None
    BY <1>17, <1>18 DEF Linked
  <2> QED BY <2>1, <2>2 DEF Linked
<1>8. CASE Link(c)
  <2>1. PICK i \in Nat : lo < i /\ i < hi /\ q[i] = c
    BY <1>0, <1>1, <1>8, SMT DEF Link, Chain, Members, FirstIsHead
  <2>9. prev[c] = q[i - 1] /\ q[i - 1] \in CPU
    <3>1. prev[c] = q[i - 1] BY <1>17, <2>1 DEF Linked
    <3>2. q[i - 1] \in CPU BY <1>17, <2>1, SMT DEF Members
    <3> QED BY <3>1, <3>2
  <2>2. /\ at[c] = "link" /\ at'[c] = "wait" /\ \A d \in CPU \ {c} : at'[d] = at[d]
        /\ next' = [next EXCEPT ![q[i - 1]] = c] /\ UNCHANGED <<tail, granted, prev>>
    BY <1>0, <1>8, <2>9 DEF Link, word
  <2>3. ASSUME NEW j \in Nat, lo < j, j < hi, j # i
        PROVE  next'[q[j - 1]] = next[q[j - 1]] /\ at'[q[j]] = at[q[j]]
    <3>1. Members(q, lo, hi) BY <1>1 DEF Chain
    <3>2. j - 1 \in Nat /\ i - 1 \in Nat /\ lo <= j - 1 /\ j - 1 < hi /\ lo <= i - 1 /\ i - 1 < hi
      BY <2>1, <2>3, SMT
    <3>3. q[j] \in CPU /\ q[j] # c /\ q[j - 1] \in CPU /\ q[j - 1] # q[i - 1]
      BY <2>1, <2>3, <3>1, <3>2, SMT DEF Members
    <3> QED BY <1>0, <2>2, <2>9, <3>3
  <2>4. Members(q, lo, hi)' BY <1>15, <2>2
  <2>5. LastIsTail(q, lo, hi)' BY <1>0, <1>1, <2>1, <2>2, <2>9, SMT DEF Chain, Members, LastIsTail
  <2>6. FirstIsHead(q, lo, hi)' BY <1>0, <1>1, <2>1, <2>2, SMT DEF Chain, Members, FirstIsHead
  <2>7. Linked(q, lo, hi)'
    <3>1. Linked(q, lo, hi) /\ Members(q, lo, hi)
      BY <1>1 DEF Chain
    <3>2. ASSUME NEW j \in Nat, lo < j, j < hi, j # i
          PROVE  /\ at'[q[j]] \in {"link", "wait"} /\ prev'[q[j]] = q[j - 1]
                 /\ next'[q[j - 1]] = IF at'[q[j]] = "link" THEN None ELSE q[j]
      BY <2>2, <2>3, <3>1, <3>2, SMT DEF Linked
    <3>3. /\ at'[q[i]] \in {"link", "wait"} /\ prev'[q[i]] = q[i - 1]
          /\ next'[q[i - 1]] = IF at'[q[i]] = "link" THEN None ELSE q[i]
      BY <1>0, <2>1, <2>2, <2>9
    <3>4. ASSUME NEW d \in CPU, at'[d] = "join" PROVE next'[d] = None
      <4>1. at[d] = "join" /\ at[q[i - 1]] \in Waiting
        BY <2>1, <2>2, <3>1, <3>4, SMT DEF Members
      <4> QED BY <1>0, <2>2, <2>9, <3>1, <4>1 DEF Linked
    <3> QED BY <3>2, <3>3, <3>4 DEF Linked
  <2>8. Chain(q, lo, hi)' BY <2>4, <2>5, <2>6, <2>7 DEF Chain
  <2> QED BY <2>8
<1>16. ASSUME at[c] \in Heads PROVE lo < hi /\ q[lo] = c
  <2>1. PICK i \in Nat : lo <= i /\ i < hi /\ q[i] = c
    BY <1>1, <1>16 DEF Chain, Members, Heads
  <2>2. ~(lo < i)
    BY <1>1, <1>16, <2>1 DEF Chain, Linked, Heads
  <2> QED BY <2>1, <2>2, SMT
<1>9. CASE Granted(c)
  <2>1. lo < hi /\ q[lo] = c BY <1>0, <1>1, <1>9 DEF Granted, Chain, FirstIsHead
  <2>2. /\ at[c] = "wait" /\ at'[c] = "head" /\ \A d \in CPU \ {c} : at'[d] = at[d] /\ prev'[d] = prev[d]
        /\ granted' = [granted EXCEPT ![c] = FALSE] /\ UNCHANGED <<tail, next>>
    BY <1>0, <1>9 DEF Granted, word
  <2>3. \A i \in Nat : lo < i /\ i < hi => q[i] \in CPU \ {c}
    BY <1>1, <2>1, SMT DEF Chain, Members
  <2>4. Members(q, lo, hi)' BY <1>15, <2>2
  <2>5. LastIsTail(q, lo, hi)' BY <1>1, <2>2 DEF Chain, LastIsTail
  <2>6. FirstIsHead(q, lo, hi)' BY <1>0, <1>1, <2>1, <2>2 DEF Chain, FirstIsHead
  <2>7. Linked(q, lo, hi)' BY <1>18, <2>2, <2>3
  <2>8. Chain(q, lo, hi)' BY <2>4, <2>5, <2>6, <2>7 DEF Chain
  <2> QED BY <2>8
<1>10. CASE HeadWait(c) \/ SetLocked(c) \/ (Claim(c) /\ UNCHANGED word)
  <2>1. /\ at[c] \in Heads /\ at'[c] \in Heads /\ \A d \in CPU \ {c} : at'[d] = at[d]
        /\ UNCHANGED <<tail, next, granted, prev>>
    BY <1>0, <1>10, QSpinlockAssumption, SMT DEF HeadWait, SetLocked, Claim, Heads, word
  <2>2. lo < hi /\ q[lo] = c BY <1>16, <2>1
  <2>3. \A i \in Nat : lo < i /\ i < hi => q[i] \in CPU \ {c}
    BY <1>1, <2>2, SMT DEF Chain, Members
  <2>4. Members(q, lo, hi)' BY <1>15, <2>1 DEF Heads
  <2>5. LastIsTail(q, lo, hi)' BY <1>1, <2>1 DEF Chain, LastIsTail
  <2>6. FirstIsHead(q, lo, hi)' BY <1>0, <1>1, <2>1, <2>2 DEF Chain, FirstIsHead, Heads
  <2>7. Linked(q, lo, hi)' BY <1>18, <2>1, <2>3 DEF Heads
  <2>8. Chain(q, lo, hi)' BY <2>4, <2>5, <2>6, <2>7 DEF Chain
  <2> QED BY <2>8
<1>11. CASE Claim(c) /\ val[c][1] = c /\ word = val[c]
  <2>1. lo < hi /\ q[lo] = c BY <1>11, <1>16 DEF Claim, Heads
  <2>2. tail = c BY <1>11, SMT DEF word
  <2>3. hi = lo + 1 BY <1>1, <2>1, <2>2, SMT DEF Chain, Members, LastIsTail
  <2>4. /\ tail' = None /\ at'[c] = "held" /\ \A d \in CPU \ {c} : at'[d] = at[d]
        /\ UNCHANGED <<next, granted, prev>>
    BY <1>0, <1>11 DEF Claim
  <2>9. at[c] = "claim"
    BY <1>11 DEF Claim
  <2>6. \A d \in CPU : at'[d] \notin Waiting
    BY <1>1, <2>1, <2>3, <2>4, SMT DEF Chain, Members
  <2>7. \A d \in CPU : ~granted'[d]
    BY <1>1, <2>1, <2>4, <2>9 DEF Chain, FirstIsHead
  <2>8. \A d \in CPU : at'[d] = "join" => next'[d] = None
    BY <1>1, <2>4 DEF Chain, Linked
  <2>5. Chain(q, hi, hi)'
    BY <2>4, <2>6, <2>7, <2>8, SMT DEF Chain, Members, LastIsTail, FirstIsHead, Linked
  <2> QED BY <2>5
<1>12. CASE Pass(c)
  <2>1. /\ at[c] = "pass" /\ at'[c] = "held" /\ \A d \in CPU \ {c} : at'[d] = at[d]
        /\ next[c] # None /\ next' = [next EXCEPT ![c] = None]
        /\ granted' = [granted EXCEPT ![next[c]] = TRUE] /\ UNCHANGED <<tail, prev>>
    BY <1>0, <1>12 DEF Pass, word
  <2>2. lo < hi /\ q[lo] = c
    BY <1>16, <2>1 DEF Heads
  <2>3. Members(q, lo, hi) /\ LastIsTail(q, lo, hi) /\ FirstIsHead(q, lo, hi) /\ Linked(q, lo, hi)
    BY <1>1 DEF Chain
  <2>4. lo + 1 < hi
    BY <2>1, <2>2, <2>3, SMT DEF LastIsTail
  <2>5. /\ q[lo + 1] \in CPU /\ at[q[lo + 1]] = "wait" /\ next[c] = q[lo + 1]
    BY <2>1, <2>2, <2>3, <2>4, SMT DEF Members, Linked
  <2>6. \A i \in Nat : lo < i /\ i < hi => q[i] \in CPU \ {c}
    BY <2>2, <2>3, SMT DEF Members
  <2>7. Members(q, lo + 1, hi)'
    <3>1. \A d \in CPU : at'[d] \in Waiting => at[d] \in Waiting /\ d # c
      BY <2>1
    <3>2. \A i \in Nat : lo + 1 <= i /\ i < hi => q[i] \in CPU /\ at'[q[i]] \in Waiting
      BY <2>1, <2>3, <2>6, SMT DEF Members
    <3>3. ASSUME NEW d \in CPU, at'[d] \in Waiting
          PROVE  \E i \in Nat : lo + 1 <= i /\ i < hi /\ q[i] = d
      <4>1. PICK i \in Nat : lo <= i /\ i < hi /\ q[i] = d
        BY <2>3, <3>1, <3>3 DEF Members
      <4> QED BY <2>2, <3>1, <3>3, <4>1, SMT
    <3>4. \A i, j \in Nat : lo + 1 <= i /\ i < hi /\ lo + 1 <= j /\ j < hi /\ q[i] = q[j] => i = j
      BY <2>3, SMT DEF Members
    <3> QED BY <2>4, <3>2, <3>3, <3>4, SMT DEF Members
  <2>8. LastIsTail(q, lo + 1, hi)'
    BY <1>0, <2>1, <2>3, <2>4, <2>6, SMT DEF LastIsTail
  <2>9. FirstIsHead(q, lo + 1, hi)'
    <3>1. at'[q[lo + 1]] = "wait" /\ granted'[q[lo + 1]]
      BY <1>0, <2>1, <2>4, <2>5, <2>6
    <3>2. \A d \in CPU : ~granted[d]
      BY <2>1, <2>2, <2>3 DEF FirstIsHead
    <3>3. \A d \in CPU : granted'[d] => d = q[lo + 1]
      BY <1>0, <2>1, <2>5, <3>2
    <3> QED BY <2>4, <3>1, <3>3 DEF FirstIsHead
  <2>10. Linked(q, lo + 1, hi)'
    <3>1. ASSUME NEW i \in Nat, lo + 1 < i, i < hi
          PROVE  /\ at'[q[i]] \in {"link", "wait"} /\ prev'[q[i]] = q[i - 1]
                 /\ next'[q[i - 1]] = IF at'[q[i]] = "link" THEN None ELSE q[i]
      <4>1. q[i] \in CPU \ {c} /\ q[i - 1] \in CPU \ {c}
        BY <2>6, <3>1, SMT
      <4>2. /\ at[q[i]] \in {"link", "wait"} /\ prev[q[i]] = q[i - 1]
            /\ next[q[i - 1]] = IF at[q[i]] = "link" THEN None ELSE q[i]
        BY <2>3, <3>1, SMT DEF Linked
      <4>3. at'[q[i]] = at[q[i]] /\ prev' = prev /\ next'[q[i - 1]] = next[q[i - 1]]
        BY <1>0, <2>1, <4>1
      <4> QED BY <4>2, <4>3
    <3>2. \A d \in CPU : at'[d] = "join" => next'[d] = None
      BY <1>0, <2>1, <2>3 DEF Linked
    <3> QED BY <3>1, <3>2 DEF Linked
  <2>11. Chain(q, lo + 1, hi)' BY <2>7, <2>8, <2>9, <2>10 DEF Chain
  <2> QED BY <2>11, SMT
<1>13. CASE Claim(c) BY <1>10, <1>11, <1>13 DEF Claim
<1> QED BY <1>2, <1>5, <1>6, <1>7, <1>8, <1>9, <1>10, <1>12, <1>13 DEF Locking

-----------------------------------------------------------------------------
\* The initial state, every step and every stutter keep SpinInv.
LEMMA SpinInvHolds == SpinSpec => []SpinInv
<1>1. SpinInit => SpinInv
  <2> SUFFICES ASSUME SpinInit PROVE SpinInv OBVIOUS
  <2> USE QSpinlockAssumption DEF SpinInit
  <2>1. SpinTypeOK BY DEF SpinTypeOK, word, Word, SpinLabels, Unlocked
  <2>2. Chain([i \in Nat |-> None], 0, 0)
    BY SMT DEF Chain, Members, LastIsTail, FirstIsHead, Linked, Waiting
  <2>3. [i \in Nat |-> None] \in [Nat -> CPU \cup {None}] OBVIOUS
  <2>4. QueueInv BY <2>2, <2>3 DEF QueueInv
  <2>5. PendingInv /\ LockedInv /\ ClaimInv
    BY DEF PendingInv, OnePending, LockedInv, SpinExclusion, SpinOwner, ClaimInv
  <2> QED BY <2>1, <2>4, <2>5 DEF SpinInv
<1>2. SpinInv /\ [SpinNext]_spinVars => SpinInv'
  <2> SUFFICES ASSUME SpinInv, [SpinNext]_spinVars PROVE SpinInv' OBVIOUS
  <2>1. CASE SpinNext
    BY <2>1, SpinTypeStep, PendingStep, LockedStep, ClaimStep, QueueStep DEF SpinInv
  <2>2. CASE UNCHANGED spinVars
    <3> USE <2>2 DEF spinVars, word
    <3>1. SpinTypeOK' BY DEF SpinInv, SpinTypeOK
    <3>2. QueueInv'
      <4>1. PICK lo, hi \in Nat, q \in [Nat -> CPU \cup {None}] : Chain(q, lo, hi)
        BY DEF SpinInv, QueueInv
      <4>2. Chain(q, lo, hi)'
        BY <4>1 DEF Chain, Members, LastIsTail, FirstIsHead, Linked
      <4> QED BY <4>2 DEF QueueInv
    <3>3. PendingInv' BY DEF SpinInv, PendingInv, OnePending
    <3>4. LockedInv' BY DEF SpinInv, LockedInv, SpinExclusion, SpinOwner
    <3>5. ClaimInv' BY DEF SpinInv, ClaimInv
    <3> QED BY <3>1, <3>2, <3>3, <3>4, <3>5 DEF SpinInv
  <2> QED BY <2>1, <2>2
<1> QED BY <1>1, <1>2, PTL DEF SpinSpec

\* Mutual exclusion of the queued spinlock, for any number of CPUs: whoever is
\* about to set the locked byte finds it clear and is the only one about to.
THEOREM SpinExclusive == SpinSpec => []SpinExclusion
<1>1. SpinInv => SpinExclusion BY DEF SpinInv, LockedInv
<1> QED BY <1>1, SpinInvHolds, PTL

\* Only the CPU that set the pending bit stores to it.
THEOREM PendingIsOnes == SpinSpec => []OnePending
<1>1. SpinInv => OnePending BY DEF SpinInv, PendingInv
<1> QED BY <1>1, SpinInvHolds, PTL

\* The wait for the next node ends: the CPU behind it is on its way, as the
\* comment in queued_spin_lock_slowpath claims.
THEOREM SuccessorComes == SpinSpec => []SuccessorExists
<1>1. SpinInv => SuccessorExists
  <2> SUFFICES ASSUME SpinInv, NEW c \in CPU, at[c] = "pass", next[c] = None
               PROVE  \/ \E d \in CPU : at[d] = "link" /\ prev[d] = c
                      \/ tail = c /\ \E d \in CPU : at[d] \in {"undo", "queue", "join"}
    BY DEF SuccessorExists
  <2>1. PICK lo, hi \in Nat, q \in [Nat -> CPU \cup {None}] : Chain(q, lo, hi)
    BY DEF SpinInv, QueueInv
  <2>2. PICK i \in Nat : lo <= i /\ i < hi /\ q[i] = c
    BY <2>1 DEF Chain, Members, Waiting
  <2>3. i = lo BY <2>1, <2>2, SMT DEF Chain, Linked
  <2>4. CASE hi = lo + 1
    BY <2>1, <2>2, <2>3, <2>4, SMT DEF Chain, LastIsTail, SpinInv, ClaimInv
  <2>5. CASE lo + 1 < hi
    <3>1. q[lo + 1] \in CPU BY <2>1, <2>5, SMT DEF Chain, Members
    <3>2. prev[q[lo + 1]] = c /\ at[q[lo + 1]] \in {"link", "wait"}
          /\ next[c] = IF at[q[lo + 1]] = "link" THEN None ELSE q[lo + 1]
      <4>1. Linked(q, lo, hi) BY <2>1 DEF Chain
      <4>2. lo + 1 \in Nat /\ lo < lo + 1 /\ (lo + 1) - 1 = lo BY SMT
      <4> QED BY <2>2, <2>5, <4>1, <4>2, SMT DEF Linked
    <3> QED BY <3>1, <3>2, QSpinlockAssumption
  <2> QED BY <2>2, <2>3, <2>4, <2>5, SMT
<1> QED BY <1>1, SpinInvHolds, PTL

\* A node is linked only behind one that is still in the queue and that nobody
\* else waits behind, though prev is read long before it is written.
THEOREM LinksToWaiting == SpinSpec => []LinkToWaiting
<1>1. SpinInv => LinkToWaiting
  <2> SUFFICES ASSUME SpinInv, NEW c \in CPU, at[c] = "link"
               PROVE  /\ at[prev[c]] \in Waiting
                      /\ next[prev[c]] = None
                      /\ \A d \in CPU \ {c} : at[d] \in {"link", "wait"} /\ ~granted[d] =>
                              prev[d] # prev[c]
    BY DEF LinkToWaiting
  <2>1. PICK lo, hi \in Nat, q \in [Nat -> CPU \cup {None}] : Chain(q, lo, hi)
    BY DEF SpinInv, QueueInv
  <2>2. ASSUME NEW d \in CPU, at[d] \in {"link", "wait"}, ~granted[d]
        PROVE  \E i \in Nat : lo < i /\ i < hi /\ q[i] = d /\ prev[d] = q[i - 1]
    <3>1. PICK i \in Nat : lo <= i /\ i < hi /\ q[i] = d
      BY <2>1, <2>2 DEF Chain, Members, Waiting
    <3>2. i # lo BY <2>1, <2>2, <3>1 DEF Chain, FirstIsHead
    <3> QED BY <2>1, <3>1, <3>2, SMT DEF Chain, Linked
  <2>3. ~granted[c] BY <2>1 DEF Chain, FirstIsHead
  <2>4. PICK i \in Nat : lo < i /\ i < hi /\ q[i] = c /\ prev[c] = q[i - 1]
    BY <2>2, <2>3
  <2>5. at[prev[c]] \in Waiting /\ next[prev[c]] = None
    BY <2>1, <2>4, SMT DEF Chain, Members, Linked
  <2>6. ASSUME NEW d \in CPU \ {c}, at[d] \in {"link", "wait"}, ~granted[d]
        PROVE  prev[d] # prev[c]
    <3>1. PICK j \in Nat : lo < j /\ j < hi /\ q[j] = d /\ prev[d] = q[j - 1]
      BY <2>2, <2>6
    <3> QED BY <2>1, <2>4, <2>6, <3>1, SMT DEF Chain, Members
  <2> QED BY <2>5, <2>6
<1> QED BY <1>1, SpinInvHolds, PTL
=============================================================================
