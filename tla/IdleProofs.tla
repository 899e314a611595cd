----------------------------- MODULE IdleProofs -----------------------------
(***************************************************************************)
(* No kick of an idle CPU is lost, and the idle CPUs agree on the owner of *)
(* idle load balancing, for any number of CPUs and tasks.                  *)
(*                                                                         *)
(* The inductive invariant has a part per CPU.  PlaceInv: the idle task    *)
(* stands still during a tick, whose handler knows whether it came from    *)
(* the idle task, and a CPU past current_clr_polling_and_test does not     *)
(* poll.  OwnerInv: between its two calls of select_nohz_load_balancer a   *)
(* CPU is in the mask, and it owns nothing before the first and after the  *)
(* second.  KickInv: a CPU asks one other CPU at a time to reschedule, and *)
(* holds the lock of that CPU's run queue until it has decided on the IPI. *)
(***************************************************************************)
EXTENDS Idle, TLAPS

\* From select_nohz_load_balancer(1) to select_nohz_load_balancer(0); outside.
MaskPlaces == {"weigh", "claim", "loop", "check", "clear", "test", "wfi", "repoll", "leave"}
FreePlaces == {"busy", "enter", "weigh", "claim", "schedule"}

PlaceInv(c) ==
    /\ at[c] # "bug"
    /\ tick[c] # "none" => at[c] \notin {"check", "clear", "test", "wfi", "schedule"}
    /\ tick[c] = "begin" => idleTick[c] = (at[c] # "busy")
    /\ at[c] \in {"test", "wfi"} => ~polling[c]
    /\ at[c] = "busy" => nr[c] > 0

OwnerInv(c) ==
    /\ at[c] \in MaskPlaces => c \in mask
    /\ at[c] = "release" => owner = c
    /\ at[c] \in FreePlaces => owner # c

Asking(c) == kick[c] # None => lock[kick[c]] = c
Free(c) == tick[c] \in {"begin", "nominate", "self"} => kick[c] = None
Reached(c) == at[c] = "wfi" /\ flag[c] => ipi[c] \/ \E w \in NohzCpu : kick[w] = c
KickInv(c) == Asking(c) /\ Free(c) /\ Reached(c)

IdleInv ==
    /\ IdleTypeOK
    /\ \A c \in NohzCpu : PlaceInv(c) /\ OwnerInv(c) /\ KickInv(c)

USE DEF nohz, None

-----------------------------------------------------------------------------
(* Types.                                                                  *)

\* A leaf goes to Zenon, and to the SMT solver where it says so.
USE Zenon

\* -1 is no CPU.
LEMMA NoneFacts == None \notin NohzCpu /\ \A c \in NohzCpu : c \in Nat
BY IdleAssumption, SMT

\* cpumask_first of a set that is not empty.
LEMMA LowestFacts ==
    ASSUME NEW s \in SUBSET NohzCpu, s # {}
    PROVE  IdleLowest(s) \in NohzCpu
<1>1. \E c \in s : \A d \in s : c <= d
  BY IdleAssumption
<1>2. IdleLowest(s) \in s
  BY <1>1 DEF IdleLowest
<1> QED BY <1>2

\* The idle task's steps keep the types.
LEMMA IdleStepTypes ==
    ASSUME IdleTypeOK, NEW c \in NohzCpu, IdleStep(c)
    PROVE  IdleTypeOK'
<1>1. CASE SelectEnter(c)
  BY <1>1 DEF SelectEnter, IdleTypeOK, IdleGoto, Places
<1>2. CASE SelectWeigh(c)
  BY <1>2 DEF SelectWeigh, IdleTypeOK, IdleGoto, Places
<1>3. CASE SelectClaim(c)
  BY <1>3 DEF SelectClaim, IdleTypeOK, IdleGoto, Places
<1>4. CASE IdleLoop(c)
  BY <1>4 DEF IdleLoop, IdleTypeOK, IdleGoto, Places
<1>5. CASE CheckFlag(c)
  BY <1>5 DEF CheckFlag, IdleTypeOK, IdleGoto, Places
<1>6. CASE StopPolling(c)
  BY <1>6 DEF StopPolling, IdleTypeOK, IdleGoto, Places
<1>7. CASE TestFlag(c)
  BY <1>7 DEF TestFlag, IdleTypeOK, IdleGoto, Places
<1>8. CASE WaitForInterrupt(c)
  BY <1>8 DEF WaitForInterrupt, IdleTypeOK, IdleGoto, Places
<1>9. CASE StartPolling(c)
  BY <1>9 DEF StartPolling, IdleTypeOK, IdleGoto, Places
<1>10. CASE SelectLeave(c)
  BY <1>10 DEF SelectLeave, IdleTypeOK, IdleGoto, Places
<1>11. CASE SelectDisown(c)
  BY <1>11 DEF SelectDisown, IdleTypeOK, IdleGoto, Places
<1>12. CASE SelectRelease(c)
  BY <1>12 DEF SelectRelease, IdleTypeOK, IdleGoto, Places
<1>13. CASE ScheduleIdle(c)
  BY <1>13 DEF ScheduleIdle, IdleTypeOK, IdleGoto, Places
<1> QED BY <1>1, <1>2, <1>3, <1>4, <1>5, <1>6, <1>7, <1>8, <1>9, <1>10, <1>11, <1>12, <1>13 DEF IdleStep

\* So do the handlers, the tick and the wake-ups.
LEMMA KickTypes ==
    ASSUME IdleTypeOK, NEW c \in NohzCpu, NEW d \in NohzCpu, BeginKick(c, d)
    PROVE  flag' \in [NohzCpu -> BOOLEAN] /\ kick' \in [NohzCpu -> NohzCpu \cup {None}]
           /\ lock' \in [NohzCpu -> NohzCpu \cup {None}]
BY SMT DEF BeginKick, IdleTypeOK

\* The steps of the tick and of the kick keep the types.
LEMMA HandlerTypes ==
    ASSUME IdleTypeOK, NEW c \in NohzCpu,
           HandlerStep(c) \/ Tick(c) \/ WakeLocal(c) \/ \E d \in NohzCpu : HoldLock(c, d)
    PROVE  IdleTypeOK'
<1>1. CASE EndKick(c)
  BY <1>1, NoneFacts DEF EndKick, IdleTypeOK, IsPolling
<1>2. CASE TakeIpi(c)
  BY <1>2 DEF TakeIpi, IdleTypeOK
<1>3. ASSUME NEW d \in NohzCpu, ReleaseLock(c, d) PROVE IdleTypeOK'
  BY <1>3 DEF ReleaseLock, IdleTypeOK
<1>4. CASE TickNominate(c)
  <2>1. /\ recent' \in [NohzCpu -> BOOLEAN] /\ mask' \subseteq NohzCpu
        /\ owner' \in NohzCpu \cup {None}
    BY <1>4 DEF TickNominate, IdleTypeOK
  <2>2. tick' \in [NohzCpu -> {"none", "begin", "nominate", "self", "end"}]
    <3>1. \E l \in {"nominate", "self", "end"} : tick' = [tick EXCEPT ![c] = l]
      BY <1>4 DEF TickNominate
    <3> QED BY <3>1 DEF IdleTypeOK
  <2>3. UNCHANGED <<at, nr, flag, polling, ipi, lock, idleTick, kick>>
    BY <1>4 DEF TickNominate
  <2> QED BY <2>1, <2>2, <2>3 DEF IdleTypeOK
<1>5. CASE TickKick(c)
  <2>1. UNCHANGED <<at, nr, polling, ipi, nohz>> /\ tick' = [tick EXCEPT ![c] = "end"]
    BY <1>5 DEF TickKick
  <2>2. ASSUME NEW d \in NohzCpu, resched_cpu(c, d)
        PROVE  /\ flag' \in [NohzCpu -> BOOLEAN] /\ kick' \in [NohzCpu -> NohzCpu \cup {None}]
               /\ lock' \in [NohzCpu -> NohzCpu \cup {None}]
    BY <2>2, KickTypes DEF resched_cpu, IdleTypeOK
  <2>3. mask # {} => IdleLowest(mask) \in NohzCpu
    BY LowestFacts DEF IdleTypeOK
  <2>4. /\ flag' \in [NohzCpu -> BOOLEAN] /\ kick' \in [NohzCpu -> NohzCpu \cup {None}]
        /\ lock' \in [NohzCpu -> NohzCpu \cup {None}]
    BY <1>5, <2>2, <2>3 DEF TickKick, IdleTypeOK
  <2> QED BY <2>1, <2>4 DEF IdleTypeOK
<1>6. CASE TickEnd(c)
  BY <1>6 DEF TickEnd, IdleTypeOK
<1>7. CASE Tick(c)
  BY <1>7 DEF Tick, IdleTypeOK, IdleGoto, Places
<1>8. CASE WakeLocal(c)
  BY <1>8, IdleAssumption, SMT DEF WakeLocal, IdleTypeOK
<1>9. ASSUME NEW d \in NohzCpu, HoldLock(c, d) PROVE IdleTypeOK'
  BY <1>9 DEF HoldLock, IdleTypeOK
<1> QED BY <1>1, <1>2, <1>3, <1>4, <1>5, <1>6, <1>7, <1>8, <1>9 DEF HandlerStep

\* A task that blocks was counted; a woken one stays below the bound.
LEMMA TaskTypes ==
    ASSUME IdleTypeOK, NEW c \in NohzCpu, PlaceInv(c),
           Block(c) \/ \E d \in NohzCpu : IdleWake(c, d)
    PROVE  IdleTypeOK'
<1>1. CASE Block(c)
  <2>1. nr[c] \in 1 .. MaxTasks
    BY <1>1, IdleAssumption, SMT DEF Block, InIdle, PlaceInv, IdleTypeOK
  <2> QED BY <1>1, <2>1, IdleAssumption, SMT DEF Block, IdleTypeOK, IdleGoto, Places
<1>2. ASSUME NEW d \in NohzCpu, IdleWake(c, d) PROVE IdleTypeOK'
  <2>1. /\ flag' \in [NohzCpu -> BOOLEAN] /\ kick' \in [NohzCpu -> NohzCpu \cup {None}]
        /\ lock' \in [NohzCpu -> NohzCpu \cup {None}]
    BY <1>2, KickTypes DEF IdleWake, IdleTypeOK
  <2>2. nr' \in [NohzCpu -> 0 .. MaxTasks]
    BY <1>2, IdleAssumption, SMT DEF IdleWake, IdleTypeOK
  <2>3. UNCHANGED <<at, polling, ipi, nohz, tick>>
    BY <1>2 DEF IdleWake
  <2> QED BY <2>1, <2>2, <2>3 DEF IdleTypeOK
<1> QED BY <1>1, <1>2

-----------------------------------------------------------------------------
(* What a CPU knows of itself.                                             *)

\* The idle task moves, outside the tick.
LEMMA IdlePlaces ==
    ASSUME IdleTypeOK, NEW c \in NohzCpu, IdleStep(c), OwnerInv(c), \A d \in NohzCpu : PlaceInv(d)
    PROVE  \A d \in NohzCpu : PlaceInv(d)'
<1>1. CASE SelectEnter(c)
  BY <1>1, IdleAssumption DEF SelectEnter, InIdle, IdleTypeOK, IdleGoto, PlaceInv
<1>2. CASE SelectWeigh(c)
  BY <1>2, IdleAssumption, SMT DEF SelectWeigh, InIdle, IdleTypeOK, IdleGoto, PlaceInv
<1>3. CASE SelectClaim(c)
  BY <1>3, IdleAssumption, SMT DEF SelectClaim, InIdle, IdleTypeOK, IdleGoto, PlaceInv
<1>4. CASE IdleLoop(c)
  BY <1>4, IdleAssumption, SMT DEF IdleLoop, InIdle, IdleTypeOK, IdleGoto, PlaceInv
<1>5. CASE CheckFlag(c)
  BY <1>5, IdleAssumption, SMT DEF CheckFlag, InIdle, IdleTypeOK, IdleGoto, PlaceInv
<1>6. CASE StopPolling(c)
  BY <1>6, IdleAssumption DEF StopPolling, InIdle, IdleTypeOK, IdleGoto, PlaceInv
<1>7. CASE TestFlag(c)
  BY <1>7, IdleAssumption DEF TestFlag, InIdle, IdleTypeOK, IdleGoto, PlaceInv
<1>8. CASE WaitForInterrupt(c)
  BY <1>8, IdleAssumption, SMT DEF WaitForInterrupt, InIdle, IdleTypeOK, IdleGoto, PlaceInv
<1>9. CASE StartPolling(c)
  BY <1>9, IdleAssumption DEF StartPolling, InIdle, IdleTypeOK, IdleGoto, PlaceInv
<1>10. CASE SelectLeave(c)
  BY <1>10, IdleAssumption DEF SelectLeave, InIdle, IdleTypeOK, IdleGoto, PlaceInv
<1>11. CASE SelectDisown(c)
  BY <1>11, IdleAssumption DEF SelectDisown, InIdle, IdleTypeOK, IdleGoto, PlaceInv
<1>12. CASE SelectRelease(c)
  BY <1>12, IdleAssumption, SMT DEF SelectRelease, InIdle, IdleTypeOK, IdleGoto, PlaceInv, OwnerInv
<1>13. CASE ScheduleIdle(c)
  BY <1>13, IdleAssumption DEF ScheduleIdle, InIdle, IdleTypeOK, IdleGoto, PlaceInv
<1> QED BY <1>1, <1>2, <1>3, <1>4, <1>5, <1>6, <1>7, <1>8, <1>9, <1>10, <1>11, <1>12, <1>13 DEF IdleStep

\* Nobody else moves it, and only its own CPU's tick interrupts it.
LEMMA HandlerPlaces ==
    ASSUME IdleTypeOK, NEW c \in NohzCpu, \A d \in NohzCpu : PlaceInv(d),
           \/ HandlerStep(c) \/ Tick(c) \/ Block(c) \/ WakeLocal(c)
           \/ \E d \in NohzCpu : HoldLock(c, d) \/ IdleWake(c, d)
    PROVE  \A d \in NohzCpu : PlaceInv(d)'
<1>1. CASE EndKick(c)
  BY <1>1 DEF EndKick, PlaceInv
<1>2. CASE TakeIpi(c)
  BY <1>2 DEF TakeIpi, PlaceInv
<1>3. ASSUME NEW d \in NohzCpu, ReleaseLock(c, d) \/ HoldLock(c, d) PROVE \A e \in NohzCpu : PlaceInv(e)'
  BY <1>3 DEF ReleaseLock, HoldLock, PlaceInv
<1>4. CASE TickNominate(c)
  BY <1>4 DEF TickNominate, PlaceInv, IdleTypeOK
<1>5. CASE TickKick(c)
  BY <1>5 DEF TickKick, PlaceInv, IdleTypeOK
<1>6. CASE TickEnd(c)
  BY <1>6 DEF TickEnd, PlaceInv, IdleTypeOK
<1>7. CASE Tick(c)
  BY <1>7 DEF Tick, IdleGoto, PlaceInv, IdleTypeOK
<1>8. CASE Block(c)
  BY <1>8, IdleAssumption, SMT DEF Block, InIdle, IdleGoto, PlaceInv, IdleTypeOK
<1>9. CASE WakeLocal(c)
  BY <1>9, IdleAssumption, SMT DEF WakeLocal, PlaceInv, IdleTypeOK
<1>10. ASSUME NEW d \in NohzCpu, IdleWake(c, d) PROVE \A e \in NohzCpu : PlaceInv(e)'
  BY <1>10, IdleAssumption, SMT DEF IdleWake, PlaceInv, IdleTypeOK
<1> QED BY <1>1, <1>2, <1>3, <1>4, <1>5, <1>6, <1>7, <1>8, <1>9, <1>10 DEF HandlerStep

-----------------------------------------------------------------------------
(* The owner of idle load balancing.                                       *)

\* The steps of the idle loop keep OwnerInv.
LEMMA IdleOwner ==
    ASSUME IdleTypeOK, NEW c \in NohzCpu, IdleStep(c), \A d \in NohzCpu : OwnerInv(d)
    PROVE  \A d \in NohzCpu : OwnerInv(d)'
<1>n. None \notin NohzCpu
  BY NoneFacts
<1>1. CASE SelectEnter(c)
  BY <1>n, <1>1 DEF SelectEnter, InIdle, IdleTypeOK, IdleGoto, OwnerInv, MaskPlaces, FreePlaces
<1>2. CASE SelectWeigh(c)
  BY <1>n, <1>2, SMT DEF SelectWeigh, InIdle, IdleTypeOK, IdleGoto, OwnerInv, MaskPlaces, FreePlaces
<1>3. CASE SelectClaim(c)
  BY <1>n, <1>3 DEF SelectClaim, InIdle, IdleTypeOK, IdleGoto, OwnerInv, MaskPlaces, FreePlaces
<1>4. CASE IdleLoop(c)
  BY <1>n, <1>4 DEF IdleLoop, InIdle, IdleTypeOK, IdleGoto, OwnerInv, MaskPlaces, FreePlaces
<1>5. CASE CheckFlag(c)
  BY <1>n, <1>5 DEF CheckFlag, InIdle, IdleTypeOK, IdleGoto, OwnerInv, MaskPlaces, FreePlaces
<1>6. CASE StopPolling(c)
  BY <1>n, <1>6 DEF StopPolling, InIdle, IdleTypeOK, IdleGoto, OwnerInv, MaskPlaces, FreePlaces
<1>7. CASE TestFlag(c)
  BY <1>n, <1>7 DEF TestFlag, InIdle, IdleTypeOK, IdleGoto, OwnerInv, MaskPlaces, FreePlaces
<1>8. CASE WaitForInterrupt(c)
  BY <1>n, <1>8 DEF WaitForInterrupt, InIdle, IdleTypeOK, IdleGoto, OwnerInv, MaskPlaces, FreePlaces
<1>9. CASE StartPolling(c)
  BY <1>n, <1>9 DEF StartPolling, InIdle, IdleTypeOK, IdleGoto, OwnerInv, MaskPlaces, FreePlaces
<1>10. CASE SelectLeave(c)
  BY <1>n, <1>10 DEF SelectLeave, InIdle, IdleTypeOK, IdleGoto, OwnerInv, MaskPlaces, FreePlaces
<1>11. CASE SelectDisown(c)
  BY <1>n, <1>11 DEF SelectDisown, InIdle, IdleTypeOK, IdleGoto, OwnerInv, MaskPlaces, FreePlaces
<1>12. CASE SelectRelease(c)
  BY <1>n, <1>12, SMT DEF SelectRelease, InIdle, IdleTypeOK, IdleGoto, OwnerInv, MaskPlaces, FreePlaces
<1>13. CASE ScheduleIdle(c)
  BY <1>n, <1>13 DEF ScheduleIdle, InIdle, IdleTypeOK, IdleGoto, OwnerInv, MaskPlaces, FreePlaces
<1> QED BY <1>1, <1>2, <1>3, <1>4, <1>5, <1>6, <1>7, <1>8, <1>9, <1>10, <1>11, <1>12, <1>13 DEF IdleStep

\* A tick that finds its CPU busy finds another owner or none; a CPU is idle when
\* it leaves a wait, and busy when its last task blocks.
LEMMA HandlerOwner ==
    ASSUME IdleTypeOK, NEW c \in NohzCpu, PlaceInv(c), \A d \in NohzCpu : OwnerInv(d),
           \/ HandlerStep(c) \/ Tick(c) \/ Block(c) \/ WakeLocal(c)
           \/ \E d \in NohzCpu : HoldLock(c, d) \/ IdleWake(c, d)
    PROVE  \A d \in NohzCpu : OwnerInv(d)'
<1>1. CASE UNCHANGED <<at, mask, owner>>
  BY <1>1 DEF OwnerInv
<1>2. CASE EndKick(c) \/ TakeIpi(c) \/ TickKick(c) \/ TickEnd(c) \/ WakeLocal(c)
  BY <1>1, <1>2 DEF EndKick, TakeIpi, TickKick, TickEnd, WakeLocal
<1>3. ASSUME NEW d \in NohzCpu, ReleaseLock(c, d) \/ HoldLock(c, d) \/ IdleWake(c, d)
      PROVE  UNCHANGED <<at, mask, owner>>
  BY <1>3 DEF ReleaseLock, HoldLock, IdleWake
<1>4. CASE TickNominate(c)
  <2>1. recent[c] /\ ~idleTick[c] => owner # c
    BY <1>4 DEF TickNominate, PlaceInv, OwnerInv, FreePlaces
  <2>2. UNCHANGED <<at, mask, owner>>
    BY <1>4, <2>1 DEF TickNominate
  <2> QED BY <1>1, <2>2
<1>5. CASE Tick(c)
  BY <1>5 DEF Tick, IdleGoto, OwnerInv, IdleTypeOK, MaskPlaces, FreePlaces
<1>6. CASE Block(c)
  BY <1>6, SMT DEF Block, InIdle, IdleGoto, OwnerInv, IdleTypeOK, MaskPlaces, FreePlaces
<1> QED BY <1>1, <1>2, <1>3, <1>4, <1>5, <1>6 DEF HandlerStep

-----------------------------------------------------------------------------
(* The request to reschedule.                                              *)

\* The idle task asks nobody.  It looks at the flag after it has stopped polling,
\* and the interrupt that takes the IPI away ends its wait.
LEMMA IdleKicks ==
    ASSUME IdleTypeOK, NEW c \in NohzCpu, IdleStep(c), \A d \in NohzCpu : KickInv(d)
    PROVE  \A d \in NohzCpu : KickInv(d)'
<1>0. UNCHANGED <<lock, kick, tick>>
  BY DEF IdleStep, SelectEnter, SelectWeigh, SelectClaim, IdleLoop, CheckFlag, StopPolling, TestFlag,
         WaitForInterrupt, StartPolling, SelectLeave, SelectDisown, SelectRelease, ScheduleIdle
<1>a. \A d \in NohzCpu : Asking(d)' /\ Free(d)'
  BY <1>0 DEF KickInv, Asking, Free
<1>b. ASSUME \A d \in NohzCpu \ {c} : at'[d] = at[d] /\ flag'[d] = flag[d] /\ ipi'[d] = ipi[d],
             ~(at'[c] = "wfi" /\ flag'[c])
      PROVE  \A d \in NohzCpu : KickInv(d)'
  BY <1>0, <1>a, <1>b DEF KickInv, Reached
<1>1. CASE SelectEnter(c)
  BY <1>b, <1>1 DEF SelectEnter, InIdle, IdleTypeOK, IdleGoto
<1>2. CASE SelectWeigh(c)
  BY <1>b, <1>2 DEF SelectWeigh, InIdle, IdleTypeOK, IdleGoto
<1>3. CASE SelectClaim(c)
  BY <1>b, <1>3 DEF SelectClaim, InIdle, IdleTypeOK, IdleGoto
<1>4. CASE IdleLoop(c)
  BY <1>b, <1>4 DEF IdleLoop, InIdle, IdleTypeOK, IdleGoto
<1>5. CASE CheckFlag(c)
  BY <1>b, <1>5 DEF CheckFlag, InIdle, IdleTypeOK, IdleGoto
<1>6. CASE StopPolling(c)
  BY <1>b, <1>6 DEF StopPolling, InIdle, IdleTypeOK, IdleGoto
<1>7. CASE TestFlag(c)
  BY <1>b, <1>7 DEF TestFlag, InIdle, IdleTypeOK, IdleGoto
<1>8. CASE WaitForInterrupt(c)
  BY <1>b, <1>8 DEF WaitForInterrupt, InIdle, IdleTypeOK, IdleGoto
<1>9. CASE StartPolling(c)
  BY <1>b, <1>9 DEF StartPolling, InIdle, IdleTypeOK, IdleGoto
<1>10. CASE SelectLeave(c)
  BY <1>b, <1>10 DEF SelectLeave, InIdle, IdleTypeOK, IdleGoto
<1>11. CASE SelectDisown(c)
  BY <1>b, <1>11 DEF SelectDisown, InIdle, IdleTypeOK, IdleGoto
<1>12. CASE SelectRelease(c)
  BY <1>b, <1>12 DEF SelectRelease, InIdle, IdleTypeOK, IdleGoto
<1>13. CASE ScheduleIdle(c)
  BY <1>b, <1>13 DEF ScheduleIdle, InIdle, IdleTypeOK, IdleGoto
<1> QED BY <1>1, <1>2, <1>3, <1>4, <1>5, <1>6, <1>7, <1>8, <1>9, <1>10, <1>11, <1>12, <1>13 DEF IdleStep

\* resched_task, by a CPU that asks nobody yet: the flag is set, and unless it was
\* set before or the CPU asks itself, outside its wait, an IPI is to be decided on.
LEMMA AskKicks ==
    ASSUME IdleTypeOK, NEW c \in NohzCpu, NEW d \in NohzCpu, BeginKick(c, d), lock[d] = None,
           kick[c] = None, UNCHANGED <<at, ipi>>, at[c] # "wfi",
           tick'[c] \notin {"begin", "nominate", "self"},
           \A e \in NohzCpu \ {c} : tick'[e] = tick[e],
           \A e \in NohzCpu : KickInv(e)
    PROVE  \A e \in NohzCpu : KickInv(e)'
<1>n. None \notin NohzCpu
  BY NoneFacts
<1>1. CASE flag[d] \/ c = d
  <2>1. UNCHANGED <<kick, lock>> /\ flag' = [flag EXCEPT ![d] = TRUE]
    BY <1>1 DEF BeginKick
  <2>2. \A e \in NohzCpu : Asking(e)' /\ Free(e)'
    BY <2>1 DEF KickInv, Asking, Free
  <2>3. \A e \in NohzCpu : at[e] = "wfi" => flag'[e] = flag[e]
    BY <1>1, <2>1 DEF IdleTypeOK
  <2>4. \A e \in NohzCpu : Reached(e)'
    BY <2>1, <2>3 DEF KickInv, Reached
  <2> QED BY <2>2, <2>4 DEF KickInv
<1>2. CASE ~(flag[d] \/ c = d)
  <2>1. /\ kick' = [kick EXCEPT ![c] = d] /\ lock' = [lock EXCEPT ![d] = c]
        /\ flag' = [flag EXCEPT ![d] = TRUE]
    BY <1>2 DEF BeginKick
  <2>2. /\ kick'[c] = d /\ lock'[d] = c
        /\ \A e \in NohzCpu \ {c} : kick'[e] = kick[e]
        /\ \A e \in NohzCpu \ {d} : lock'[e] = lock[e] /\ flag'[e] = flag[e]
    BY <2>1 DEF IdleTypeOK
  <2>3. ASSUME NEW e \in NohzCpu PROVE Asking(e)' /\ Free(e)'
    <3>1. CASE e = c
      BY <2>2, <3>1 DEF Asking, Free
    <3>2. CASE e # c
      <4>1. Asking(e) /\ Free(e) /\ kick'[e] = kick[e] /\ kick[e] \in NohzCpu \cup {None}
        BY <2>2, <3>2 DEF KickInv, IdleTypeOK
      <4>2. kick[e] # d
        BY <1>n, <4>1 DEF Asking
      <4> QED BY <2>2, <3>2, <4>1, <4>2 DEF Asking, Free
    <3> QED BY <3>1, <3>2
  <2>4. ASSUME NEW e \in NohzCpu PROVE Reached(e)'
    <3>1. CASE e = d
      BY <2>2, <3>1 DEF Reached
    <3>2. CASE e # d
      <4>1. Reached(e) /\ flag'[e] = flag[e]
        BY <2>2, <3>2 DEF KickInv
      <4>2. ASSUME NEW w \in NohzCpu, kick[w] = e PROVE kick'[w] = e
        BY <1>n, <2>2, <4>2
      <4> QED BY <4>1, <4>2 DEF Reached
    <3> QED BY <3>1, <3>2
  <2> QED BY <2>3, <2>4 DEF KickInv
<1> QED BY <1>1, <1>2

\* The IPI is sent unless the CPU that was asked still polls: past its last look
\* at the flag it does not.
LEMMA EndKicks ==
    ASSUME IdleTypeOK, NEW c \in NohzCpu, EndKick(c), \A d \in NohzCpu : PlaceInv(d) /\ KickInv(d)
    PROVE  \A d \in NohzCpu : KickInv(d)'
<1>n. None \notin NohzCpu
  BY NoneFacts
<1>1. PICK d \in NohzCpu : d = kick[c]
  BY DEF EndKick, IdleTypeOK
<1>2. /\ ipi'[d] = (ipi[d] \/ ~IsPolling(d)) /\ \A e \in NohzCpu \ {d} : ipi'[e] = ipi[e]
      /\ kick'[c] = None /\ \A e \in NohzCpu \ {c} : kick'[e] = kick[e]
      /\ \A e \in NohzCpu \ {d} : lock'[e] = lock[e]
      /\ UNCHANGED <<at, flag, polling, tick>>
  BY <1>1 DEF EndKick, IdleTypeOK
<1>3. lock[d] = c
  BY <1>n, <1>1 DEF KickInv, Asking
<1>4. ASSUME NEW e \in NohzCpu PROVE Asking(e)' /\ Free(e)'
  <2>1. Asking(e) /\ Free(e) /\ kick[e] \in NohzCpu \cup {None}
    BY DEF KickInv, IdleTypeOK
  <2>2. e # c => kick[e] # d
    BY <1>n, <1>3, <2>1 DEF Asking
  <2> QED BY <1>2, <2>1, <2>2 DEF Asking, Free
<1>5. ASSUME NEW e \in NohzCpu PROVE Reached(e)'
  <2>1. CASE e = d
    <3>1. at[d] = "wfi" => ~IsPolling(d)
      BY DEF PlaceInv, IsPolling
    <3> QED BY <1>2, <2>1, <3>1 DEF Reached
  <2>2. CASE e # d
    <3>1. Reached(e) /\ ipi'[e] = ipi[e]
      BY <1>2, <2>2 DEF KickInv
    <3>2. ASSUME NEW w \in NohzCpu, kick[w] = e PROVE kick'[w] = e
      BY <1>1, <1>2, <2>2, <3>2
    <3> QED BY <1>2, <3>1, <3>2 DEF Reached
  <2> QED BY <2>1, <2>2
<1> QED BY <1>4, <1>5 DEF KickInv

\* The other steps of the handlers, the tick, the wake-ups and the locks.
LEMMA HandlerKicks ==
    ASSUME IdleTypeOK, NEW c \in NohzCpu, \A d \in NohzCpu : PlaceInv(d) /\ KickInv(d),
           \/ HandlerStep(c) \/ Tick(c) \/ Block(c) \/ WakeLocal(c)
           \/ \E d \in NohzCpu : HoldLock(c, d) \/ IdleWake(c, d)
    PROVE  \A d \in NohzCpu : KickInv(d)'
<1>n. None \notin NohzCpu
  BY NoneFacts
<1>a. ASSUME UNCHANGED <<lock, kick>>, tick'[c] \in {"begin", "nominate", "self"} => kick[c] = None,
             \A d \in NohzCpu \ {c} : tick'[d] = tick[d],
             \A d \in NohzCpu : at'[d] = "wfi" /\ flag'[d] =>
                                    at[d] = "wfi" /\ flag[d] /\ ipi'[d] = ipi[d]
      PROVE  \A d \in NohzCpu : KickInv(d)'
  <2>1. \A d \in NohzCpu : Asking(d)' /\ Free(d)'
    BY <1>a DEF KickInv, Asking, Free
  <2>2. \A d \in NohzCpu : Reached(d)'
    BY <1>a DEF KickInv, Reached
  <2> QED BY <2>1, <2>2 DEF KickInv
<1>1. CASE EndKick(c)
  BY <1>1, EndKicks
<1>2. CASE TakeIpi(c)
  BY <1>a, <1>2 DEF TakeIpi, IrqsOff, IdleTypeOK, KickInv, Free
<1>3. ASSUME NEW d \in NohzCpu, ReleaseLock(c, d) PROVE \A e \in NohzCpu : KickInv(e)'
  <2>1. /\ lock[d] = c /\ kick[c] = None /\ UNCHANGED <<at, flag, ipi, tick, kick>>
        /\ \A e \in NohzCpu \ {d} : lock'[e] = lock[e]
    BY <1>3 DEF ReleaseLock, IdleTypeOK
  <2>2. ASSUME NEW e \in NohzCpu PROVE Asking(e)'
    <3>1. Asking(e) /\ kick[e] \in NohzCpu \cup {None}
      BY DEF KickInv, IdleTypeOK
    <3>2. kick[e] # d
      BY <1>n, <2>1, <3>1 DEF Asking
    <3> QED BY <2>1, <3>1, <3>2 DEF Asking
  <2> QED BY <2>1, <2>2 DEF KickInv, Free, Reached
<1>4. CASE TickNominate(c)
  BY <1>a, <1>4 DEF TickNominate, IdleTypeOK, KickInv, Free
<1>5. CASE TickKick(c)
  <2>1. /\ UNCHANGED <<at, ipi>> /\ tick'[c] = "end" /\ \A e \in NohzCpu \ {c} : tick'[e] = tick[e]
        /\ at[c] # "wfi" /\ kick[c] = None
    BY <1>5 DEF TickKick, IdleTypeOK, PlaceInv, KickInv, Free
  <2>2. ASSUME NEW d \in NohzCpu, resched_cpu(c, d) PROVE \A e \in NohzCpu : KickInv(e)'
    <3>1. CASE lock[d] = None
      BY <2>1, <2>2, <3>1, AskKicks DEF resched_cpu
    <3>2. CASE lock[d] # None
      BY <1>a, <2>1, <2>2, <3>2 DEF resched_cpu
    <3> QED BY <3>1, <3>2
  <2>3. mask # {} => IdleLowest(mask) \in NohzCpu
    BY LowestFacts DEF IdleTypeOK
  <2>4. CASE UNCHANGED <<flag, kick, lock>>
    BY <1>a, <2>1, <2>4
  <2> QED BY <1>5, <2>2, <2>3, <2>4 DEF TickKick
<1>6. CASE TickEnd(c)
  BY <1>a, <1>6 DEF TickEnd, IdleTypeOK
<1>7. CASE Tick(c)
  <2>1. kick[c] = None
    BY <1>7 DEF Tick, KickInv, Asking, IdleTypeOK
  <2>2. /\ UNCHANGED <<lock, kick, flag, ipi>> /\ \A d \in NohzCpu \ {c} : tick'[d] = tick[d]
        /\ \A d \in NohzCpu : at'[d] = "wfi" => at[d] = "wfi"
    BY <1>7 DEF Tick, IdleGoto, IdleTypeOK
  <2> QED BY <1>a, <2>1, <2>2
<1>8. CASE Block(c)
  BY <1>a, <1>8 DEF Block, InIdle, IdleGoto, IdleTypeOK
<1>9. CASE WakeLocal(c)
  BY <1>a, <1>9 DEF WakeLocal, IrqsOff, IdleTypeOK
<1>10. ASSUME NEW d \in NohzCpu, HoldLock(c, d) PROVE \A e \in NohzCpu : KickInv(e)'
  <2>1. /\ lock[d] = None /\ kick[c] = None /\ UNCHANGED <<at, flag, ipi, tick, kick>>
        /\ \A e \in NohzCpu \ {d} : lock'[e] = lock[e]
    BY <1>10 DEF HoldLock, InIdle, IdleTypeOK
  <2>2. ASSUME NEW e \in NohzCpu PROVE Asking(e)'
    <3>1. Asking(e) /\ kick[e] \in NohzCpu \cup {None}
      BY DEF KickInv, IdleTypeOK
    <3>2. kick[e] # d
      BY <1>n, <2>1, <3>1 DEF Asking
    <3> QED BY <2>1, <3>1, <3>2 DEF Asking
  <2> QED BY <2>1, <2>2 DEF KickInv, Free, Reached
<1>11. ASSUME NEW d \in NohzCpu, IdleWake(c, d) PROVE \A e \in NohzCpu : KickInv(e)'
  <2>1. /\ lock[d] = None /\ kick[c] = None /\ at[c] = "busy" /\ tick[c] = "none"
        /\ UNCHANGED <<at, ipi, tick>> /\ (BeginKick(c, d) \/ UNCHANGED <<flag, kick, lock>>)
    BY <1>11 DEF IdleWake, InIdle
  <2>2. CASE BeginKick(c, d)
    BY <2>1, <2>2, AskKicks
  <2>3. CASE UNCHANGED <<flag, kick, lock>>
    BY <1>a, <2>1, <2>3
  <2> QED BY <2>1, <2>2, <2>3
<1> QED BY <1>1, <1>2, <1>3, <1>4, <1>5, <1>6, <1>7, <1>8, <1>9, <1>10, <1>11 DEF HandlerStep

-----------------------------------------------------------------------------
\* Every CPU boots into its idle loop.
LEMMA InitIdle == IdleInit => IdleInv
<1> SUFFICES ASSUME IdleInit PROVE IdleInv
  OBVIOUS
<1>1. IdleTypeOK
  BY IdleAssumption, SMT DEF IdleInit, IdleTypeOK, Places
<1>2. ASSUME NEW c \in NohzCpu PROVE PlaceInv(c) /\ OwnerInv(c) /\ KickInv(c)
  <2>1. /\ at[c] = "enter" /\ tick[c] = "none" /\ owner = None /\ kick[c] = None
        /\ None \notin NohzCpu
    BY NoneFacts DEF IdleInit
  <2> QED BY <2>1 DEF PlaceInv, OwnerInv, KickInv, Asking, Free, Reached, MaskPlaces
<1> QED BY <1>1, <1>2 DEF IdleInv

\* Every step of every CPU preserves the invariant.
LEMMA NextIdle == IdleInv /\ [IdleNext]_idleVars => IdleInv'
<1> SUFFICES ASSUME IdleInv, [IdleNext]_idleVars PROVE IdleInv'
  OBVIOUS
<1>0. IdleTypeOK /\ \A c \in NohzCpu : PlaceInv(c) /\ OwnerInv(c) /\ KickInv(c)
  BY DEF IdleInv
<1>1. CASE UNCHANGED idleVars
  <2>1. IdleTypeOK'
    BY <1>0, <1>1 DEF IdleTypeOK, idleVars
  <2>2. \A c \in NohzCpu : PlaceInv(c)' /\ OwnerInv(c)'
    BY <1>0, <1>1 DEF PlaceInv, OwnerInv, idleVars
  <2>3. \A c \in NohzCpu : KickInv(c)'
    BY <1>0, <1>1 DEF KickInv, Asking, Free, Reached, idleVars
  <2> QED BY <2>1, <2>2, <2>3 DEF IdleInv
<1>2. ASSUME NEW c \in NohzCpu, IdleStep(c) PROVE IdleInv'
  BY <1>0, <1>2, IdleStepTypes, IdlePlaces, IdleOwner, IdleKicks DEF IdleInv
<1>3. ASSUME NEW c \in NohzCpu,
             \/ HandlerStep(c) \/ Tick(c) \/ Block(c) \/ WakeLocal(c)
             \/ \E d \in NohzCpu : HoldLock(c, d) \/ IdleWake(c, d)
      PROVE  IdleInv'
  <2>1. IdleTypeOK'
    BY <1>0, <1>3, HandlerTypes, TaskTypes
  <2>2. \A d \in NohzCpu : PlaceInv(d)'
    BY <1>0, <1>3, HandlerPlaces
  <2>3. \A d \in NohzCpu : OwnerInv(d)'
    BY <1>0, <1>3, HandlerOwner
  <2>4. \A d \in NohzCpu : KickInv(d)'
    BY <1>0, <1>3, HandlerKicks
  <2> QED BY <2>1, <2>2, <2>3, <2>4 DEF IdleInv
<1> QED BY <1>1, <1>2, <1>3, IdleAssumption DEF IdleNext

\* An idle CPU that waits for an interrupt with TIF_NEED_RESCHED set has an IPI
\* coming or a CPU inside resched_task that is about to send it: for any number of
\* CPUs, whatever ticks, wake-ups and lock holders come in between.
THEOREM KickNeverLost == IdleSpec => []KickReachesSleeper
<1>1. IdleInv => KickReachesSleeper
  BY DEF IdleInv, KickInv, Reached, KickReachesSleeper
<1> QED BY InitIdle, NextIdle, <1>1, PTL DEF IdleSpec

\* select_nohz_load_balancer never reaches its BUG(), the owner of idle load
\* balancing is in nohz.cpu_mask unless it is on its way out, and no CPU that runs
\* a task owns it: for any number of CPUs.
THEOREM OwnersAgree == IdleSpec => []OwnerSound
<1>1. IdleInv => OwnerSound
  <2> SUFFICES ASSUME IdleInv PROVE OwnerSound
    OBVIOUS
  <2>1. \A c \in NohzCpu : at[c] # "bug"
    BY DEF IdleInv, PlaceInv
  <2>2. ASSUME owner # None
        PROVE  /\ owner \in mask \/ at[owner] \in {"disown", "release"}
               /\ at[owner] # "busy"
    <3>1. PICK c \in NohzCpu : c = owner
      BY <2>2 DEF IdleInv, IdleTypeOK
    <3>2. OwnerInv(c) /\ at[c] \in Places \ {"bug"}
      BY <2>1 DEF IdleInv, IdleTypeOK
    <3>3. at[c] \notin FreePlaces /\ (at[c] \in MaskPlaces => c \in mask)
      BY <3>1, <3>2 DEF OwnerInv
    <3>4. at[c] \in MaskPlaces \cup {"disown", "release"} /\ at[c] # "busy"
      BY <3>2, <3>3 DEF Places, MaskPlaces, FreePlaces
    <3> QED BY <3>1, <3>3, <3>4
  <2> QED BY <2>1, <2>2 DEF OwnerSound
<1> QED BY InitIdle, NextIdle, <1>1, PTL DEF IdleSpec
=============================================================================
