------------------------------- MODULE Hrtimer -------------------------------
(***************************************************************************)
(* High resolution timers: kernel/core/time/hrtimer.c, with the layer that *)
(* programs the clock event device of a CPU (tick-oneshot.c and            *)
(* clockevents.c) and the periodic tick of jiffies.c.                      *)
(*                                                                         *)
(* Everything the code does between taking and releasing cpu_base->lock is *)
(* one action.  hrtimer_interrupt() releases the lock around every         *)
(* callback and before it programs the device, so it is four actions:      *)
(* enter, callback, callback done, program.  Time passes at any point.     *)
(* The queue of a clock base is the sorted sequence that RbTree.tla shows  *)
(* timerqueue.c to keep.                                                   *)
(***************************************************************************)
EXTENDS Integers, Sequences, FiniteSets, SequencesExt, Naturals

CONSTANTS Cpus,         \* the processors
          Timers,       \* the struct hrtimer objects
          TickOf,       \* jiffies_timer[]: the periodic timer of a CPU
          Period,       \* jiffies_to_nsecs(1)
          Offset,       \* CLOCK_REALTIME - CLOCK_MONOTONIC
          MaxDelta,     \* max_delta_ns of the event devices
          HangMax,      \* the 100ms cap of the hang delay
          MaxTime,      \* bound: the clock stops here
          Requests,     \* bound: the times, slacks and modes given to hrtimer_start_range_ns
          Restarts,     \* what the callbacks of the other timers return
          NULL          \* no timer

ASSUME TicksAreTimers == TickOf \in [Cpus -> Timers]
ASSUME BoundsAssumption == Period \in Nat \ {0} /\ MaxDelta \in Nat \ {0} /\ HangMax \in Nat

VARIABLES tm,           \* the fields of each timer (remote: last started from another CPU)
          cb,           \* hrtimer_bases[]
          dev,          \* tick_cpu_device[].evtdev
          irq,          \* where each CPU is in hrtimer_interrupt()
          now,          \* ktime_get()
          jiffies_64

hrtimerVars == <<tm, cb, dev, irq, now, jiffies_64>>

KTIME_MAX == 1000000

\* HRTIMER_BASE_MONOTONIC comes before HRTIMER_BASE_REALTIME (__next_base()).
FirstOf(S) == IF "mono" \in S THEN "mono" ELSE "real"
OffsetOf(b) == IF b = "real" THEN Offset ELSE 0

Lesser(a, b) == IF a < b THEN a ELSE b
Greater(a, b) == IF a > b THEN a ELSE b

ktime_add_safe(a, b) == Lesser(a + b, KTIME_MAX)

OutOfIrq == [pc |-> "idle", now |-> 0, entry |-> 0, retries |-> 0, left |-> {}, timer |-> NULL,
             restart |-> FALSE]

\* hrtimers_prepare_cpu()
hrtimers_prepare_cpu == [active |-> [b \in {"mono", "real"} |-> <<>>], active_bases |-> {},
                         running |-> [b \in {"mono", "real"} |-> NULL], hang_detected |-> FALSE,
                         in_hrtirq |-> FALSE, next_timer |-> NULL, expires_next |-> KTIME_MAX]

-----------------------------------------------------------------------------
(* The clock event device.                                                 *)

clockevents_program_min_delta(d) == [d EXCEPT !.next_event = now]

\* A refused event is marked by the field "late".
clockevents_program_event(d, expires, force) ==
  LET delta == expires - now
  IN  IF delta <= 0
      THEN IF force THEN [dev |-> clockevents_program_min_delta(d), late |-> FALSE]
           ELSE [dev |-> [d EXCEPT !.next_event = KTIME_MAX], late |-> TRUE]
      ELSE [dev |-> [d EXCEPT !.next_event = now + Lesser(delta, MaxDelta)], late |-> FALSE]

clockevents_switch_state(d, state) == [d EXCEPT !.state = state]

tick_program_event(d, expires, force) ==
  IF expires = KTIME_MAX
  THEN [dev |-> [clockevents_switch_state(d, "oneshot_stopped") EXCEPT !.next_event = KTIME_MAX],
        late |-> FALSE]
  ELSE clockevents_program_event(clockevents_switch_state(d, "oneshot"), expires, force)

tick_init_highres == [state |-> "oneshot", next_event |-> KTIME_MAX]

-----------------------------------------------------------------------------
(* The queues.  An operator takes and returns a record of the timers, one  *)
(* CPU base and its device: s = [tm, cb, dev].                             *)

State(c) == [tm |-> tm, cb |-> cb[c], dev |-> dev[c]]

timerqueue_add(q, T, t) ==
  LET before == {i \in 1..Len(q) : T[q[i]].expires <= T[t].expires}
  IN  InsertAt(q, Cardinality(before) + 1, t)

enqueue_hrtimer(s, t) ==
  LET b == s.tm[t].base
  IN  [s EXCEPT !.tm[t].state = TRUE, !.cb.active_bases = @ \union {b},
                !.cb.active[b] = timerqueue_add(@, s.tm, t)]

\* __hrtimer_next_event_base(), with no timer excluded when exclude = NULL.
NextIn(C, T, b, exclude) ==
  LET q == SelectSeq(C.active[b], LAMBDA t : t # exclude)
  IN  IF b \in C.active_bases /\ q # <<>>
      THEN [timer |-> q[1], at |-> T[q[1]].expires - OffsetOf(b)]
      ELSE [timer |-> NULL, at |-> KTIME_MAX]

__hrtimer_next_event_base(C, T, exclude) ==
  LET m == NextIn(C, T, "mono", exclude)
      r == NextIn(C, T, "real", exclude)
      n == IF r.at < m.at THEN r ELSE m
  IN  [n EXCEPT !.at = Greater(@, 0)]

\* Sets next_timer and returns the time with it.
__hrtimer_get_next_event(s) ==
  LET n == __hrtimer_next_event_base(s.cb, s.tm, NULL)
  IN  [s |-> [s EXCEPT !.cb.next_timer = n.timer], at |-> n.at]

hrtimer_force_reprogram(s, skip_equal) ==
  LET n == __hrtimer_get_next_event(s)
      u == [n.s EXCEPT !.cb.expires_next = n.at]
  IN  IF skip_equal /\ n.at = s.cb.expires_next THEN n.s
      ELSE IF s.cb.hang_detected THEN u
      ELSE [u EXCEPT !.dev = tick_program_event(s.dev, n.at, TRUE).dev]

__remove_hrtimer(s, t, newstate, reprogram) ==
  LET b == s.tm[t].base
      q == SelectSeq(s.cb.active[b], LAMBDA x : x # t)
      u == [s EXCEPT !.tm[t].state = newstate, !.cb.active[b] = q,
                     !.cb.active_bases = IF q = <<>> THEN @ \ {b} ELSE @]
  IN  IF ~s.tm[t].state THEN [s EXCEPT !.tm[t].state = newstate]
      ELSE IF reprogram /\ t = s.cb.next_timer THEN hrtimer_force_reprogram(u, TRUE) ELSE u

\* remove_hrtimer() by a caller that is on the timer's CPU or not.
remove_hrtimer(s, t, restart, local) ==
  IF s.tm[t].state THEN __remove_hrtimer(s, t, restart, local) ELSE s

hrtimer_reprogram(s, t, local) ==
  LET expires == Greater(s.tm[t].expires - OffsetOf(s.tm[t].base), 0)
      u == [s EXCEPT !.cb.next_timer = t, !.cb.expires_next = expires]
  IN  IF ~local \/ s.cb.in_hrtirq \/ expires >= s.cb.expires_next THEN s
      ELSE IF s.cb.hang_detected THEN u
      ELSE [u EXCEPT !.dev = tick_program_event(s.dev, expires, TRUE).dev]

hrtimer_set_expires_range_ns(s, t, tim, delta) ==
  [s EXCEPT !.tm[t].soft = tim, !.tm[t].expires = ktime_add_safe(tim, delta)]

BaseTime(b) == now + OffsetOf(b)

hrtimer_start_range_ns(s, t, tim, delta, rel, local) ==
  LET r == remove_hrtimer(s, t, TRUE, local)
      e == hrtimer_set_expires_range_ns(r, t,
             IF rel THEN ktime_add_safe(tim, BaseTime(s.tm[t].base)) ELSE tim, delta)
      q == enqueue_hrtimer([e EXCEPT !.tm[t].remote = ~local], t)
  IN  IF q.cb.active[q.tm[t].base][1] = t THEN hrtimer_reprogram(q, t, local) ELSE q

\* Mutant: the next expiry counted from the time of the call.
ForwardFromNow(T, at, interval) ==
  IF at < T.expires \/ T.state THEN [timer |-> T, orun |-> 0]
  ELSE [timer |-> [T EXCEPT !.expires = at + interval, !.soft = at + interval], orun |-> 1]

\* The overruns, and the forwarded timer.
hrtimer_forward(T, at, interval) ==
  LET delta == at - T.expires
      orun == delta \div interval
      far == T.expires + interval * orun
  IN  IF delta < 0 \/ T.state THEN [timer |-> T, orun |-> 0]
      ELSE IF delta < interval
      THEN [timer |-> [T EXCEPT !.expires = @ + interval, !.soft = @ + interval], orun |-> 1]
      ELSE IF far > at
      THEN [timer |-> [T EXCEPT !.expires = far, !.soft = @ + interval * orun], orun |-> orun]
      ELSE [timer |-> [T EXCEPT !.expires = far + interval, !.soft = @ + interval * (orun + 1)],
            orun |-> orun + 1]

RunningOn(t) == cb[tm[t].cpu].running[tm[t].base] = t

hrtimer_active(t) == tm[t].state \/ RunningOn(t)

\* hrtimer_clockid_to_base(), and the rule that a relative timer of the
\* settable clock runs on the monotonic one.
BaseOfClock(clock_id, rel) == IF clock_id = "real" /\ ~rel THEN "real" ELSE "mono"

hrtimer_init(c, clock_id, rel) ==
  [cpu |-> c, base |-> BaseOfClock(clock_id, rel), state |-> FALSE, expires |-> 0, soft |-> 0,
   remote |-> FALSE]

-----------------------------------------------------------------------------
(* The interrupt.                                                          *)

\* The bases of __hrtimer_run_queues() still to visit that have a timer
\* whose soft expiry has passed at its head.
Expired(s, left, at) ==
  {b \in left : s.cb.active[b] # <<>> /\ at + OffsetOf(b) >= s.tm[s.cb.active[b][1]].soft}

\* __hrtimer_run_queues() up to the next callback, or to the end of the
\* bases and the reevaluation that follows it.  The lock is released here.
RunQueues(c, s, i) ==
  LET due == Expired(s, i.left, i.now)
      b == FirstOf(due)
      t == s.cb.active[b][1]
      run == [s EXCEPT !.cb.running[b] = t]
      n == __hrtimer_get_next_event(s)
      later == IF b = "mono" THEN i.left ELSE i.left \ {"mono"}
  IN  IF due # {}
      THEN [s |-> __remove_hrtimer(run, t, FALSE, FALSE),
            i |-> [i EXCEPT !.pc = "callback", !.timer = t, !.left = later]]
      ELSE [s |-> [n.s EXCEPT !.cb.expires_next = n.at, !.cb.in_hrtirq = FALSE],
            i |-> [i EXCEPT !.pc = "program", !.timer = NULL, !.left = {}]]

\* From the label retry to the release of the lock.
Retry(c, s, i) ==
  RunQueues(c, [s EXCEPT !.cb.in_hrtirq = TRUE, !.cb.expires_next = KTIME_MAX],
            [i EXCEPT !.left = s.cb.active_bases])

Store(c, s) == /\ tm' = s.tm
               /\ cb' = [cb EXCEPT ![c] = s.cb]
               /\ dev' = [dev EXCEPT ![c] = s.dev]

\* hrtimer_interrupt(): the event fires, next_event is cleared.
IrqEnter(c) ==
  LET s == [State(c) EXCEPT !.dev.next_event = KTIME_MAX]
      r == Retry(c, s, [OutOfIrq EXCEPT !.now = now, !.entry = now])
  IN  /\ irq[c].pc = "idle"
      /\ dev[c].state = "oneshot" /\ dev[c].next_event <= now
      /\ Store(c, r.s)
      /\ irq' = [irq EXCEPT ![c] = r.i]
      /\ UNCHANGED <<now, jiffies_64>>

\* The duty of tick_do_timer_cpu is the boot CPU's.
tick_do_timer_cpu == CHOOSE c \in Cpus : \A d \in Cpus : c <= d

tick_periodic(c) ==
  /\ irq[c].timer = TickOf[c]
  /\ jiffies_64' = IF c = tick_do_timer_cpu THEN jiffies_64 + 1 ELSE jiffies_64
  /\ tm' = [tm EXCEPT ![TickOf[c]] = hrtimer_forward(@, now, Period).timer]
  /\ irq' = [irq EXCEPT ![c].pc = "done", ![c].restart = TRUE]

\* The callback of another timer may forward it and ask for a restart, as
\* sched_clock_poll() does, or not, as hrtimer_wakeup().
OtherCallback(c) ==
  LET t == irq[c].timer
  IN  /\ t # TickOf[c]
      /\ \E restart \in Restarts :
           /\ irq' = [irq EXCEPT ![c].pc = "done", ![c].restart = restart]
           /\ tm' = IF restart
                    THEN [tm EXCEPT ![t] = hrtimer_forward(@, BaseTime(@.base), Period).timer]
                    ELSE tm
      /\ UNCHANGED jiffies_64

Callback(c) == /\ irq[c].pc = "callback"
               /\ tick_periodic(c) \/ OtherCallback(c)
               /\ UNCHANGED <<cb, dev, now>>

\* __run_hrtimer() after the callback, then the rest of the queues.
CallbackDone(c) ==
  LET t == irq[c].timer
      s == State(c)
      q == IF irq[c].restart /\ ~tm[t].state THEN enqueue_hrtimer(s, t) ELSE s
      r == RunQueues(c, [q EXCEPT !.cb.running[tm[t].base] = NULL],
                     [irq[c] EXCEPT !.timer = NULL, !.restart = FALSE])
  IN  /\ irq[c].pc = "done"
      /\ Store(c, r.s)
      /\ irq' = [irq EXCEPT ![c] = r.i]
      /\ UNCHANGED <<now, jiffies_64>>

\* Programs the device for expires_next; three times at most, then gives
\* the CPU as long as was spent here.
ProgramNext(c) ==
  LET p == tick_program_event(dev[c], cb[c].expires_next, FALSE)
      i == [irq[c] EXCEPT !.now = now, !.retries = @ + 1]
      r == Retry(c, [State(c) EXCEPT !.dev = p.dev], i)
      spent == now - irq[c].entry
      h == tick_program_event(p.dev, now + Lesser(spent, HangMax), TRUE)
  IN  /\ irq[c].pc = "program"
      /\ \/ /\ ~p.late
            /\ dev' = [dev EXCEPT ![c] = p.dev]
            /\ cb' = [cb EXCEPT ![c].hang_detected = FALSE]
            /\ irq' = [irq EXCEPT ![c] = OutOfIrq]
            /\ UNCHANGED tm
         \/ /\ p.late /\ i.retries < 3
            /\ Store(c, r.s)
            /\ irq' = [irq EXCEPT ![c] = r.i]
         \/ /\ p.late /\ i.retries = 3
            /\ dev' = [dev EXCEPT ![c] = h.dev]
            /\ cb' = [cb EXCEPT ![c].hang_detected = TRUE]
            /\ irq' = [irq EXCEPT ![c] = OutOfIrq]
            /\ UNCHANGED tm
      /\ UNCHANGED <<now, jiffies_64>>

Interrupt(c) == IrqEnter(c) \/ CallbackDone(c) \/ ProgramNext(c)

-----------------------------------------------------------------------------
(* The callers.                                                            *)

\* Code that is not inside the interrupt itself, or is a callback of it.
MayCall(c) == irq[c].pc \in {"idle", "callback"}

\* hrtimer_start_range_ns() of a timer by code running on CPU c.
Start(c, t, tim, slack, rel) ==
  /\ MayCall(c)
  /\ Store(tm[t].cpu, hrtimer_start_range_ns(State(tm[t].cpu), t, tim, slack, rel, c = tm[t].cpu))
  /\ UNCHANGED <<irq, now, jiffies_64>>

\* hrtimer_try_to_cancel() that finds the timer active and not running.
TryToCancel(c, t) ==
  /\ MayCall(c) /\ hrtimer_active(t) /\ ~RunningOn(t)
  /\ Store(tm[t].cpu, remove_hrtimer(State(tm[t].cpu), t, FALSE, c = tm[t].cpu))
  /\ UNCHANGED <<irq, now, jiffies_64>>

PassTime == /\ now < MaxTime
            /\ now' = now + 1
            /\ UNCHANGED <<tm, cb, dev, irq, jiffies_64>>

-----------------------------------------------------------------------------
(* Any code that starts and cancels timers, beside the ticks.              *)

Ticks == {TickOf[c] : c \in Cpus}

\* system_tick_init() on every CPU; the others only initialised, on some CPU.
Ticked(c) == [hrtimer_init(c, "mono", TRUE) EXCEPT !.state = TRUE, !.expires = Period, !.soft = Period]

system_tick_init(c) ==
  [hrtimers_prepare_cpu EXCEPT !.active["mono"] = <<TickOf[c]>>, !.active_bases = {"mono"},
                               !.next_timer = TickOf[c], !.expires_next = Period]

TimerInit ==
  /\ cb = [c \in Cpus |-> system_tick_init(c)]
  /\ dev = [c \in Cpus |-> [tick_init_highres EXCEPT !.next_event = Lesser(Period, MaxDelta)]]
  /\ irq = [c \in Cpus |-> OutOfIrq]
  /\ now = 0 /\ jiffies_64 = 0

HrtimerInit ==
  /\ TimerInit
  /\ tm \in [Timers -> {hrtimer_init(c, k, rel) : c \in Cpus, k \in {"mono", "real"}, rel \in BOOLEAN}
                        \union {Ticked(c) : c \in Cpus}]
  /\ \A c \in Cpus : tm[TickOf[c]] = Ticked(c)
  /\ \A t \in Timers \ Ticks : ~tm[t].state

HrtimerNext ==
  \/ PassTime
  \/ \E c \in Cpus : IrqEnter(c) \/ Callback(c) \/ CallbackDone(c) \/ ProgramNext(c)
  \/ \E c \in Cpus, t \in Timers \ Ticks :
       \/ TryToCancel(c, t)
       \/ \E r \in Requests : Start(c, t, r.tim, r.slack, r.rel)

HrtimerSpec == HrtimerInit /\ [][HrtimerNext]_hrtimerVars

-----------------------------------------------------------------------------
(* Properties.                                                             *)

HrtimerTypeOK ==
  /\ \A t \in Timers : tm[t].cpu \in Cpus /\ tm[t].soft <= tm[t].expires
  /\ \A c \in Cpus : irq[c].pc \in {"idle", "callback", "done", "program"}
  /\ now \in 0..MaxTime

\* A timer marked enqueued is exactly once in the queue of its own base and in
\* no other, the queues stay in order of expiry, and the bit of a base in
\* active_bases says whether its queue holds a timer: enqueue_hrtimer() and
\* __remove_hrtimer() keep the three together also when a timer is started
\* again while its callback runs.
QueuesExact ==
  \A c \in Cpus, b \in {"mono", "real"} :
    LET q == cb[c].active[b]
    IN  /\ (b \in cb[c].active_bases) = (q # <<>>)
        /\ IsInjective(q)
        /\ ToSet(q) = {t \in Timers : tm[t].state /\ tm[t].cpu = c /\ tm[t].base = b}
        /\ \A i \in 1..Len(q) - 1 : tm[q[i]].expires <= tm[q[i + 1]].expires

Due(t) == Greater(tm[t].expires - OffsetOf(tm[t].base), 0)

\* Outside the interrupt, the event device of a CPU fires no later than the
\* expiry of every timer in its queues that was started on that CPU (at once,
\* when the expiry has passed; at the latest at the end of the hang delay): no
\* order of starts, cancels, restarts and reprogramming, local or from another
\* CPU, leaves such a timer without an event.  A timer started from another
\* CPU has to wait for the next event, and the tick makes sure there is one.
DeviceArmed ==
  \A c \in Cpus, t \in Timers : irq[c].pc = "idle" /\ tm[t].state /\ tm[t].cpu = c =>
    /\ dev[c].state = "oneshot"
    /\ dev[c].next_event <= CASE cb[c].hang_detected -> now + HangMax
                              [] ~cb[c].hang_detected /\ tm[t].remote -> now + Period
                              [] OTHER -> Greater(now, Due(t))

\* The tick is never lost: whatever else is started, cancelled or late, the
\* periodic timer of a CPU is queued or its callback is running.  Its expiry
\* stays a multiple of the period: late interrupts do not make it drift.
TickKept ==
  \A c \in Cpus :
    LET t == TickOf[c]
    IN  hrtimer_active(t) /\ tm[t].expires % Period = 0 /\ tm[t].soft = tm[t].expires

\* jiffies_64 counts ticks of one CPU only and never runs ahead of the clock.
JiffiesBehindClock == jiffies_64 * Period <= now

-----------------------------------------------------------------------------
(***************************************************************************)
(* Tasks that sleep on an hrtimer of their own stack: schedule_hrtimeout_  *)
(* range_clock() and its callers schedule_timeout(), msleep() and          *)
(* usleep_range() of kernel/core/time/hrtimer.c.  A task is preemptible,   *)
(* so it may move to another CPU between any two of its steps; the timer   *)
(* stays on the CPU where it was initialised.                              *)
(***************************************************************************)

CONSTANTS Tasks,        \* the sleeping tasks
          SleeperOf,    \* the timer on the stack of a task
          Lengths,      \* bound: the times the tasks sleep for
          Slack,        \* max - min of usleep_range()
          Kinds,        \* the calls the tasks make: "msleep", "usleep_range"
          MaxWakes      \* bound: wakeups of a task by somebody else

VARIABLES task,         \* where each task is, and the locals of the call
          wakes         \* wakeups done

allvars == <<hrtimerVars, task, wakes>>
timervars == <<cb, dev, irq, now, jiffies_64>>

Waking == [pc |-> "ready", cpu |-> 1, state |-> "RUNNING", sleeper |-> FALSE, kind |-> "msleep",
           expires |-> 0, delta1 |-> 0, timeout |-> 0, begin |-> 0, length |-> 0, slept |-> 0]

\* A task runs when no interrupt is on its CPU.
Runs(k, pc) == task[k].pc = pc /\ irq[task[k].cpu].pc = "idle"

\* The head of the loop of msleep() and of usleep_range().
Call(k, kind, length) ==
  /\ Runs(k, "ready")
  /\ task' = [task EXCEPT ![k].pc = "enter", ![k].kind = kind, ![k].length = length, ![k].begin = now,
                          ![k].state = "UNINTERRUPTIBLE",
                          ![k].expires = IF kind = "msleep" THEN length ELSE now + length]
  /\ UNCHANGED <<hrtimerVars, wakes>>

\* schedule_hrtimeout_range_clock() up to hrtimer_start_expires(); a zero
\* expiry returns at once.
Enter(k) ==
  LET T == task[k]
      t == SleeperOf[k]
      rel == T.kind = "msleep"
      h == hrtimer_init(T.cpu, "mono", rel)
  IN  /\ Runs(k, "enter") /\ T.expires # 0
      /\ tm' = [tm EXCEPT ![t] = [h EXCEPT !.soft = T.expires,
                                           !.expires = T.expires + (IF rel THEN 0 ELSE Slack)]]
      /\ task' = [task EXCEPT ![k].pc = "start", ![k].delta1 = now, ![k].sleeper = TRUE, ![k].expires = 0,
                              ![k].timeout = IF rel THEN T.expires ELSE T.expires - now]
      /\ UNCHANGED <<timervars, wakes>>

\* The return with a zero expiry: usleep_range() takes it for the end of the sleep.
EnterZero(k) ==
  /\ Runs(k, "enter") /\ task[k].expires = 0
  /\ task' = [task EXCEPT ![k].pc = "done", ![k].state = "RUNNING", ![k].begin = 0,
                          ![k].slept = now - task[k].begin]
  /\ UNCHANGED <<hrtimerVars, wakes>>

hrtimer_start_expires(k) ==
  LET t == SleeperOf[k]
      c == tm[t].cpu
  IN  /\ Runs(k, "start")
      /\ Store(c, hrtimer_start_range_ns(State(c), t, tm[t].soft, tm[t].expires - tm[t].soft,
                                         task[k].kind = "msleep", c = task[k].cpu))
      /\ task' = [task EXCEPT ![k].pc = "schedule"]
      /\ UNCHANGED <<irq, now, jiffies_64, wakes>>

\* if (likely(t.task)) schedule(): the task stops unless it has been woken.
Schedule(k) ==
  /\ Runs(k, "schedule")
  /\ task' = [task EXCEPT ![k].pc = IF task[k].sleeper /\ task[k].state # "RUNNING"
                                    THEN "asleep" ELSE "cancel"]
  /\ UNCHANGED <<hrtimerVars, wakes>>

\* A task that was woken runs on, on the CPU the scheduler gives it.
Resume(k, c) ==
  /\ task[k].pc = "asleep" /\ task[k].state = "RUNNING" /\ irq[c].pc = "idle"
  /\ task' = [task EXCEPT ![k].pc = "cancel", ![k].cpu = c]
  /\ UNCHANGED <<hrtimerVars, wakes>>

\* hrtimer_cancel(): waits while the callback runs.
hrtimer_cancel(k) ==
  LET t == SleeperOf[k]
      c == tm[t].cpu
  IN  /\ Runs(k, "cancel") /\ ~RunningOn(t)
      /\ IF hrtimer_active(t)
         THEN Store(c, remove_hrtimer(State(c), t, FALSE, c = task[k].cpu))
         ELSE UNCHANGED <<tm, cb, dev>>
      /\ task' = [task EXCEPT ![k].pc = "leave"]
      /\ UNCHANGED <<irq, now, jiffies_64, wakes>>

\* The value left in *expires: the remaining part of the timeout.
Remaining(T) == IF now - T.delta1 > T.timeout THEN 0 ELSE T.timeout - (now - T.delta1)

\* The return, and the condition of the caller's loop: msleep() asks for the
\* remaining time, usleep_range() for the return value.
Over(T) == IF T.kind = "msleep" THEN Remaining(T) = 0 ELSE ~T.sleeper

Leave(k) ==
  LET T == task[k]
  IN  /\ Runs(k, "leave")
      /\ task' = [task EXCEPT ![k] =
           IF Over(T)
           THEN [Waking EXCEPT !.pc = "done", !.kind = T.kind, !.length = T.length,
                                !.slept = now - T.begin]
           ELSE [T EXCEPT !.pc = "enter", !.expires = Remaining(T), !.state = "UNINTERRUPTIBLE",
                          !.delta1 = 0, !.timeout = 0]]
      /\ UNCHANGED <<hrtimerVars, wakes>>

\* wake_up_process() by code that does not belong to the timer.
WakeTask(k) ==
  /\ wakes[k] < MaxWakes /\ task[k].state # "RUNNING"
  /\ task' = [task EXCEPT ![k].state = "RUNNING"]
  /\ wakes' = [wakes EXCEPT ![k] = @ + 1]
  /\ UNCHANGED hrtimerVars

\* The load balancer moves a preempted task.
Migrate(k, c) ==
  /\ task[k].pc \in {"enter", "start", "schedule", "cancel"} /\ Runs(k, task[k].pc)
  /\ c # task[k].cpu
  /\ task' = [task EXCEPT ![k].cpu = c]
  /\ UNCHANGED <<hrtimerVars, wakes>>

\* The callbacks: tick_periodic(), and hrtimer_wakeup() for a sleeper.
hrtimer_wakeup(c) ==
  LET k == CHOOSE j \in Tasks : SleeperOf[j] = irq[c].timer
  IN  IF irq[c].pc = "callback" /\ irq[c].timer # TickOf[c]
      THEN task' = [task EXCEPT ![k].sleeper = FALSE,
                                ![k].state = IF task[k].sleeper THEN "RUNNING" ELSE @]
      ELSE UNCHANGED task

SleepInit ==
  /\ TimerInit
  /\ tm = [t \in Timers |-> IF t \in Ticks THEN Ticked(CHOOSE c \in Cpus : TickOf[c] = t)
                            ELSE hrtimer_init(1, "mono", TRUE)]
  /\ task = [k \in Tasks |-> Waking]
  /\ wakes = [k \in Tasks |-> 0]

IrqStep(c) == /\ IrqEnter(c) \/ Callback(c) \/ CallbackDone(c) \/ ProgramNext(c)
              /\ hrtimer_wakeup(c)
              /\ UNCHANGED wakes

TaskStep(k) == \/ Enter(k) \/ EnterZero(k) \/ hrtimer_start_expires(k) \/ Schedule(k)
               \/ hrtimer_cancel(k) \/ Leave(k)
               \/ \E c \in Cpus : Resume(k, c)

SleepNext ==
  \/ PassTime /\ UNCHANGED <<task, wakes>>
  \/ \E c \in Cpus : IrqStep(c)
  \/ \E k \in Tasks : \/ TaskStep(k) \/ WakeTask(k)
                      \/ \E c \in Cpus : Migrate(k, c)
                      \/ \E kind \in Kinds, n \in Lengths : Call(k, kind, n)

SleepSpec == SleepInit /\ [][SleepNext]_allvars

\* Weak fairness, with the enabling conditions written out: the clock runs, an
\* interrupt that is due or has begun goes on, and a task that can run does.
IrqDue(c) == irq[c].pc # "idle" \/ (dev[c].state = "oneshot" /\ dev[c].next_event <= now)

TaskCanRun(k) ==
  \/ \E pc \in {"enter", "start", "schedule", "leave"} : Runs(k, pc)
  \/ Runs(k, "cancel") /\ ~RunningOn(SleeperOf[k])
  \/ task[k].pc = "asleep" /\ task[k].state = "RUNNING" /\ \E c \in Cpus : irq[c].pc = "idle"

FairSleepSpec ==
  /\ SleepSpec
  /\ []<>(now = MaxTime) \/ []<><<now' # now>>_allvars
  /\ \A c \in Cpus : []<>~IrqDue(c) \/ []<><<irq'[c] # irq[c]>>_allvars
  /\ \A k \in Tasks : []<>~TaskCanRun(k) \/ []<><<task'[k].pc # task[k].pc>>_allvars

-----------------------------------------------------------------------------
(* Properties.                                                             *)

SleepTypeOK ==
  /\ HrtimerTypeOK
  /\ \A k \in Tasks :
       /\ task[k].pc \in {"ready", "enter", "start", "schedule", "asleep", "cancel", "leave", "done"}
       /\ task[k].cpu \in Cpus

\* The timer lives on the stack of the sleeping call.  Once the call has
\* returned from hrtimer_cancel(), and before the next one initialises it, no
\* queue holds the timer and no CPU is in its callback, wherever the task and
\* the timer were when the two met.
StackTimerGone ==
  \A k \in Tasks : task[k].pc \in {"ready", "enter", "start", "leave", "done"} =>
    /\ \A c \in Cpus, b \in {"mono", "real"} :
         /\ \A i \in 1..Len(cb[c].active[b]) : cb[c].active[b][i] # SleeperOf[k]
         /\ cb[c].running[b] # SleeperOf[k]
    /\ \A c \in Cpus : irq[c].timer # SleeperOf[k]

\* A task that is stopped has a timer that will wake it, or has been woken:
\* the timer is queued or its callback has not yet run.
SleeperHasTimer ==
  \A k \in Tasks : task[k].pc = "asleep" /\ task[k].state # "RUNNING" =>
    /\ task[k].sleeper
    /\ \/ tm[SleeperOf[k]].state
       \/ \E c \in Cpus : irq[c].pc = "callback" /\ irq[c].timer = SleeperOf[k]

SleptEnough(k) == task[k].pc = "done" => task[k].slept >= task[k].length

\* msleep() "sleep[s] safely even with waitqueue interruptions": woken early by
\* anybody, at any point of the call, it goes back to sleep for what is left
\* and never returns before the time has passed.
MsleepLongEnough == \A k \in Tasks : task[k].kind = "msleep" => SleptEnough(k)

-----------------------------------------------------------------------------
(***************************************************************************)
(* The lockless hrtimer_active() of kernel/core/time/hrtimer.c against     *)
(* __run_hrtimer(), hrtimer_start() and hrtimer_try_to_cancel(), one       *)
(* memory access a step.  The sequence count is the one of                 *)
(* include/minix_rt/seqlock.h; the accesses of a CPU take effect in        *)
(* program order, which the barriers in those functions ask for.           *)
(***************************************************************************)

CONSTANTS MaxRuns       \* bound: callbacks run

VARIABLES state,        \* timer->state
          activeRunning,      \* base->running == timer
          seq,          \* base->seq
          writer,       \* the step of __run_hrtimer(), which holds the lock outside "callback"
          runs,         \* callbacks begun
          reader,       \* the step of hrtimer_active() and the count it read
          sawIdle       \* during the read, the timer was neither enqueued nor running

activeVars == <<state, activeRunning, seq, writer, runs, reader, sawIdle>>

ActiveInit == /\ state = FALSE /\ activeRunning = FALSE /\ seq = 0 /\ writer = "idle" /\ runs = 0
        /\ reader = [pc |-> "out", seq |-> 0, result |-> FALSE] /\ sawIdle = FALSE

Unlocked == writer \in {"idle", "callback"}

\* What the reader may have witnessed after a step.
Watch == sawIdle' = (sawIdle \/ (~state' /\ ~activeRunning'))

\* base->running = timer, for an enqueued timer found expired.
RunTimer == /\ writer = "idle" /\ state /\ runs < MaxRuns
            /\ activeRunning' = TRUE /\ writer' = "barrier1" /\ runs' = runs + 1
            /\ UNCHANGED <<state, seq>>

\* Mutant: a plain barrier, which leaves the count as it is.
NoSequence ==
  /\ writer \in {"barrier1", "barrier2", "barrier3", "barrier4"}
  /\ writer' = CASE writer = "barrier1" -> "barrier2" [] writer = "barrier2" -> "remove"
                 [] writer = "barrier3" -> "barrier4" [] writer = "barrier4" -> "clear"
  /\ UNCHANGED <<state, activeRunning, runs, seq>>

\* raw_write_seqcount_barrier(): two increments.
raw_write_seqcount_barrier ==
  /\ writer \in {"barrier1", "barrier2", "barrier3", "barrier4"}
  /\ seq' = seq + 1
  /\ writer' = CASE writer = "barrier1" -> "barrier2" [] writer = "barrier2" -> "remove"
                 [] writer = "barrier3" -> "barrier4" [] writer = "barrier4" -> "clear"
  /\ UNCHANGED <<state, activeRunning, runs>>

\* __remove_hrtimer(), then the callback with the lock released.
RemoveTimer == /\ writer = "remove"
               /\ state' = FALSE /\ writer' = "callback"
               /\ UNCHANGED <<activeRunning, seq, runs>>

\* The callback has returned; enqueued again when it asked for it.
Returned == /\ writer = "callback"
            /\ \E restart \in BOOLEAN : state' = (state \/ restart)
            /\ writer' = "barrier3"
            /\ UNCHANGED <<activeRunning, seq, runs>>

ClearRunning == /\ writer = "clear"
                /\ activeRunning' = FALSE /\ writer' = "idle"
                /\ UNCHANGED <<state, seq, runs>>

\* hrtimer_start_range_ns(), and hrtimer_try_to_cancel() of a timer that does not run.
StartTimer == Unlocked /\ state' = TRUE /\ UNCHANGED <<activeRunning, seq, writer, runs>>
CancelTimer == Unlocked /\ ~activeRunning /\ state' = FALSE /\ UNCHANGED <<activeRunning, seq, writer, runs>>

WriterStep == \/ RunTimer \/ raw_write_seqcount_barrier \/ RemoveTimer \/ Returned \/ ClearRunning
              \/ StartTimer \/ CancelTimer

\* raw_read_seqcount_begin() spins while a write is under way.
ReadBegin == /\ reader.pc \in {"out", "begin"} /\ seq % 2 = 0
             /\ reader' = [reader EXCEPT !.pc = "state", !.seq = seq]
             /\ sawIdle' = IF reader.pc = "out" THEN ~state /\ ~activeRunning ELSE sawIdle

ReadState == /\ reader.pc = "state"
             /\ reader' = IF state THEN [reader EXCEPT !.pc = "out", !.result = TRUE]
                          ELSE [reader EXCEPT !.pc = "running"]
             /\ UNCHANGED sawIdle

ReadRunning == /\ reader.pc = "running"
               /\ reader' = IF activeRunning THEN [reader EXCEPT !.pc = "out", !.result = TRUE]
                            ELSE [reader EXCEPT !.pc = "retry"]
               /\ UNCHANGED sawIdle

\* read_seqcount_retry(); a timer never changes its base.
ReadRetry == /\ reader.pc = "retry"
             /\ reader' = IF seq # reader.seq THEN [reader EXCEPT !.pc = "begin"]
                          ELSE [reader EXCEPT !.pc = "out", !.result = FALSE]
             /\ UNCHANGED sawIdle

ReaderStep == /\ ReadBegin \/ ReadState \/ ReadRunning \/ ReadRetry
              /\ UNCHANGED <<state, activeRunning, seq, writer, runs>>

ActiveNext == \/ WriterStep /\ Watch /\ UNCHANGED reader
        \/ ReaderStep

ActiveSpec == ActiveInit /\ [][ActiveNext]_activeVars

\* hrtimer_active() answers "not active" only if the timer was in fact neither
\* enqueued nor in its callback at some moment of the call: "It is important
\* for this function to not return a false negative" (hrtimer.c:723).
NoFalseNegative ==
  [][reader.pc = "retry" /\ reader'.pc = "out" /\ ~reader'.result => sawIdle]_activeVars
=============================================================================
