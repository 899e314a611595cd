------------------------------- MODULE MCTime -------------------------------
(***************************************************************************)
(* Interrupts, timers and the idle loop on two CPUs.  A behaviour runs one  *)
(* part; the state of the others stays initial.                             *)
(*   irq     a level-triggered private timer and an edge-triggered shared   *)
(*           interrupt; the boot CPU is not wired to interface 0            *)
(*   idle    CPUs that wake, kick and tick each other                       *)
(*   timer   the ticks and a timer of either clock, started and cancelled   *)
(*           on either CPU                                                  *)
(*   hang    one CPU whose tick is due again whenever it has been handled   *)
(*   sleep   the ticks and a task in msleep() or usleep_range() that moves  *)
(*           between the CPUs and is woken early                            *)
(*   active  hrtimer_active() against the interrupt                         *)
(***************************************************************************)
EXTENDS Interrupt, Idle, Hrtimer

CONSTANT Parts

VARIABLE part

TwoCpus == 0 .. 1
Crossed == [c \in 0 .. 1 |-> 1 - c]
TwoSpecs == {[kind |-> "ppi", nr |-> 0, type |-> "level_low"],
             [kind |-> "spi", nr |-> 0, type |-> "edge_rising"]}
TickTimers == [c \in Cpus |-> IF c = 1 THEN "tick1" ELSE "tick2"]
StackTimer == [k \in Tasks |-> "ta"]

\* A relative expiry with slack and an absolute one, which may have passed.
TwoRequests == {[tim |-> 0, slack |-> 1, rel |-> TRUE], [tim |-> 3, slack |-> 0, rel |-> FALSE]}

Sleeping == INSTANCE Hrtimer WITH Timers <- {"tick1", "tick2", "ta"}, MaxTime <- 2

Hanging == INSTANCE Hrtimer WITH Cpus <- {1}, Timers <- {"tick1"}, TickOf <- [c \in {1} |-> "tick1"],
             Period <- 1, MaxTime <- 4

vars == <<part, irqVars, idleVars, allvars, activeVars>>

Init ==
  /\ part \in Parts
  /\ IrqInit /\ (part # "irq" => en = {} /\ active = {})
  /\ IdleInit
  /\ CASE part = "timer" -> HrtimerInit /\ task = <<>> /\ wakes = <<>>
       [] part = "hang" -> Hanging!HrtimerInit /\ task = <<>> /\ wakes = <<>>
       [] OTHER -> Sleeping!SleepInit
  /\ ActiveInit

OnIrq(A) == part = "irq" /\ A /\ UNCHANGED <<part, idleVars, allvars, activeVars>>
OnIdle(A) == part = "idle" /\ A /\ UNCHANGED <<part, irqVars, allvars, activeVars>>
OnTimer(p, A) == part = p /\ A /\ UNCHANGED <<part, irqVars, idleVars, activeVars>>
OnActive(A) == part = "active" /\ A /\ UNCHANGED <<part, irqVars, idleVars, allvars>>

Next ==
  \/ OnIrq(IrqNext)
  \/ OnIdle(IdleNext)
  \/ OnTimer("timer", HrtimerNext /\ UNCHANGED <<task, wakes>>)
  \/ OnTimer("hang", Hanging!HrtimerNext /\ UNCHANGED <<task, wakes>>)
  \/ OnTimer("sleep", Sleeping!SleepNext)
  \/ OnActive(ActiveNext)

\* The fairness of IdleFairSpec.
Spec ==
  /\ Init /\ [][Next]_vars
  /\ \A c \in NohzCpu : WF_vars(OnIdle(HandlerStep(c))) /\ SF_vars(OnIdle(IdleStep(c)))

----------------------------------------------------------------------------
\* Every interrupt a CPU acknowledges is ended before it leaves the handler,
\* handlers do not nest, softirqs are not entered twice, and an IPI reaches
\* exactly the CPUs it was sent to (gic_handle_irq, irq_enter, __do_softirq,
\* gic_raise_softirq).
InterruptsSound == NotDeaf /\ NoNesting /\ IrqsOffAtExit /\ IpiExact

\* No order of starts, cancels, restarts and late interrupts, local or from the
\* other CPU, loses a timer or the tick, leaves a queue out of order or jiffies
\* ahead of the clock (hrtimer_start_range_ns, remove_hrtimer,
\* hrtimer_interrupt, tick_periodic).  A timer on the stack of a sleeping call is
\* gone when the call returns, the sleeper always has a timer that will wake it,
\* and msleep() sleeps for as long as it was asked although others wake the task
\* (schedule_hrtimeout_range_clock, msleep).
TimersSound ==
  /\ part = "timer" => QueuesExact /\ DeviceArmed /\ TickKept /\ JiffiesBehindClock
  /\ part = "hang" => Hanging!DeviceArmed /\ Hanging!TickKept /\ Hanging!JiffiesBehindClock
  /\ part = "sleep" => Sleeping!StackTimerGone /\ Sleeping!SleeperHasTimer /\ Sleeping!MsleepLongEnough

=============================================================================
