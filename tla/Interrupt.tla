------------------------------ MODULE Interrupt ------------------------------
(***************************************************************************)
(* The interrupt path: the irq domain and its descriptors (irq/handle.c),  *)
(* the GICv2 driver (irq-gic.c, irq-gic-common.c), irq_enter/irq_exit and  *)
(* the softirqs run on the way out (preempt.h, softirq.c).                 *)
(*                                                                         *)
(* The GIC itself is external: enable, pending, active, configuration and  *)
(* target state per interrupt, banked per CPU for the private ones.  The   *)
(* driver gives every interrupt the same priority, so a CPU that has       *)
(* acknowledged an interrupt and not ended it is signalled no other.       *)
(* Interrupt numbers are scaled: NrSgi software interrupts (16 in the      *)
(* code), then NrPpi private ones (16), then the shared ones.              *)
(***************************************************************************)
EXTENDS Naturals, Sequences, FiniteSets

CONSTANTS CPU,          \* 0 .. n-1, 0 is the boot CPU
          PhysOf,       \* the GIC CPU interface each CPU is wired to
          NrSgi, NrPpi, NrSpi,
          Specs,        \* interrupt specifiers the device tree holds
          SchedSoftirq, \* the softirq in use
          NoneMax,      \* irq_none_counter's limit (100)
          MaxRestart,   \* MAX_SOFTIRQ_RESTART
          MaxEvents     \* bound on device events and IPIs together

ASSUME InterruptAssumption ==
    /\ 0 \in CPU /\ NrSgi > 1 /\ NoneMax > 0 /\ MaxRestart > 0
    /\ \A c, d \in CPU : PhysOf[c] = PhysOf[d] => c = d

VARIABLES
    irqd,       \* irq_data_0
    en, pend, active, edge, line,    \* distributor state, per key
    target,     \* GIC_DIST_TARGET: interfaces of a shared interrupt
    running,    \* interrupts each CPU has acknowledged and not ended
    sgi,        \* <<interface, number>>: software interrupts pending
    map,        \* gic_cpu_map
    up,         \* CPUs whose interface forwards interrupts
    stage,      \* how far each CPU has come in its bring-up
    req,        \* irqs whose request has unmasked and not yet finished
    stack,      \* interrupt frames of each CPU
    on,         \* interrupts are enabled on the CPU
    hard, soft, \* hardirq count, softirqs disabled, of preempt_count
    softpend,   \* softirq_pending
    none,       \* irq_none_counter
    sent,       \* history: IPIs sent to a CPU and not yet received
    owed,       \* history: softirqs raised outside softirqs, not yet run
    budget      \* device events and IPIs still to come

hw == <<en, pend, active, edge, line, target, running, sgi>>
ctx == <<stack, on, hard, soft, softpend, owed>>
irqVars == <<irqd, hw, map, up, stage, req, ctx, none, sent, budget>>

Sgi == 0 .. NrSgi - 1
Ppi == NrSgi .. NrSgi + NrPpi - 1
Spi == NrSgi + NrPpi .. NrSgi + NrPpi + NrSpi - 1
Irq == Ppi \cup Spi
Ifaces == {PhysOf[c] : c \in CPU}

\* Private interrupts have one copy per CPU, shared ones a single copy.
Key(c, i) == IF i \in Spi THEN <<0, i>> ELSE <<c, i>>
Keys == {Key(c, i) : c \in CPU, i \in Irq}

Levels == {"level_high", "level_low"}
Edges  == {"edge_rising", "edge_falling"}
NoType == "none"

-----------------------------------------------------------------------------
(* The GIC (external).                                                     *)

\* What the CPU interface of c can forward: enabled, pending and inactive.
Forwarded(c) ==
    IF c \notin up \/ running[c] # <<>> THEN {}
    ELSE {i \in Sgi : <<PhysOf[c], i>> \in sgi}
         \cup {i \in Irq : /\ Key(c, i) \in (en \cap pend) \ active
                           /\ i \in Spi => PhysOf[c] \in target[i]}

\* Reading GIC_CPU_INTACK: the interrupt becomes active on the CPU.  A level
\* interrupt stays pending for as long as its line is up.
Acknowledge(c, i) ==
    /\ running' = [running EXCEPT ![c] = <<i>> \o @]
    /\ active' = active \cup {Key(c, i)}
    /\ pend' = IF Key(c, i) \in edge THEN pend \ {Key(c, i)} ELSE pend

\* Writing GIC_CPU_EOI ends and deactivates the interrupt.
WriteEoi(c, i) ==
    /\ running' = [running EXCEPT ![c] = SelectSeq(@, LAMBDA j : j # i)]
    /\ active' = active \ {Key(c, i)}

\* A device raises or lowers its line.
Raise(k) ==
    /\ k \notin line /\ budget > 0
    /\ budget' = budget - 1
    /\ line' = line \cup {k}
    /\ pend' = pend \cup {k}
    /\ UNCHANGED <<irqd, en, active, edge, target, running, sgi, map, up, stage,
                   req, ctx, none, sent>>

Lower(k) ==
    /\ k \in line /\ budget > 0
    /\ budget' = budget - 1
    /\ line' = line \ {k}
    /\ pend' = IF k \in edge THEN pend ELSE pend \ {k}
    /\ UNCHANGED <<irqd, en, active, edge, target, running, sgi, map, up, stage,
                   req, ctx, none, sent>>

-----------------------------------------------------------------------------
(* Bring-up: gic_of_init on the boot CPU, gic_starting_cpu on the others.  *)

IrqInit ==
    /\ irqd = [i \in Irq |-> [used |-> FALSE, mask |-> {}, type |-> NoType,
                              handler |-> FALSE]]
    /\ en \in {{}, Keys}                    \* what the firmware left behind
    /\ active \in {{}, {Key(0, i) : i \in Spi}}
    /\ pend = {} /\ edge = {} /\ line = {}
    /\ target = [i \in Spi |-> {}]
    /\ running = [c \in CPU |-> <<>>]
    /\ sgi = {}
    /\ map = [c \in CPU |-> {}]
    /\ up = {}
    /\ stage = [c \in CPU |-> IF c = 0 THEN "gic" ELSE "off"]
    /\ req = {}
    /\ stack = [c \in CPU |-> <<>>]
    /\ on = [c \in CPU |-> FALSE]
    /\ hard = [c \in CPU |-> 0]
    /\ soft = [c \in CPU |-> FALSE]
    /\ softpend = [c \in CPU |-> {}]
    /\ none = 0
    /\ sent = {}
    /\ owed = [c \in CPU |-> {}]
    /\ budget = MaxEvents

\* The banked target registers read back the reader's own interface.
gic_get_cpumask(c) == {PhysOf[c]}

\* The map of the CPUs after c has probed its interface.
ProbedMap(m, c) ==
    [d \in CPU |-> IF d = c THEN gic_get_cpumask(c) ELSE m[d] \ gic_get_cpumask(c)]

gic_cpu_config(c, e) == e \ {Key(c, i) : i \in Ppi}

gic_dist_config(e) == e \ {Key(0, i) : i \in Spi}

gic_of_init ==
    /\ stage[0] = "gic"
    /\ stage' = [stage EXCEPT ![0] = "irqs"]
    /\ map' = ProbedMap([c \in CPU |-> Ifaces], 0)
    /\ target' = [i \in Spi |-> gic_get_cpumask(0)]
    /\ edge' = edge \ {Key(0, i) : i \in Spi}
    /\ en' = gic_cpu_config(0, gic_dist_config(en))
    /\ active' = active \ ({Key(0, i) : i \in Irq})
    /\ up' = up \cup {0}
    /\ UNCHANGED <<irqd, pend, line, running, sgi, req, ctx, none, sent, budget>>

gic_starting_cpu(c) ==
    /\ stage[c] = "off" /\ stage[0] = "on"
    /\ stage' = [stage EXCEPT ![c] = "gic"]
    /\ map' = ProbedMap(map, c)
    /\ en' = gic_cpu_config(c, en)
    /\ active' = active \ {Key(c, i) : i \in Ppi}
    /\ up' = up \cup {c}
    /\ UNCHANGED <<irqd, pend, edge, line, target, running, sgi, req, ctx, none, sent, budget>>

-----------------------------------------------------------------------------
(* Mapping and requesting interrupts, on the boot CPU during its start-up. *)

\* The interrupt number a three-cell specifier stands for.
gic_irq_domain_translate(s) ==
    s.nr + NrSgi + (IF s.kind = "spi" THEN NrPpi ELSE 0)

gic_mask_irq(c, i) == en' = en \ {Key(c, i)}
gic_unmask_irq(c, i) == en' = en \cup {Key(c, i)}

\* irq_create_of_mapping: a number in range and not in use yet is masked and
\* gets a descriptor; the result is the number, -1 otherwise.
irq_create_fwspec_mapping(s) ==
    LET i == gic_irq_domain_translate(s) IN
    /\ stage[0] = "irqs"
    /\ i \in Irq /\ ~irqd[i].used
    /\ irqd' = [irqd EXCEPT ![i] = [@ EXCEPT !.used = TRUE, !.mask = {}, !.type = s.type]]
    /\ gic_mask_irq(0, i)
    /\ UNCHANGED <<pend, active, edge, line, target, running, sgi, map, up, stage,
                   req, ctx, none, sent, budget>>

\* The configuration register holds level or edge; no type leaves it alone.
gic_configure_irq(c, i, t) ==
    CASE t \in Levels -> edge \ {Key(c, i)}
      [] t \in Edges  -> edge \cup {Key(c, i)}
      [] OTHER -> edge

\* A shared interrupt must be active high or rising; others are refused.
gic_set_type(c, i, t) ==
    IF i \in Spi /\ t \notin {"level_high", "edge_rising"} THEN edge
    ELSE gic_configure_irq(c, i, t)

\* request_percpu_irq: every CPU may take the interrupt, the type is set and
\* the interrupt unmasked; only then are its argument and its handler set.
\* gic_chip, the chip of the descriptor, has no irq_set_affinity.
request_percpu_irq_unmask(i) ==
    /\ stage[0] = "irqs" /\ irqd[i].used /\ ~irqd[i].handler /\ i \notin req
    /\ irqd' = [irqd EXCEPT ![i].mask = CPU]
    /\ edge' = gic_set_type(0, i, irqd[i].type)
    /\ gic_unmask_irq(0, i)
    /\ req' = req \cup {i}
    /\ UNCHANGED <<pend, active, line, target, running, sgi, map, up, stage, ctx,
                   none, sent, budget>>

request_percpu_irq_handler(i) ==
    /\ i \in req
    /\ irqd' = [irqd EXCEPT ![i].handler = TRUE]
    /\ req' = req \ {i}
    /\ UNCHANGED <<hw, map, up, stage, ctx, none, sent, budget>>

\* Start-up of the boot CPU ends by enabling its interrupts.
BootDone ==
    /\ stage[0] = "irqs" /\ req = {}
    /\ stage' = [stage EXCEPT ![0] = "on"]
    /\ on' = [on EXCEPT ![0] = TRUE]
    /\ UNCHANGED <<irqd, hw, map, up, req, stack, hard, soft, softpend, owed, none, sent, budget>>

\* A secondary enables its copies of the requested private interrupts
\* (arch_timer_starting_cpu) and then its interrupts.
enable_percpu_irq(c) ==
    LET mine == {i \in Ppi : irqd[i].used /\ irqd[i].handler} IN
    /\ stage[c] = "gic" /\ c # 0
    /\ en' = en \cup {Key(c, i) : i \in mine}
    /\ edge' = {k \in Keys : IF k[1] = c /\ k[2] \in mine
                              THEN k \in gic_set_type(c, k[2], irqd[k[2]].type)
                              ELSE k \in edge}
    /\ stage' = [stage EXCEPT ![c] = "on"]
    /\ on' = [on EXCEPT ![c] = TRUE]
    /\ UNCHANGED <<irqd, pend, active, line, target, running, sgi, map, up, req,
                   stack, hard, soft, softpend, owed, none, sent, budget>>

-----------------------------------------------------------------------------
(* Software interrupts.                                                    *)

\* The interfaces gic_raise_softirq writes to GIC_DIST_SOFTINT.
SoftintTargets(c, mask) ==
    IF Cardinality(CPU) = 1 THEN {PhysOf[c]}
    ELSE UNION {map[d] : d \in mask}

gic_raise_softirq(c, mask, n) ==
    /\ stage[c] = "on"
    /\ mask # {} /\ \A d \in mask : stage[d] = "on"
    /\ sgi' = sgi \cup {<<p, n>> : p \in SoftintTargets(c, mask)}
    /\ budget > 0 /\ budget' = budget - 1
    /\ sent' = sent \cup {<<d, n>> : d \in mask}
    /\ UNCHANGED <<irqd, en, pend, active, edge, line, target, running, map, up,
                   stage, req, ctx, none>>

-----------------------------------------------------------------------------
(* The interrupt frames of a CPU.                                          *)

At(c, where) == stack[c] # <<>> /\ stack[c][1].at = where
Goto(c, where) == stack' = [stack EXCEPT ![c][1].at = where]
Cur(c) == stack[c][1].irq

\* The exception: interrupts are off from here to the return.
TakeIrq(c) ==
    /\ on[c] /\ Forwarded(c) # {}
    /\ on' = [on EXCEPT ![c] = FALSE]
    /\ stack' = [stack EXCEPT ![c] = <<[at |-> "iar", irq |-> 0, left |-> 0]>> \o @]
    /\ UNCHANGED <<irqd, hw, map, up, stage, req, hard, soft, softpend, owed, none, sent, budget>>

\* gic_handle_irq's loop.  A software interrupt is ended before its handler
\* runs; handle_IPI enters interrupt context for a call, not for a
\* reschedule (number 0).
ReadIarIrq(c, i) ==
    /\ At(c, "iar") /\ i \in Forwarded(c) \cap Irq
    /\ Acknowledge(c, i)
    /\ stack' = [stack EXCEPT ![c][1] = [@ EXCEPT !.at = "domain", !.irq = i]]
    /\ hard' = [hard EXCEPT ![c] = @ + 1]
    /\ UNCHANGED <<irqd, en, edge, line, target, sgi, map, up, stage, req, on, soft,
                   softpend, owed, none, sent, budget>>

ReadIarIpi(c, i) ==
    /\ At(c, "iar") /\ i \in Forwarded(c) \cap Sgi
    /\ sgi' = sgi \ {<<PhysOf[c], i>>}
    /\ sent' = sent \ {<<c, i>>}
    /\ IF i = 0
       THEN UNCHANGED <<stack, hard>>
       ELSE /\ Goto(c, "exit")
            /\ hard' = [hard EXCEPT ![c] = @ + 1]
    /\ UNCHANGED <<irqd, en, pend, active, edge, line, target, running, map, up,
                   stage, req, on, soft, softpend, owed, none, budget>>

ReadIarNone(c) ==
    /\ At(c, "iar") /\ Forwarded(c) = {}
    /\ stack' = [stack EXCEPT ![c] = Tail(@)]
    /\ on' = [on EXCEPT ![c] = TRUE]
    /\ UNCHANGED <<irqd, hw, map, up, stage, req, hard, soft, softpend, owed, none, sent, budget>>

\* The error exit of handle_domain_irq: the hundredth time, the interrupt is
\* masked on this CPU.
CountNone(c, i) ==
    IF none + 1 >= NoneMax
    THEN none' = 0 /\ gic_mask_irq(c, i)
    ELSE none' = none + 1 /\ UNCHANGED en

\* handle_domain_irq up to the handler call.  Both refusals leave without
\* ending the interrupt.
handle_domain_irq(c) ==
    LET i == Cur(c) IN
    /\ At(c, "domain")
    /\ IF c \in irqd[i].mask /\ irqd[i].handler
       THEN Goto(c, "handler") /\ UNCHANGED <<none, en>>
       ELSE Goto(c, "exit") /\ CountNone(c, i)
    /\ UNCHANGED <<irqd, pend, active, edge, line, target, running, sgi, map, up,
                   stage, req, on, hard, soft, softpend, owed, sent, budget>>

\* Only a descriptor open to several CPUs is ended after its handler.
EndsAfterHandler(i) == Cardinality(irqd[i].mask) > 1

\* The handler: it finds its line up, serves the device and may raise the
\* softirq, or finds it down and reports IRQ_NONE.
RunHandler(c) ==
    LET i == Cur(c)
        k == Key(c, i) IN
    /\ At(c, "handler")
    /\ IF EndsAfterHandler(i) THEN WriteEoi(c, i) ELSE UNCHANGED <<running, active>>
    /\ \/ /\ k \in line
          /\ line' = line \ {k}
          /\ pend' = IF k \in edge THEN pend ELSE pend \ {k}
          /\ \E raise \in SUBSET {SchedSoftirq} :
                /\ softpend' = [softpend EXCEPT ![c] = @ \cup raise]
                /\ owed' = [owed EXCEPT ![c] = IF soft[c] THEN @ ELSE @ \cup raise]
          /\ UNCHANGED <<none, en>>
       \/ /\ k \notin line
          /\ CountNone(c, i)
          /\ UNCHANGED <<line, pend, softpend, owed>>
    /\ Goto(c, "exit")
    /\ UNCHANGED <<irqd, edge, target, sgi, map, up, stage, req, on, hard, soft, sent, budget>>

-----------------------------------------------------------------------------
(* irq_exit and the softirqs.                                              *)

in_interrupt(h, s) == h > 0 \/ s

\* irq_exit: softirqs run here, with interrupts enabled, unless the CPU is
\* still inside an interrupt or in softirqs already.
irq_exit(c) ==
    /\ At(c, "exit")
    /\ hard' = [hard EXCEPT ![c] = @ - 1]
    /\ IF ~in_interrupt(hard[c] - 1, soft[c]) /\ softpend[c] # {}
       THEN /\ soft' = [soft EXCEPT ![c] = TRUE]
            /\ on' = [on EXCEPT ![c] = TRUE]
            /\ stack' = [stack EXCEPT ![c][1] = [@ EXCEPT !.at = "soft", !.left = MaxRestart]]
       ELSE Goto(c, "iar") /\ UNCHANGED <<soft, on>>
    /\ UNCHANGED <<irqd, hw, map, up, stage, req, softpend, owed, none, sent, budget>>

Lowest(s) == CHOOSE b \in s : \A x \in s : b <= x

\* The lowest pending bit selects the action.
RunSoftirq(c) ==
    LET b == Lowest(softpend[c]) IN
    /\ At(c, "soft") /\ softpend[c] # {}
    /\ stack' = [stack EXCEPT ![c][1] = [@ EXCEPT !.at = "shift", !.irq = b]]
    /\ owed' = [owed EXCEPT ![c] = @ \ {b}]
    /\ UNCHANGED <<irqd, hw, map, up, stage, req, on, hard, soft, softpend, none, sent, budget>>

\* The shared pending word itself is shifted past the bit just served.
Shifted(s, b) == {x - (b + 1) : x \in {y \in s : y > b}}

ShiftPending(c) ==
    /\ At(c, "shift")
    /\ softpend' = [softpend EXCEPT ![c] = Shifted(@, Cur(c))]
    /\ Goto(c, "soft")
    /\ UNCHANGED <<irqd, hw, map, up, stage, req, on, hard, soft, owed, none, sent, budget>>

\* Nothing was pending: interrupts go off before the word is read again.
SoftirqsDone(c) ==
    /\ At(c, "soft") /\ softpend[c] = {}
    /\ Goto(c, "off")
    /\ UNCHANGED <<irqd, hw, map, up, stage, req, on, hard, soft, softpend, owed, none, sent, budget>>

\* local_softirq_pending() is a truth value, and it is what is stored back:
\* whatever was raised meanwhile becomes bit 0.
Requery(s) == IF s = {} THEN {} ELSE {0}

LeaveSoftirqsEnabled(c) ==
    /\ At(c, "off")
    /\ softpend' = [softpend EXCEPT ![c] = Requery(@)]
    /\ Goto(c, "iar")
    /\ soft' = [soft EXCEPT ![c] = FALSE]
    /\ UNCHANGED <<irqd, hw, map, up, stage, req, on, hard, owed, none, sent, budget>>

\* With interrupts off again: restart while something is pending, within
\* MaxRestart and the time slice and no reschedule is due; or leave.
SoftirqRequery(c) ==
    /\ At(c, "off")
    /\ softpend' = [softpend EXCEPT ![c] = Requery(@)]
    /\ \/ /\ softpend[c] # {} /\ stack[c][1].left > 1
          /\ stack' = [stack EXCEPT ![c][1] = [@ EXCEPT !.at = "soft", !.left = @ - 1]]
          /\ on' = [on EXCEPT ![c] = TRUE]
          /\ UNCHANGED soft
       \/ /\ Goto(c, "iar")
          /\ on' = [on EXCEPT ![c] = FALSE]
          /\ soft' = [soft EXCEPT ![c] = FALSE]
    /\ UNCHANGED <<irqd, hw, map, up, stage, req, hard, owed, none, sent, budget>>

-----------------------------------------------------------------------------
CpuStep(c) ==
    \/ \E i \in Irq : ReadIarIrq(c, i)
    \/ \E i \in Sgi : ReadIarIpi(c, i)
    \/ ReadIarNone(c)
    \/ handle_domain_irq(c)
    \/ RunHandler(c)
    \/ irq_exit(c)
    \/ RunSoftirq(c)
    \/ ShiftPending(c)
    \/ SoftirqsDone(c)
    \/ SoftirqRequery(c)

IrqNext ==
    \/ gic_of_init
    \/ \E c \in CPU \ {0} : gic_starting_cpu(c)
    \/ \E s \in Specs : irq_create_fwspec_mapping(s)
    \/ \E i \in Irq : request_percpu_irq_unmask(i)
    \/ \E i \in Irq : request_percpu_irq_handler(i)
    \/ BootDone
    \/ \E c \in CPU : enable_percpu_irq(c)
    \/ \E c \in CPU, mask \in SUBSET CPU, n \in Sgi : gic_raise_softirq(c, mask, n)
    \/ \E k \in Keys : Raise(k)
    \/ \E k \in Keys : Lower(k)
    \/ \E c \in CPU : TakeIrq(c)
    \/ \E c \in CPU : CpuStep(c)

IrqSpec == IrqInit /\ [][IrqNext]_irqVars

\* A CPU inside an interrupt keeps executing, and a CPU whose interrupts are
\* enabled takes the exception its interface signals.
IrqFairness ==
    \A c \in CPU :
        /\ WF_irqVars(CpuStep(c))
        /\ WF_irqVars(TakeIrq(c))

IrqFairSpec == IrqSpec /\ IrqFairness

-----------------------------------------------------------------------------
(* Properties.                                                             *)

IrqTypeOK ==
    /\ en \subseteq Keys /\ pend \subseteq Keys /\ active \subseteq Keys
    /\ edge \subseteq Keys /\ line \subseteq Keys
    /\ sgi \subseteq Ifaces \X Sgi
    /\ \A c \in CPU : hard[c] \in Nat /\ softpend[c] \subseteq 0 .. SchedSoftirq

\* Every interrupt a CPU acknowledges (gic_handle_irq's read of INTACK) is
\* ended before the CPU leaves the interrupt: otherwise the GIC signals it
\* nothing more, and no tick, wakeup or call reaches it again.
NotDeaf ==
    \A c \in CPU : stack[c] = <<>> => running[c] = <<>>

\* "we run all interrupt handlers with interrupts disabled, so we cannot have
\* nesting interrupts" (preempt.h): the hardirq count is one exactly between
\* irq_enter and irq_exit, interrupts are off there, and a softirq that is
\* interrupted is not started a second time.
NoNesting ==
    \A c \in CPU :
        LET inHard == {f \in DOMAIN stack[c] : stack[c][f].at \in {"domain", "handler", "exit"}}
            inSoft == {f \in DOMAIN stack[c] : stack[c][f].at \in {"soft", "shift", "off"}}
        IN  /\ hard[c] = Cardinality(inHard) /\ hard[c] <= 1
            /\ hard[c] = 1 => ~on[c]
            /\ Cardinality(inSoft) <= 1
            /\ soft[c] = (inSoft # {})

\* The assertion BUG_ON(!irqs_disabled()) at the head of __do_softirq, and the
\* state the exception return relies on: interrupts are off whenever the CPU
\* is about to leave or to re-read the GIC.
IrqsOffAtExit ==
    \A c \in CPU : At(c, "exit") \/ At(c, "iar") => ~on[c]

\* An inter-processor interrupt is pending at exactly the CPUs it was sent
\* to: gic_cpu_map of a started CPU is its own interface and no other's.
IpiExact ==
    sgi = {<<PhysOf[s[1]], s[2]>> : s \in sent}

\* "Trigger the SCHED_SOFTIRQ if it is time to do periodic load balancing"
\* (sched/core.c, trigger_load_balance): a softirq raised by a handler has
\* run by the time the CPU has left its interrupts.
RaisedSoftirqRuns ==
    \A c \in CPU : stack[c] = <<>> => owed[c] = {}
=============================================================================
