------------------------------- MODULE CpuBoot -------------------------------
(***************************************************************************)
(* CPU enumeration, bring-up and stop: arch/arm64/core/smp.c, the entry of *)
(* a secondary CPU in head.S, kernel/core/smp.c, cpu.c and the CPU_ON call *)
(* of psci.c.                                                              *)
(*                                                                         *)
(* The boot CPU numbers the CPUs of the device tree, then starts them one  *)
(* by one: it leaves the idle task and its stack in secondary_data, asks   *)
(* the firmware to start the CPU and waits at most a second.  A secondary  *)
(* is modelled by its hardware id and knows its number only from the task  *)
(* it finds.  Any CPU may later stop the others (panic, restart, power     *)
(* off).  Idle tasks and stacks are named by the CPU they are made for.    *)
(***************************************************************************)
EXTENDS Naturals, Sequences, FiniteSets

CONSTANTS
  NrCpus,    \* CONFIG_NR_CPUS
  Trees,     \* the "reg" values of the device tree's CPU nodes, as sequences
  BootHw,    \* the hardware id of the boot CPU
  Invalid,   \* INVALID_HWID
  NoMethod,  \* hardware ids of nodes without a supported enable-method
  Late,      \* TRUE if a secondary may need more than a second
  Stoppers,  \* bound: calls of smp_send_stop
  StopFrom,  \* bound: where the boot CPU is when they happen
  Nil        \* NULL

CPU == 0 .. NrCpus - 1
Hw == UNION {{t[i] : i \in DOMAIN t} : t \in Trees} \ {Invalid}

ASSUME CpuBootAssumption == NrCpus \in Nat \ {0} /\ Late \in BOOLEAN /\ Stoppers \in Nat

VARIABLES
  dt,        \* CPU nodes not parsed yet
  map,       \* __cpu_logical_map
  count,     \* cpu_count
  bootok,    \* bootcpu_valid
  present, online, running,             \* CPU masks; cpu_running
  pc,        \* boot CPU
  cpu,       \* boot CPU: the CPU being brought up
  ret,       \* boot CPU: ret of __cpu_up is 0
  missed,    \* history: secondaries given up before they read secondary_data
  task, stack, status,                  \* secondary_data
  caps,      \* sys_caps_initialised
  spc,       \* secondaries, by hardware id
  stask, sstack,                        \* current and sp of a secondary
  stop,      \* smp_send_stop and ipi_cpu_stop, by CPU
  ipi        \* CPUs with IPI_CPU_STOP pending

enumvars == <<dt, map, count, bootok>>
upvars == <<pc, cpu, ret, missed>>
sdvars == <<task, stack, status>>
secvars == <<spc, stask, sstack>>
stopvars == <<stop, ipi>>
bootVars == <<enumvars, present, online, running, upvars, sdvars, caps, secvars, stopvars>>

\* boot_cpu_init, with the masks cpu.c starts from
BootInit ==
  /\ dt \in Trees /\ map = [c \in CPU |-> IF c = 0 THEN BootHw ELSE Invalid]
  /\ count = 1 /\ bootok = FALSE
  /\ present = {0} /\ online = {0} /\ running = {}
  /\ pc = "parse" /\ cpu = 0 /\ ret = TRUE /\ missed = {}
  /\ task = Nil /\ stack = Nil /\ status = "success" /\ caps = FALSE
  /\ spc = [h \in Hw |-> "off"] /\ stask = [h \in Hw |-> Nil] /\ sstack = [h \in Hw |-> Nil]
  /\ stop = [c \in CPU |-> "no"] /\ ipi = {}

\* The boot CPU executes: it neither stopped the others nor was stopped.
Boot(l) == pc = l /\ stop[0] = "no"

-----------------------------------------------------------------------------
(***************************************************************************)
(* Enumeration.                                                            *)
(***************************************************************************)

\* Mutant: the last entry is not compared.
IsMpidrDuplicateLast(n, h) == \E i \in CPU : 1 <= i /\ i < n - 1 /\ map[i] = h

IsMpidrDuplicate(n, h) == \E i \in CPU : 1 <= i /\ i < n /\ map[i] = h

\* The loop body of of_parse_and_init_cpus: a node that is skipped still takes
\* a number, except the boot CPU's.
Parse ==
  /\ Boot("parse") /\ dt # <<>>
  /\ LET h == Head(dt)
         skip == h = Invalid \/ IsMpidrDuplicate(count, h) \/ (h = BootHw /\ bootok) \/ count >= NrCpus
     IN  IF h = BootHw /\ ~bootok /\ ~IsMpidrDuplicate(count, h)
         THEN bootok' = TRUE /\ UNCHANGED <<map, count>>
         ELSE /\ map' = IF skip THEN map ELSE [map EXCEPT ![count] = h]
              /\ count' = count + 1 /\ bootok' = bootok
  /\ dt' = Tail(dt)
  /\ UNCHANGED <<present, online, running, upvars, sdvars, caps, secvars, stopvars>>

\* smp_init_cpus and smp_prepare_cpus.  The possible mask is full from
\* the start: what keeps a CPU that was not set up out is its NULL cpu_ops.
SmpPrepareCpus ==
  LET setup == IF bootok THEN {c \in CPU \ {0} : map[c] \notin NoMethod \cup {Invalid}} ELSE {} IN
  /\ Boot("parse") /\ dt = <<>>
  /\ map' = IF bootok THEN [c \in CPU |-> IF c \in setup \cup {0} THEN map[c] ELSE Invalid] ELSE map
  /\ present' = present \cup setup
  /\ pc' = "next"
  /\ UNCHANGED <<dt, count, bootok, online, running, cpu, ret, missed, sdvars, caps, secvars, stopvars>>

-----------------------------------------------------------------------------
(***************************************************************************)
(* smp_init and __cpu_up, on the boot CPU.                                 *)
(***************************************************************************)

\* for_each_present_cpu: the next CPU to start
NextCpu ==
  LET todo == {c \in present : c > cpu /\ c \notin online} IN
  /\ Boot("next") /\ todo # {} /\ Cardinality(online) < NrCpus
  /\ cpu' = CHOOSE c \in todo : \A d \in todo : c <= d
  /\ task' = cpu' /\ stack' = cpu' /\ status' = "mmu_off"
  /\ pc' = "on"
  /\ UNCHANGED <<enumvars, present, online, running, ret, missed, caps, secvars, stopvars>>

\* boot_secondary: CPU_ON succeeds, or __cpu_up returns without clearing
\* secondary_data (also when the CPU is on already).
CpuOn(ok) ==
  LET h == map[cpu] IN
  /\ Boot("on")
  /\ ok => spc[h] = "off"
  /\ spc' = IF ok THEN [spc EXCEPT ![h] = "on"] ELSE spc
  /\ pc' = IF ok THEN "wait" ELSE "next"
  /\ UNCHANGED <<enumvars, present, online, running, cpu, ret, missed, sdvars, caps, stask, sstack, stopvars>>

\* Mutant: the wait has no end.
WaitRunningForever ==
  /\ Boot("wait")
  /\ cpu \in running
  /\ ret' = (cpu \in online) /\ missed' = missed
  /\ pc' = "clear"
  /\ UNCHANGED <<enumvars, present, online, running, cpu, sdvars, caps, secvars, stopvars>>

\* The loop sees cpu_running, or its second is over.
WaitRunning ==
  /\ Boot("wait")
  /\ cpu \in running \/ Late \/ spc[map[cpu]] \in {"parked", "crashed"}
  /\ ret' = (cpu \in online)
  /\ missed' = missed \cup ({map[cpu]} \cap {h \in Hw : spc[h] \in {"on", "mmu", "stack"}})
  /\ pc' = "clear"
  /\ UNCHANGED <<enumvars, present, online, running, cpu, sdvars, caps, secvars, stopvars>>

\* secondary_data is cleared, then the status is read.
ClearData ==
  /\ Boot("clear")
  /\ task' = Nil /\ stack' = Nil
  /\ pc' = "status"
  /\ UNCHANGED <<enumvars, present, online, running, cpu, ret, missed, status, caps, secvars, stopvars>>

ReadStatus ==
  /\ Boot("status")
  /\ pc' = IF ~ret /\ status = "panic" THEN "panic" ELSE "next"
  /\ UNCHANGED <<enumvars, present, online, running, cpu, ret, missed, sdvars, caps, secvars, stopvars>>

\* smp_cpus_done: setup_cpu_features
SmpCpusDone ==
  /\ Boot("next") /\ (Cardinality(online) >= NrCpus \/ {c \in present : c > cpu /\ c \notin online} = {})
  /\ caps' = TRUE /\ pc' = "done"
  /\ UNCHANGED <<enumvars, present, online, running, cpu, ret, missed, sdvars, secvars, stopvars>>

-----------------------------------------------------------------------------
(***************************************************************************)
(* A secondary CPU, from secondary_entry to cpu_idle.                      *)
(***************************************************************************)

Sec(h, l, m) == spc[h] = l /\ spc' = [spc EXCEPT ![h] = m]

\* __enable_mmu: a CPU without the page size parks.
EnableMmu(h) ==
  /\ Sec(h, "on", "mmu") \/ Sec(h, "on", "parked")
  /\ UNCHANGED <<enumvars, present, online, running, upvars, sdvars, caps, stask, sstack, stopvars>>

\* __secondary_switched: the stack, then the task
LoadStack(h) ==
  /\ Sec(h, "mmu", "stack")
  /\ sstack' = [sstack EXCEPT ![h] = stack]
  /\ UNCHANGED <<enumvars, present, online, running, upvars, sdvars, caps, stask, stopvars>>

LoadTask(h) ==
  /\ Sec(h, "stack", IF task = Nil \/ sstack[h] = Nil THEN "crashed" ELSE "task")
  /\ stask' = [stask EXCEPT ![h] = task]
  /\ UNCHANGED <<enumvars, present, online, running, upvars, sdvars, caps, sstack, stopvars>>

\* check_local_cpu_capabilities: cpu_panic_kernel, or, once the capabilities
\* are final, cpu_die_early
CheckCapabilities(h) ==
  /\ \/ Sec(h, "task", "caps") /\ UNCHANGED <<status, present>>
     \/ Sec(h, "task", "parked") /\ status' = "panic" /\ UNCHANGED present
     \/ /\ caps /\ Sec(h, "task", "parked")
        /\ status' = "stuck" /\ present' = present \ {stask[h]}
  /\ UNCHANGED <<enumvars, online, running, upvars, task, stack, caps, stask, sstack, stopvars>>

\* update_cpu_boot_status(CPU_BOOT_SUCCESS), set_cpu_online, cpu_running
BootSuccess(h) ==
  /\ Sec(h, "caps", "success")
  /\ status' = "success"
  /\ UNCHANGED <<enumvars, present, online, running, upvars, task, stack, caps, stask, sstack, stopvars>>

SetOnline(h) ==
  /\ Sec(h, "success", "online")
  /\ online' = online \cup {stask[h]}
  /\ UNCHANGED <<enumvars, present, running, upvars, sdvars, caps, stask, sstack, stopvars>>

SetRunning(h) ==
  /\ Sec(h, "online", "idle") /\ stop[stask[h]] = "no"
  /\ running' = running \cup {stask[h]}
  /\ UNCHANGED <<enumvars, present, online, upvars, sdvars, caps, stask, sstack, stopvars>>

Secondary(h) ==
  \/ EnableMmu(h) \/ LoadStack(h) \/ LoadTask(h) \/ CheckCapabilities(h)
  \/ BootSuccess(h) \/ SetOnline(h) \/ SetRunning(h)

-----------------------------------------------------------------------------
(***************************************************************************)
(* Stopping the other CPUs.                                                *)
(***************************************************************************)

\* CPU c runs with interrupts on, or is about to.
Up(c) ==
  /\ stop[c] = "no"
  /\ c # 0 => \E h \in Hw : spc[h] \in {"online", "idle"} /\ stask[h] = c

\* smp_send_stop, called with interrupts off
SmpSendStop(c) ==
  /\ Up(c) /\ pc \in StopFrom
  /\ Cardinality({d \in CPU : stop[d] \in {"wait", "over"}}) < Stoppers
  /\ ipi' = IF Cardinality(online) > 1 THEN ipi \cup (online \ {c}) ELSE ipi
  /\ stop' = [stop EXCEPT ![c] = "wait"]
  /\ UNCHANGED <<enumvars, present, online, running, upvars, sdvars, caps, secvars>>

\* The wait ends when this is the only CPU online, or after a second: a CPU
\* with interrupts on has answered by then.
StopWait(c) ==
  /\ stop[c] = "wait"
  /\ Cardinality(online) = 1 \/ \A d \in online \ {c} : ~(d \in ipi /\ Up(d))
  /\ stop' = [stop EXCEPT ![c] = "over"]
  /\ UNCHANGED <<enumvars, present, online, running, upvars, sdvars, caps, secvars, ipi>>

IpiCpuStop(c) ==
  /\ c \in ipi /\ Up(c) /\ (c # 0 => \E h \in Hw : spc[h] = "idle" /\ stask[h] = c)
  /\ ipi' = ipi \ {c}
  /\ online' = online \ {c}
  /\ stop' = [stop EXCEPT ![c] = "stopped"]
  /\ UNCHANGED <<enumvars, present, running, upvars, sdvars, caps, secvars>>

BootCpu ==
  \/ Parse \/ SmpPrepareCpus \/ NextCpu \/ (\E ok \in BOOLEAN : CpuOn(ok))
  \/ WaitRunning \/ ClearData \/ ReadStatus \/ SmpCpusDone

BootNext ==
  \/ BootCpu
  \/ \E h \in Hw : Secondary(h)
  \/ \E c \in CPU : SmpSendStop(c) \/ StopWait(c) \/ IpiCpuStop(c)

BootSpec == BootInit /\ [][BootNext]_bootVars

\* The boot CPU executes, secondaries execute once they are powered.
BootFairSpec == BootSpec /\ WF_bootVars(BootCpu) /\ \A h \in Hw : WF_bootVars(Secondary(h))

-----------------------------------------------------------------------------
(***************************************************************************)
(* Properties.                                                             *)
(***************************************************************************)

BootTypeOK ==
  /\ map \in [CPU -> Hw \cup {BootHw, Invalid}] /\ count \in 1 .. NrCpus + 4 /\ bootok \in BOOLEAN
  /\ present \subseteq CPU /\ online \subseteq CPU /\ running \subseteq CPU
  /\ pc \in {"parse", "next", "on", "wait", "clear", "status", "panic", "done"}
  /\ cpu \in CPU /\ ret \in BOOLEAN /\ missed \subseteq Hw /\ caps \in BOOLEAN
  /\ task \in CPU \cup {Nil} /\ stack \in CPU \cup {Nil}
  /\ status \in {"success", "mmu_off", "stuck", "panic"}
  /\ spc \in [Hw -> {"off", "on", "mmu", "stack", "task", "caps", "success", "online", "idle",
                     "parked", "crashed"}]
  /\ stask \in [Hw -> CPU \cup {Nil}] /\ sstack \in [Hw -> CPU \cup {Nil}]
  /\ stop \in [CPU -> {"no", "wait", "over", "stopped"}] /\ ipi \subseteq CPU

\* "Duplicate MPIDRs are a recipe for disaster" (smp.c:261): no hardware CPU
\* has two numbers, although every skipped node moves the count.
UniqueHwid == \A c, d \in CPU : c # d /\ map[c] = map[d] => map[c] = Invalid

\* A secondary that has read secondary_data before the boot CPU gave it up runs
\* as the CPU whose hardware id it has, on the idle task and the stack made for
\* that CPU ("assign it the specified idle task ... the initial stack to use for
\* this CPU", smp.c:57), however late others are; one that reads it later may
\* find nothing, or the stack of the next.
OwnIdle ==
  \A h \in Hw \ missed :
    /\ spc[h] # "crashed"
    /\ stask[h] # Nil => map[stask[h]] = h /\ sstack[h] = stask[h]

\* "the secondary CPUs stop performing any activity ... smp_send_stop()
\* achieves this" (process.c:46): when a stop ends no other CPU runs, except one
\* that stops the others itself.  Two CPUs that call smp_send_stop at once both
\* go on.
StopAlone == \A c \in CPU : stop[c] = "over" => \A d \in CPU \ {c} : ~Up(d)

\* The boot ends, whatever the secondaries do: nothing waits for them for ever.
BootEnds == <>(pc \in {"panic", "done"} \/ stop[0] # "no")
=============================================================================
