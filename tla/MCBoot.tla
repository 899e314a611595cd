------------------------------- MODULE MCBoot -------------------------------
(***************************************************************************)
(* Boot and processes.  A behaviour runs one part; the state of the others *)
(* stays initial.                                                          *)
(*   cpus      every device tree of at most four CPU nodes: the boot CPU   *)
(*             10, secondaries 11 to 13, a node without "reg"; secondaries *)
(*             come up within the second                                   *)
(*   late      one or two secondaries, which may park or need longer       *)
(*   signals   a task, its child, which exits with a code, without one or  *)
(*             killed, and a grandchild; a signal, handled or not; a sleep *)
(*   fork      two tasks fork, also when memory is short, and a child exits*)
(*   pids      one task forks, its three children exit                     *)
(*   memblock  every sequence of operations on four addresses, with tables *)
(*             that can fill up                                            *)
(***************************************************************************)
EXTENDS CpuBoot, Process, Memblock

CONSTANT Parts

VARIABLE part

AllTrees == UNION {[1 .. n -> {10, 11, 12, 13, 99}] : n \in 0 .. 4}
Slow == INSTANCE CpuBoot WITH Trees <- {<<10, 11>>, <<10, 11, 12>>}, Late <- TRUE

\* A signal with a handler, one ignored, SIGCHLD and SIGKILL with the default
\* action
DispAll == (9 :> "dfl") @@ (10 :> "fn") @@ (12 :> "ign") @@ (17 :> "dfl")
Family == INSTANCE Process WITH
  Task <- 1 .. 4, MaxPid <- 4, Forkers <- {1}, Exiters <- {2, 3, 4}, Short <- FALSE
Couple == INSTANCE Process WITH
  Task <- 1 .. 3, MaxPid <- 3, Exiters <- {2}, Sleepers <- {1}, MaxSend <- 1, Codes <- {0, 1}, Fatal <- {9}

vars == <<part, bootVars, processVars, mbVars>>

Init ==
  /\ part \in Parts
  /\ IF part = "cpus" THEN BootInit ELSE Slow!BootInit /\ (part = "late" \/ Len(dt) = 2)
  /\ CASE part = "pids" -> Family!ProcessInit [] part = "signals" -> Couple!ProcessInit [] OTHER -> ProcessInit
  /\ MbInit

OnBoot(p, A) == part = p /\ A /\ UNCHANGED <<part, processVars, mbVars>>
OnProcess(p, A) == part = p /\ A /\ UNCHANGED <<part, bootVars, mbVars>>
OnMemblock(A) == part = "memblock" /\ A /\ UNCHANGED <<part, bootVars, processVars>>

Next ==
  \/ OnBoot("cpus", BootNext) \/ OnBoot("late", Slow!BootNext)
  \/ OnProcess("fork", ProcessNext) \/ OnProcess("pids", Family!ProcessNext)
  \/ OnProcess("signals", Couple!ProcessNext)
  \/ OnMemblock(MbNext)

\* The fairness of BootFairSpec.
Spec ==
  /\ Init /\ [][Next]_vars
  /\ WF_vars(OnBoot("late", Slow!BootCpu))
  /\ \A h \in Slow!Hw : WF_vars(OnBoot("late", Slow!Secondary(h)))

-----------------------------------------------------------------------------
\* Whatever the device tree, no hardware CPU has two numbers; a secondary that
\* reads secondary_data in time runs as the CPU it is, on its idle task and
\* stack, also when others are late; and when the bring-up is over, a stop leaves
\* no CPU running but those that stop the others themselves (smp_init_cpus,
\* __cpu_up, secondary_start_kernel, smp_send_stop).
SecondariesSound ==
  /\ part = "cpus" => UniqueHwid /\ OwnIdle /\ StopAlone
  /\ part = "late" => UniqueHwid /\ Slow!OwnIdle

\* The boot ends although secondaries park or never come up (__cpu_up waits a
\* second, then gives up).
BootCompletes == part = "late" => BootEnds

\* Through forks that fail half-way, exits and reaping, no two tasks have the
\* same pid; and unless a call of pid.c runs in the middle of pid_alloc_pid, no
\* pid on the free list is in use or there twice, and pid_alloc_pid never takes
\* one that is in use (pid_alloc_pid, pid_remove_pid_by_process).
PidsSound ==
  CASE part = "pids" -> Family!PidsUnique [] part = "signals" -> Couple!PidsUnique [] OTHER -> PidsUnique

\* Every operation on the region arrays changes the set of addresses it means
\* the way memblock's interface says, and a full array changes nothing; the
\* arrays stay sorted and disjoint with an exact total, and the walks and the
\* searches return what the addresses say (memblock_add_range,
\* memblock_isolate_range, __next_mem_range, memblock_find_in_range).
TablesMean ==
  /\ Refines
  /\ [](Sorted /\ TotalExact)
  /\ [](part = "memblock" => FreeWalk /\ SearchRight /\ FindRight /\ TrimRight)
=============================================================================
