------------------------------- MODULE Process -------------------------------
(***************************************************************************)
(* Processes: pids (kernel/core/pid.c), fork (fork.c), signals (signal.c)  *)
(* and exit (exit.c).                                                      *)
(*                                                                         *)
(* Tasks run on different CPUs and none of these files takes a lock, so a  *)
(* function is cut where another task's step can matter.  A list operation *)
(* is one step.  BUG() panics: no task takes a step after it.  A task that *)
(* is reaped while it still exits goes on in a structure that is free: its *)
(* steps find there what they left, or the structure is another task's by  *)
(* then, and the model ends.                                               *)
(***************************************************************************)
EXTENDS Integers, Sequences, FiniteSets, SequencesExt

CONSTANTS
  Task,      \* task structures, as numbers
  Root,      \* the task that is there at the start (pid 1)
  Forkers,   \* tasks that call do_fork
  Sleepers,  \* tasks that call wait_event_interruptible
  Exiters,   \* tasks that exit
  Disp,      \* what notifier.action holds for each signal: "dfl", "ign" or "fn"
  Chld,      \* SIGCHLD
  Codes,     \* exit codes that come with SIGCHLD
  Fatal,     \* the signals do_exit is called with
  Short,     \* TRUE if kmalloc may fail
  MaxSend,   \* bound: signals sent
  MaxPid,    \* bound: pids picked
  None

Sig == DOMAIN Disp

ASSUME ProcessAssumption ==
  /\ Task \subseteq Nat /\ Root \in Task /\ Chld \in Sig /\ Fatal \subseteq Sig /\ Sig \subseteq Nat \ {0}
  /\ Short \in BOOLEAN /\ MaxSend \in Nat /\ MaxPid \in Nat

VARIABLES
  st,        \* what a task does
  arg,       \* the argument of what it does
  pid,       \* tsk->pid.pid
  tree,      \* tasks linked in pid_root
  cache,     \* pid_root_cache, most recent first
  parent, usage,
  code,      \* exit_code
  owed,      \* references the last owner of a freed structure has yet to drop
  exited,    \* children_exit, first entry first
  pend,      \* notifier_table
  flag,      \* TIF_SIGPENDING
  cur,       \* get_signal: the position of for_each_notifier_table
  last,      \* get_signal: no bit was left when the weight was tested
  nsend,     \* signals sent so far
  raced,     \* a call of pid.c ran between the two steps of another
  panic      \* the BUG() that fired, or None

pidvars == <<pid, tree, cache, raced>>
sigvars == <<pend, flag, cur, last, nsend>>
famvars == <<parent, usage, code, owed, exited>>
processVars == <<st, arg, pidvars, famvars, sigvars, panic>>

\* process_pid_init gives idle task i the pid -i: pid 0 is always in the tree.
Pids == {0} \cup {pid[t] : t \in tree}
LastPid == CHOOSE p \in Pids : \A q \in Pids : q <= p

\* init is there: service_core_init gives it pid 1, task_create_tsk two references.
ProcessInit ==
  /\ st = [t \in Task |-> IF t = Root THEN "user" ELSE "free"]
  /\ arg = [t \in Task |-> None]
  /\ pid = [t \in Task |-> IF t = Root THEN 1 ELSE 0]
  /\ tree = {Root} /\ cache = <<>>
  /\ parent = [t \in Task |-> None] /\ usage = [t \in Task |-> 2]
  /\ code = [t \in Task |-> 0] /\ owed = [t \in Task |-> 0] /\ raced = FALSE
  /\ exited = [t \in Task |-> <<>>]
  /\ pend = [t \in Task |-> {}] /\ flag = [t \in Task |-> FALSE]
  /\ cur = [t \in Task |-> 0] /\ last = [t \in Task |-> FALSE] /\ nsend = 0 /\ panic = None

At(t, s) == st[t] = s /\ panic = None
Goto(t, s) == st' = [st EXCEPT ![t] = s]

-----------------------------------------------------------------------------
(***************************************************************************)
(* pid.c and do_fork.                                                      *)
(***************************************************************************)

\* Mutant: a cached pid stays in the cache.
PidPickKeep ==
  IF cache # <<>> THEN <<Head(cache), cache>> ELSE <<LastPid + 1, cache>>

\* pid_alloc_pid up to the insertion: the pid it picks, and the cache it leaves
PidPick ==
  IF cache # <<>> THEN <<Head(cache), Tail(cache)>> ELSE <<LastPid + 1, cache>>

\* A pid is picked but not yet inserted.
PidPending == \E q \in Task : st[q] = "fork"

\* What pid_remove_pid_by_process makes of the cache
PidCache(t) == IF pid[t] # LastPid THEN <<pid[t]>> \o cache ELSE cache

\* pid_remove_pid_by_process; without memory for the cache entry it fails and
\* the task stays in the tree.
PidRemove(t, ok) ==
  /\ ~ok => Short /\ pid[t] # LastPid
  /\ tree' = IF ok THEN tree \ {t} ELSE tree
  /\ cache' = IF ok THEN PidCache(t) ELSE cache
  /\ raced' = (raced \/ PidPending)

\* The structures kmalloc can give; a freed one that is still linked in the
\* tree is not given again, which the code does not ensure.
FreeTasks == {c \in Task : st[c] = "free" /\ c \notin tree}

\* do_fork: task_create_tsk (of the structures, which are alike, the first), then
\* pid_alloc_pid picks a pid ...
ForkPick(p, c) ==
  /\ At(p, "user") /\ p \in Forkers /\ c \in FreeTasks /\ (\A d \in FreeTasks : c <= d)
  /\ PidPick[1] <= MaxPid
  /\ pid' = [pid EXCEPT ![c] = PidPick[1]] /\ cache' = PidPick[2]
  /\ raced' = (raced \/ PidPending)
  /\ st' = [st EXCEPT ![p] = "fork", ![c] = "new"]
  /\ arg' = [arg EXCEPT ![p] = c]
  /\ usage' = [usage EXCEPT ![c] = 2] /\ parent' = [parent EXCEPT ![c] = None]
  /\ exited' = [exited EXCEPT ![c] = <<>>]
  /\ pend' = [pend EXCEPT ![c] = {}] /\ flag' = [flag EXCEPT ![c] = FALSE]
  /\ UNCHANGED <<tree, code, owed, cur, last, nsend, panic>>

\* ... and inserts it.
ForkInsert(p) ==
  /\ At(p, "fork")
  /\ IF pid[arg[p]] \in Pids
     THEN panic' = "pid" /\ UNCHANGED <<st, tree>>
     ELSE panic' = None /\ tree' = tree \cup {arg[p]} /\ Goto(p, "copy")
  /\ UNCHANGED <<arg, pid, cache, raced, famvars, sigvars>>

\* The stack or mmap_copy_mm fails: the labels fail_copy_mm to fail_ventry.
ForkFail(p) ==
  /\ At(p, "copy") /\ Short
  /\ \E ok \in BOOLEAN :
       /\ PidRemove(arg[p], ok)
       /\ IF ok THEN panic' = None /\ st' = [st EXCEPT ![p] = "user", ![arg[p]] = "free"]
                ELSE panic' = "cache" /\ st' = st
  /\ arg' = [arg EXCEPT ![p] = None]
  /\ UNCHANGED <<pid, famvars, sigvars>>

\* The child is linked to its parent and woken.
ForkDone(p) ==
  /\ At(p, "copy")
  /\ parent' = [parent EXCEPT ![arg[p]] = p]
  /\ st' = [st EXCEPT ![p] = "user", ![arg[p]] = "user"]
  /\ arg' = [arg EXCEPT ![p] = None]
  /\ UNCHANGED <<pidvars, usage, code, owed, exited, sigvars, panic>>

-----------------------------------------------------------------------------
(***************************************************************************)
(* do_send_signal and an interruptible sleep.                              *)
(***************************************************************************)

\* The target is found by its pid, and the bit is set ...
SendSignal(t, d, s) ==
  /\ At(t, "user") /\ nsend < MaxSend
  /\ nsend' = nsend + 1
  /\ pend' = [pend EXCEPT ![d] = @ \cup {s}]
  /\ arg' = [arg EXCEPT ![t] = d] /\ Goto(t, "send")
  /\ UNCHANGED <<pidvars, famvars, flag, cur, last, panic>>

\* ... then TIF_SIGPENDING.  Nothing wakes the target.
SendFlag(t) ==
  /\ At(t, "send")
  /\ flag' = [flag EXCEPT ![arg[t]] = TRUE]
  /\ arg' = [arg EXCEPT ![t] = None] /\ Goto(t, "user")
  /\ UNCHANGED <<pidvars, famvars, pend, cur, last, nsend, panic>>

\* __wait_event_interruptible: no sleep with a signal pending
Sleep(t) ==
  /\ At(t, "user") /\ t \in Sleepers /\ ~flag[t]
  /\ Goto(t, "sleep")
  /\ UNCHANGED <<arg, pidvars, famvars, sigvars, panic>>

\* The condition becomes true and wake_up is called.
WakeUp(t) ==
  /\ At(t, "sleep") /\ Goto(t, "user")
  /\ UNCHANGED <<arg, pidvars, famvars, sigvars, panic>>

-----------------------------------------------------------------------------
(***************************************************************************)
(* get_signal, on the way back to user space.                              *)
(***************************************************************************)

DoNotifyResume(t) ==
  /\ At(t, "user") /\ flag[t]
  /\ Goto(t, "get") /\ cur' = [cur EXCEPT ![t] = 0]
  /\ UNCHANGED <<arg, pidvars, famvars, pend, flag, last, nsend, panic>>

\* The bits for_each_notifier_table still visits
Ahead(t) == {s \in pend[t] : s > cur[t]}

\* The bit is cleared, then the weight of the table is tested.
TakeSignal(t) ==
  /\ At(t, "get") /\ Ahead(t) # {}
  /\ LET s == CHOOSE s \in Ahead(t) : \A u \in Ahead(t) : s <= u IN
       /\ pend' = [pend EXCEPT ![t] = @ \ {s}]
       /\ cur' = [cur EXCEPT ![t] = s]
  /\ last' = [last EXCEPT ![t] = pend'[t] = {}] /\ Goto(t, "take")
  /\ UNCHANGED <<arg, pidvars, famvars, flag, nsend, panic>>

\* The flag is cleared after the last bit; a handler leaves the loop and
\* clears it whatever is pending.  The default action walks children_exit.
HandleSignal(t) ==
  LET d == Disp[cur[t]] IN
  /\ At(t, "take")
  /\ flag' = [flag EXCEPT ![t] = @ /\ ~last[t] /\ d # "fn"]
  /\ last' = [last EXCEPT ![t] = FALSE]
  /\ arg' = [arg EXCEPT ![t] = IF d = "dfl" THEN exited[t] ELSE None]
  /\ Goto(t, CASE d = "fn" -> "user" [] d = "ign" -> "get" [] d = "dfl" -> "reap")
  /\ UNCHANGED <<pidvars, famvars, pend, cur, nsend, panic>>

GetSignalEnd(t) ==
  /\ At(t, "get") /\ Ahead(t) = {}
  /\ flag' = [flag EXCEPT ![t] = FALSE] /\ cur' = [cur EXCEPT ![t] = 0] /\ Goto(t, "user")
  /\ UNCHANGED <<arg, pidvars, famvars, pend, last, nsend, panic>>

\* do_default_signal_handle, one child: BUG() if it has an exit code; stack, mm,
\* pid and structure are freed, whatever pid_remove_pid_by_process returns, and
\* whatever the child has still to do.  The loop over the children of the child
\* follows a list that list_add has just changed and does not end.
Reap(t) ==
  /\ At(t, "reap") /\ arg[t] # <<>>
  /\ LET c == Head(arg[t])
         orphans == {k \in Task : parent[k] = c /\ st[k] # "free" /\ k \notin Range(exited[c])}
     IN IF code[c] # 0 \/ orphans # {}
        THEN /\ panic' = IF code[c] # 0 THEN "exit_code" ELSE "loop"
             /\ UNCHANGED <<st, arg, pidvars, famvars>>
        ELSE /\ \E ok \in BOOLEAN : PidRemove(c, ok)
             /\ exited' = [exited EXCEPT ![t] = SelectSeq(@, LAMBDA x : x # c)]
             /\ arg' = [arg EXCEPT ![t] = Tail(@)]
             /\ st' = [st EXCEPT ![c] = "free"]
             /\ owed' = [owed EXCEPT ![c] = IF st[c] = "zombie" THEN 2 ELSE 1]
             /\ pid' = [pid EXCEPT ![c] = IF c \in tree' THEN @ ELSE 0]
             /\ UNCHANGED <<parent, usage, code, panic>>
  /\ UNCHANGED sigvars

ReapEnd(t) ==
  /\ At(t, "reap") /\ arg[t] = <<>>
  /\ arg' = [arg EXCEPT ![t] = None] /\ Goto(t, "get")
  /\ UNCHANGED <<pidvars, famvars, sigvars, panic>>

-----------------------------------------------------------------------------
(***************************************************************************)
(* Exit: SIGCHLD "sent" by a task, or do_exit, then task_do_exit.          *)
(***************************************************************************)

\* SIGCHLD carries the exit code; do_exit sets the bit of its own signal and
\* leaves -1.
ExitNotify(t, s, e) ==
  /\ At(t, "user") /\ t \in Exiters /\ parent[t] # None
  /\ pend' = [pend EXCEPT ![parent[t]] = @ \cup {s}]
  /\ code' = [code EXCEPT ![t] = e] /\ Goto(t, "exit")
  /\ UNCHANGED <<arg, pidvars, parent, usage, owed, exited, flag, cur, last, nsend, panic>>

ExitLink(t) ==
  /\ At(t, "exit")
  /\ exited' = [exited EXCEPT ![parent[t]] = <<t>> \o @]
  /\ Goto(t, "zombie")
  /\ UNCHANGED <<arg, pidvars, parent, usage, code, owed, sigvars, panic>>

\* put_task_struct
Put(t) ==
  /\ usage' = [usage EXCEPT ![t] = @ - 1]
  /\ panic' = IF usage[t] = 1 THEN "usage" ELSE None

ExitDead(t) ==
  /\ At(t, "zombie") /\ Put(t)
  /\ flag' = [flag EXCEPT ![parent[t]] = TRUE] /\ Goto(t, "dead")
  /\ UNCHANGED <<arg, pidvars, parent, code, owed, exited, pend, cur, last, nsend>>

\* schedule() for the last time; finish_task_switch on the next task drops
\* the reference of "current".
FinishTaskSwitch(t) ==
  /\ At(t, "dead") /\ Put(t) /\ Goto(t, "gone")
  /\ UNCHANGED <<arg, pidvars, parent, code, owed, exited, sigvars>>

\* The same two steps of a task whose structure its parent has freed by now; a
\* fork, even one that failed, has written to it if it has no parent.
LateExit(t) ==
  /\ panic = None /\ owed[t] > 0
  /\ IF st[t] # "free" \/ parent[t] = None
     THEN panic' = "freed" /\ UNCHANGED <<usage, owed, flag>>
     ELSE /\ Put(t) /\ owed' = [owed EXCEPT ![t] = @ - 1]
          /\ flag' = IF owed[t] = 2 THEN [flag EXCEPT ![parent[t]] = TRUE] ELSE flag
  /\ UNCHANGED <<st, arg, pidvars, parent, code, exited, pend, cur, last, nsend>>

-----------------------------------------------------------------------------
Signals(t) == DoNotifyResume(t) \/ TakeSignal(t) \/ HandleSignal(t) \/ GetSignalEnd(t) \/ Reap(t) \/ ReapEnd(t)
Exit(t) ==
  \/ \E e \in Codes : ExitNotify(t, Chld, e)
  \/ \E s \in Fatal : ExitNotify(t, s, -1)
  \/ ExitLink(t) \/ ExitDead(t) \/ FinishTaskSwitch(t) \/ LateExit(t)
Fork(t) == (\E c \in Task : ForkPick(t, c)) \/ ForkInsert(t) \/ ForkFail(t) \/ ForkDone(t)
Send(t) == (\E d \in tree, s \in Sig \ {Chld} : SendSignal(t, d, s)) \/ SendFlag(t)

ProcessNext == \E t \in Task : Fork(t) \/ Send(t) \/ Sleep(t) \/ WakeUp(t) \/ Signals(t) \/ Exit(t)

ProcessSpec == ProcessInit /\ [][ProcessNext]_processVars

-----------------------------------------------------------------------------
States == {"free", "new", "user", "fork", "copy", "send", "sleep", "get", "take", "reap",
           "exit", "zombie", "dead", "gone"}

ProcessTypeOK ==
  /\ st \in [Task -> States]
  /\ pid \in [Task -> Nat] /\ tree \subseteq Task /\ cache \in Seq(Nat)
  /\ parent \in [Task -> Task \cup {None}] /\ usage \in [Task -> 0 .. 2]
  /\ code \in [Task -> Codes \cup {-1, 0}] /\ owed \in [Task -> 0 .. 2] /\ raced \in BOOLEAN
  /\ exited \in [Task -> Seq(Task)]
  /\ pend \in [Task -> SUBSET Sig] /\ flag \in [Task -> BOOLEAN]
  /\ cur \in [Task -> Sig \cup {0}] /\ last \in [Task -> BOOLEAN] /\ nsend \in 0 .. MaxSend
  /\ panic \in {None, "pid", "cache", "loop", "exit_code", "usage", "freed"}

\* As long as no call of pid.c runs between the choice of a pid and its
\* insertion, a pid on the free list belongs to no task and is listed once, and
\* pid_alloc_pid hands out a pid that is free: the BUG_ON of its insertion does
\* not fire.  No two tasks in the tree ever have the same pid.
PidsUnique ==
  /\ \A t, u \in tree : pid[t] = pid[u] => t = u
  /\ ~raced => /\ \A i \in DOMAIN cache : cache[i] \notin Pids
               /\ IsInjective(cache)
               /\ panic # "pid"

\* The BUG() of put_task_struct never fires: the last reference of a task is
\* not dropped by task_do_exit and finish_task_switch.
UsageHeld == panic # "usage"

=============================================================================
