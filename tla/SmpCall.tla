------------------------------- MODULE SmpCall -------------------------------
(***************************************************************************)
(* Cross-CPU function calls: kernel/core/smp.c with the lock-less list of  *)
(* lib/base/src/llist.c.                                                   *)
(*                                                                         *)
(* A caller fills a call_single_data, pushes it on the target's            *)
(* call_single_queue and sends an interrupt; the target's handler takes    *)
(* the whole list, runs the functions oldest first and releases each entry *)
(* by clearing CSD_FLAG_LOCK.  The list runs through the entries, so an    *)
(* entry that is reused too early takes the rest of the list with it: the  *)
(* links are modelled as pointers.  Callers have interrupts on, and the    *)
(* handler of a CPU interrupts its caller at any step.                     *)
(***************************************************************************)
EXTENDS Naturals, FiniteSets, FiniteSetsExt

CONSTANTS
  NumCpus,  \* CPUs online
  Callers,  \* CPUs that make calls
  Masks,    \* sets of CPUs they call
  Nil       \* NULL

Cpus == 0 .. NumCpus - 1

ASSUME SmpCallAssumption ==
  NumCpus \in Nat \ {0} /\ Callers \subseteq Cpus /\ Masks \subseteq SUBSET Cpus

\* The entries: cfd_data[c].csd[d], csd_data[c], and the one on the stack of
\* smp_call_function_single on c.
Csd == [kind : {"many"}, own : Cpus, to : Cpus] \cup [kind : {"async", "stack"}, own : Cpus, to : {0}]

VARIABLES
  first,     \* call_single_queue[d].first
  nxt,       \* llist.next of an entry
  csdLocked,    \* entries with CSD_FLAG_LOCK
  ipi,       \* CPUs with IPI_CALL_FUNC pending
  entry,     \* handler: entry
  nextEntry,      \* handler: next
  hpc,       \* handler: "off", "func" or "unlock"
  cpc,        \* caller
  csd,       \* caller: csd
  wait,      \* caller: wait
  mask,      \* caller: CPUs of the call
  left,      \* caller: CPUs the current loop has still to visit
  due        \* calls filled in an entry (func, info) that have not run

hvars == <<entry, nextEntry, hpc>>
cvars == <<cpc, csd, wait, mask, left>>
callVars == <<first, nxt, csdLocked, ipi, hvars, cvars, due>>

CallInit ==
  /\ first = [d \in Cpus |-> Nil] /\ nxt = [e \in Csd |-> Nil]
  /\ csdLocked = {} /\ ipi = {}
  /\ entry = [d \in Cpus |-> Nil] /\ nextEntry = [d \in Cpus |-> Nil] /\ hpc = [d \in Cpus |-> "off"]
  /\ cpc = [c \in Cpus |-> "run"] /\ csd = [c \in Cpus |-> Nil] /\ wait = [c \in Cpus |-> FALSE]
  /\ mask = [c \in Cpus |-> {}] /\ left = [c \in Cpus |-> {}]
  /\ due = [e \in Csd |-> 0]

\* The caller's code runs only while its CPU is not in the handler.
At(c, l) == cpc[c] = l /\ hpc[c] = "off"
CallGoto(c, l) == cpc' = [cpc EXCEPT ![c] = l]

Many(c, d) == [kind |-> "many", own |-> c, to |-> d]
Stack(c) == [kind |-> "stack", own |-> c, to |-> 0]
Async(c) == [kind |-> "async", own |-> c, to |-> 0]

-----------------------------------------------------------------------------
(***************************************************************************)
(* The caller.                                                             *)
(***************************************************************************)

\* smp_call_function_many up to the choice of the path: no other CPU, one
\* (smp_call_function_single), or several.
CallMany(c, m, w) ==
  LET others == m \ {c} IN
  /\ At(c, "run")
  /\ others # {}
  /\ mask' = [mask EXCEPT ![c] = others] /\ left' = [left EXCEPT ![c] = others]
  /\ wait' = [wait EXCEPT ![c] = w]
  /\ csd' = [csd EXCEPT ![c] = IF Cardinality(others) > 1 THEN Many(c, Min(others))
                               ELSE IF w THEN Stack(c) ELSE Async(c)]
  /\ CallGoto(c, "lock")
  /\ UNCHANGED <<first, nxt, csdLocked, ipi, hvars, due>>

\* The CPU that the entry of c is for
Target(c) == Min(left[c])

\* csd_lock, csd->func and csd->info, and llist_add's new->next = first.  The
\* entry is the caller's own until it is on a list.
Prepare(c) ==
  /\ At(c, "lock") /\ csd[c] \notin csdLocked
  /\ csdLocked' = csdLocked \cup {csd[c]}
  /\ due' = [due EXCEPT ![csd[c]] = @ + 1]
  /\ nxt' = [nxt EXCEPT ![csd[c]] = first[Target(c)]]
  /\ CallGoto(c, "push")
  /\ UNCHANGED <<first, ipi, hvars, csd, wait, mask, left>>

\* The cmpxchg of llist_add, which reads the list again when it has changed.
\* The call of one CPU sends its interrupt only if the list was empty, the one
\* of many goes on to the next CPU.
Push(c) ==
  LET d == Target(c) IN
  /\ At(c, "push")
  /\ IF first[d] # nxt[csd[c]]
     THEN nxt' = [nxt EXCEPT ![csd[c]] = first[d]] /\ UNCHANGED <<first, csd, left, cpc>>
     ELSE /\ nxt' = nxt
          /\ first' = [first EXCEPT ![d] = csd[c]]
          /\ IF csd[c].kind = "many"
             THEN /\ left' = [left EXCEPT ![c] = IF @ = {d} THEN mask[c] ELSE @ \ {d}]
                  /\ csd' = [csd EXCEPT ![c] = Many(c, Min(left'[c]))]
                  /\ CallGoto(c, IF left[c] = {d} THEN "ipi" ELSE "lock")
             ELSE /\ CallGoto(c, IF first[d] = Nil THEN "ipi" ELSE "wait")
                  /\ UNCHANGED <<csd, left>>
  /\ UNCHANGED <<csdLocked, ipi, hvars, wait, mask, due>>

\* arch_send_call_function_single_ipi and arch_send_call_function_ipi_mask
SendIpi(c) ==
  /\ At(c, "ipi")
  /\ ipi' = ipi \cup mask[c]
  /\ CallGoto(c, "wait")
  /\ UNCHANGED <<first, nxt, csdLocked, hvars, csd, wait, mask, left, due>>

\* Mutant: only the first CPU of the mask is waited for.
WaitForFirst(c) ==
  /\ At(c, "wait") /\ (wait[c] => csd[c] \notin csdLocked)
  /\ CallGoto(c, "ret")
  /\ UNCHANGED <<first, nxt, csdLocked, ipi, hvars, csd, wait, mask, left, due>>

\* csd_lock_wait, for one CPU after the other
WaitFor(c) ==
  /\ At(c, "wait") /\ (wait[c] => csd[c] \notin csdLocked)
  /\ IF wait[c] /\ Cardinality(left[c]) > 1
     THEN /\ left' = [left EXCEPT ![c] = @ \ {Min(@)}]
          /\ csd' = [csd EXCEPT ![c] = Many(c, Min(left'[c]))]
          /\ UNCHANGED cpc
     ELSE CallGoto(c, "ret") /\ UNCHANGED <<left, csd>>
  /\ UNCHANGED <<first, nxt, csdLocked, ipi, hvars, wait, mask, due>>

\* Return, and on_each_cpu's call on its own CPU.  The stack entry dies.
Return(c) ==
  /\ At(c, "ret")
  /\ csd' = [csd EXCEPT ![c] = Nil] /\ wait' = [wait EXCEPT ![c] = FALSE]
  /\ mask' = [mask EXCEPT ![c] = {}] /\ left' = [left EXCEPT ![c] = {}]
  /\ CallGoto(c, "run")
  /\ UNCHANGED <<first, nxt, csdLocked, ipi, hvars, due>>

-----------------------------------------------------------------------------
(***************************************************************************)
(* generic_smp_call_function_single_interrupt.                             *)
(***************************************************************************)

\* The entries from e on
RECURSIVE Chain(_, _)
Chain(e, links) == IF e = Nil THEN {} ELSE {e} \cup Chain(links[e], links)

\* The entry that links to e, within S
Before(e, S) == CHOOSE p \in S : nxt[p] = e

\* The last entry of the list of d
LastTarget(d) == CHOOSE e \in Chain(first[d], nxt) : nxt[e] = Nil

\* llist_del_all and llist_reverse_order
Interrupt(d) ==
  LET S == Chain(first[d], nxt) IN
  /\ d \in ipi /\ hpc[d] = "off"
  /\ ipi' = ipi \ {d}
  /\ first' = [first EXCEPT ![d] = Nil]
  /\ nxt' = [e \in Csd |-> IF e \notin S THEN nxt[e]
                           ELSE IF e = first[d] THEN Nil ELSE Before(e, S)]
  /\ entry' = [entry EXCEPT ![d] = IF S = {} THEN Nil ELSE LastTarget(d)]
  /\ hpc' = [hpc EXCEPT ![d] = IF S = {} THEN "off" ELSE "func"]
  /\ UNCHANGED <<csdLocked, nextEntry, cvars, due>>

\* next = entry->next; csd->func(csd->info)
Func(d) ==
  /\ hpc[d] = "func"
  /\ nextEntry' = [nextEntry EXCEPT ![d] = nxt[entry[d]]]
  /\ due' = [due EXCEPT ![entry[d]] = @ - 1]
  /\ hpc' = [hpc EXCEPT ![d] = "unlock"]
  /\ UNCHANGED <<first, nxt, csdLocked, ipi, entry, cvars>>

\* csd_unlock; entry = next.  The link of the entry is dead.
CsdUnlock(d) ==
  /\ hpc[d] = "unlock"
  /\ csdLocked' = csdLocked \ {entry[d]}
  /\ entry' = [entry EXCEPT ![d] = nextEntry[d]] /\ nextEntry' = [nextEntry EXCEPT ![d] = Nil]
  /\ hpc' = [hpc EXCEPT ![d] = IF nextEntry[d] = Nil THEN "off" ELSE "func"]
  /\ nxt' = [nxt EXCEPT ![entry[d]] = Nil]
  /\ UNCHANGED <<first, ipi, cvars, due>>

Calling(c) == Prepare(c) \/ Push(c) \/ SendIpi(c) \/ WaitFor(c) \/ Return(c)
Handling(d) == Interrupt(d) \/ Func(d) \/ CsdUnlock(d)

CallNext ==
  \/ \E c \in Callers : \E m \in Masks, w \in BOOLEAN : CallMany(c, m, w)
  \/ \E c \in Callers : Calling(c)
  \/ \E d \in Cpus : Handling(d)

CallSpec == CallInit /\ [][CallNext]_callVars

\* A pending interrupt is taken, a CPU does not spend all its time in handlers,
\* and a cmpxchg is not beaten by another CPU's for ever.
CallFairSpec ==
  /\ CallSpec
  /\ \A c \in Cpus : /\ SF_callVars(Calling(c)) /\ WF_callVars(Handling(c))
                    /\ SF_callVars(Push(c) /\ first[Target(c)] = nxt[csd[c]])

-----------------------------------------------------------------------------
(***************************************************************************)
(* Properties.                                                             *)
(***************************************************************************)

CallTypeOK ==
  /\ first \in [Cpus -> Csd \cup {Nil}] /\ nxt \in [Csd -> Csd \cup {Nil}]
  /\ csdLocked \in SUBSET Csd /\ ipi \in SUBSET Cpus
  /\ entry \in [Cpus -> Csd \cup {Nil}] /\ nextEntry \in [Cpus -> Csd \cup {Nil}]
  /\ hpc \in [Cpus -> {"off", "func", "unlock"}]
  /\ cpc \in [Cpus -> {"run", "lock", "push", "ipi", "wait", "ret"}]
  /\ csd \in [Cpus -> Csd \cup {Nil}] /\ wait \in [Cpus -> BOOLEAN]
  /\ mask \in [Cpus -> SUBSET Cpus] /\ left \in [Cpus -> SUBSET Cpus]
  /\ due \in [Csd -> 0 .. 1]

\* What is on the list of d or in the hands of its handler
Held(d) == Chain(first[d], nxt) \cup (IF hpc[d] = "unlock" THEN {entry[d]} \cup Chain(nextEntry[d], nxt)
                                     ELSE Chain(entry[d], nxt))

\* "If @wait is true, then returns once @func has returned" (smp.c:251): the
\* functions of a call with wait have run on every CPU of its mask.
RanBeforeReturn ==
  \A c \in Cpus : cpc[c] = "ret" /\ wait[c] =>
    /\ due[Stack(c)] = 0
    /\ csd[c] # Stack(c) => \A d \in mask[c] : due[Many(c, d)] = 0

\* An entry is never refilled before its function has run, and a handler runs
\* every function it takes exactly once (csd_lock before ->func and ->info).
RunsOnce ==
  /\ \A e \in Csd : due[e] = 1 => e \in csdLocked
  /\ \A d \in Cpus : hpc[d] = "func" => due[entry[d]] = 1

\* The entry on the stack of smp_call_function_single is out of every list and
\* handler when the function returns.
StackAlive ==
  \A c, d \in Cpus : Stack(c) \in Held(d) => csd[c] = Stack(c) /\ cpc[c] # "ret"

\* Entries wait only where somebody will look: a list that is not empty has its
\* interrupt pending, or a caller that has still to send it.  A caller that
\* finds the list in use relies on this when it sends none (smp.c:149).
InterruptComes ==
  \A d \in Cpus : first[d] # Nil =>
    \/ d \in ipi
    \/ \E c \in Cpus : /\ d \in mask[c]
                     /\ \/ cpc[c] = "ipi"
                        \/ cpc[c] \in {"lock", "push"} /\ csd[c].kind = "many" /\ d \notin left[c]

\* Every call returns.
Returns == \A c \in Callers : cpc[c] = "lock" ~> cpc[c] = "run"
=============================================================================
