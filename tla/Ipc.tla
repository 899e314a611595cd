--------------------------------- MODULE Ipc ---------------------------------
(***************************************************************************)
(* Message passing between tasks and the servers of Minix-rt               *)
(* (kernel/core/ipc.c on top of kernel/include/minix_rt/wait.h).           *)
(*                                                                         *)
(* An endpoint is owned by one server task.  Any task sends a request to   *)
(* an endpoint and sleeps until the server replies; the server receives    *)
(* the oldest request without unlinking it, and unlinks it in its reply.   *)
(* A request lives in a heap node which its sender frees when it returns,  *)
(* or the server frees when the request is a notification.                 *)
(*                                                                         *)
(* A step is one access to shared state: one critical section of           *)
(* ep_list_lock, one wake_up(), one store to a node.  ep_lock guards only   *)
(* ipc_req_count, which no task but the owner of the endpoint ever         *)
(* reaches, so its critical sections are merged with their neighbours.     *)
(***************************************************************************)
EXTENDS Naturals, Sequences

CONSTANTS
    Procs,      \* tasks
    Endpoints,  \* the entries of ipc_ep_info[]
    Owner,      \* Owner[e]: the task whose comm is the name of endpoint e
    Nodes,      \* heap cells that kmalloc(sizeof(struct ipc_mess_node)) returns
    Calls,      \* <<p, op, e>>: task p may issue system call op on endpoint e
    None        \* the NULL pointer

ASSUME IpcAssumption ==
    /\ Owner \in [Endpoints -> Procs]
    /\ \A d, e \in Endpoints : Owner[d] = Owner[e] => d = e
    /\ Calls \subseteq Procs \X {"send", "notify", "receive", "reply"} \X Endpoints
    /\ None \notin Procs \cup Nodes \cup Endpoints

VARIABLES
    tsk, state, list, count,  \* ipc_ep_info[e]: owner, EP_STATE_*, queue, ipc_req_count
    reg,     \* progress of ipc_register_endpoint_by_tsk for each endpoint
    live,    \* heap cell n is between kmalloc and kfree
    finish, mess,  \* is_finish and m of the struct ipc_mess_node in cell n
    pc,      \* where each task is in the system call it executes
    call,    \* the endpoint that system call is about
    cur,     \* ep_node of __ipc_send
    buf,     \* the message behind m_ptr of __ipc_send
    ret,     \* what the last system call returned (OK while one is executing)
    rnode,   \* ep_node of __ipc_receive, then of __ipc_reply
    rbuf,    \* the message a server received and answers in
    tstate,  \* task state: RUNNING, or UNINT from prepare_to_wait to the wake-up
    queue,   \* the wait queue the task is linked on
    race     \* history: a sender left its wait inside the window of __ipc_reply

epVars == <<tsk, state, list, count>>
nodeVars == <<live, finish, mess>>
callVars == <<pc, call, cur, buf, ret>>
srvVars == <<rnode, rbuf>>
waitVars == <<tstate, queue>>
vars == <<epVars, reg, nodeVars, callVars, srvVars, waitVars, race>>

\* What the IPC code looks at in a message_t: the IPC_M_TYPE_NOTIFIER bit,
\* m_source, and whether the payload is a request or a server's answer.
Message == [notif : BOOLEAN, src : Procs \cup {None}, reply : BOOLEAN]
ZeroMessage == [notif |-> FALSE, src |-> None, reply |-> FALSE]

\* &ep_info->wait and &ep_node->wait.
EpWait(e) == <<"ep", e>>
NodeWait(n) == <<"node", n>>
WaitQueues == ({"ep"} \X Endpoints) \cup ({"node"} \X Nodes)

States == {"NONE", "WAITTING", "RUNNING"}
Errors == {"OK", "EINVAL", "ENODEV", "ENOMEM", "EACCES", "EBUSY"}

SendPCs == {"s_reg", "s_reg_check", "s_reg_sched", "s_alloc", "s_enqueue",
            "s_wake", "s_wait", "s_wait_check", "s_wait_sched", "s_copy", "s_free"}
ReceivePCs == {"r_list", "r_wait", "r_wait_check", "r_wait_sched", "r_first"}
ReplyPCs == {"p_del", "p_finish", "p_copy", "p_wake", "p_dec"}
PCs == {"idle"} \cup SendPCs \cup ReceivePCs \cup ReplyPCs

Init ==
    /\ tsk = [e \in Endpoints |-> None]
    /\ state = [e \in Endpoints |-> "NONE"]
    /\ list = [e \in Endpoints |-> <<>>]
    /\ count = [e \in Endpoints |-> 0]
    /\ reg = [e \in Endpoints |-> "none"]
    /\ live = [n \in Nodes |-> FALSE]
    /\ finish = [n \in Nodes |-> FALSE]
    /\ mess = [n \in Nodes |-> ZeroMessage]
    /\ pc = [p \in Procs |-> "idle"]
    /\ call = [p \in Procs |-> None]
    /\ cur = [p \in Procs |-> None]
    /\ buf = [p \in Procs |-> ZeroMessage]
    /\ rnode = [p \in Procs |-> None]
    /\ rbuf = [p \in Procs |-> ZeroMessage]
    /\ tstate = [p \in Procs |-> "RUNNING"]
    /\ queue = [p \in Procs |-> None]
    /\ ret = [p \in Procs |-> "OK"]
    /\ race = FALSE

\* kfree(): what the next kmalloc finds in the cell does not matter, it writes
\* every field.
FreeNode(n) ==
    /\ live' = [live EXCEPT ![n] = FALSE]
    /\ finish' = [finish EXCEPT ![n] = FALSE]
    /\ mess' = [mess EXCEPT ![n] = ZeroMessage]

-----------------------------------------------------------------------------
(* Wait queues (kernel/core/sched/wait.c).                                 *)

Goto(p, l) == pc' = [pc EXCEPT ![p] = l]

\* The locals of the system call die with it.
Return(p, err) ==
    /\ Goto(p, "idle")
    /\ ret' = [ret EXCEPT ![p] = err]
    /\ call' = [call EXCEPT ![p] = None]
    /\ cur' = [cur EXCEPT ![p] = None]
    /\ buf' = [buf EXCEPT ![p] = ZeroMessage]

\* A system call on endpoint e passes its first checks.
Enter(p, e, l) ==
    /\ Goto(p, l)
    /\ call' = [call EXCEPT ![p] = e]
    /\ ret' = [ret EXCEPT ![p] = "OK"]
    /\ UNCHANGED <<cur, buf>>

\* The system call goes on.
Continue(p, l) == Goto(p, l) /\ UNCHANGED <<call, cur, buf, ret>>

\* wake_up(): every (non-exclusive) waiter is made runnable and unlinked.
WakeUp(q) ==
    /\ tstate' = [p \in Procs |-> IF queue[p] = q THEN "RUNNING" ELSE tstate[p]]
    /\ queue' = [p \in Procs |-> IF queue[p] = q THEN None ELSE queue[p]]

\* prepare_to_wait(): link unless linked, and set the state, under q->lock.
PrepareToWait(p, q) ==
    /\ queue' = [queue EXCEPT ![p] = q]
    /\ tstate' = [tstate EXCEPT ![p] = "UNINT"]

\* finish_wait()
FinishWait(p) ==
    /\ queue' = [queue EXCEPT ![p] = None]
    /\ tstate' = [tstate EXCEPT ![p] = "RUNNING"]

(***************************************************************************)
(* wait_event(q, cond), entered at label l: a first test, then rounds of   *)
(* prepare_to_wait, test, schedule.  The first test has no effect when it  *)
(* fails, so it is merged with the prepare_to_wait that follows it.        *)
(***************************************************************************)
WaitFast(p, l, cond, next) ==
    /\ pc[p] = l /\ cond
    /\ Goto(p, next)
    /\ UNCHANGED waitVars

WaitPrepare(p, l, check, q) ==
    /\ pc[p] = l
    /\ PrepareToWait(p, q)
    /\ Goto(p, check)

WaitTest(p, check, sched, cond, next) ==
    /\ pc[p] = check
    /\ IF cond THEN FinishWait(p) /\ Goto(p, next)
               ELSE Goto(p, sched) /\ UNCHANGED waitVars

\* schedule() returns once somebody has made the task runnable again.
WaitWoken(p, sched, l) ==
    /\ pc[p] = sched /\ tstate[p] = "RUNNING"
    /\ Goto(p, l)
    /\ UNCHANGED waitVars

-----------------------------------------------------------------------------
(* ipc_register_endpoint_by_tsk, run by the boot CPU while tasks that were *)
(* started earlier already send.  No lock: three visible stores.           *)

RegisterTsk(e) ==
    /\ reg[e] = "none" /\ tsk[e] = None
    /\ tsk' = [tsk EXCEPT ![e] = Owner[e]]
    /\ reg' = [reg EXCEPT ![e] = "state"]
    /\ UNCHANGED <<state, list, count, nodeVars, callVars, srvVars, waitVars, race>>

RegisterState(e) ==
    /\ reg[e] = "state"
    /\ state' = [state EXCEPT ![e] = "RUNNING"]
    /\ reg' = [reg EXCEPT ![e] = "wake"]
    /\ UNCHANGED <<tsk, list, count, nodeVars, callVars, srvVars, waitVars, race>>

RegisterWake(e) ==
    /\ reg[e] = "wake"
    /\ reg' = [reg EXCEPT ![e] = "done"]
    /\ WakeUp(EpWait(e))
    /\ UNCHANGED <<epVars, nodeVars, callVars, srvVars, race>>

\* A server task runs only after wake_up_new_task, which follows its registration.
Started(p) == \A e \in Endpoints : Owner[e] = p => reg[e] = "done"

-----------------------------------------------------------------------------
(* __ipc_send and __ipc_notify                                             *)

Send(p, e, notif) ==
    /\ pc[p] = "idle" /\ Started(p)
    /\ call' = [call EXCEPT ![p] = e]
    /\ buf' = [buf EXCEPT ![p] = [notif |-> notif, src |-> None, reply |-> FALSE]]
    /\ ret' = [ret EXCEPT ![p] = "OK"]
    /\ Goto(p, IF tsk[e] = None THEN "s_reg" ELSE "s_alloc")
    /\ UNCHANGED <<epVars, reg, nodeVars, cur, srvVars, waitVars, race>>

\* wait_event_timeout(ep_info->wait, state == RUNNING, 60 s) for a server that
\* is not registered yet.
SendAwaitServer(p) ==
    /\ LET e == call[p] IN
       LET up == state[e] = "RUNNING" IN
       \/ WaitFast(p, "s_reg", up, "s_alloc")
       \/ WaitPrepare(p, "s_reg", "s_reg_check", EpWait(e))
       \/ WaitTest(p, "s_reg_check", "s_reg_sched", up, "s_alloc")
       \/ WaitWoken(p, "s_reg_sched", "s_reg")
    /\ UNCHANGED <<epVars, reg, nodeVars, call, cur, buf, ret, srvVars, race>>

\* schedule_timeout() returned 0: the wait ends without looking at the
\* condition again, whether the timer or a late wake-up ended the sleep.
SendTimeout(p) ==
    /\ pc[p] = "s_reg_sched"
    /\ FinishWait(p)
    /\ Return(p, "ENODEV")
    /\ UNCHANGED <<epVars, reg, nodeVars, srvVars, race>>

\* kmalloc, then the stores to the node nobody else can see yet.
SendAlloc(p) ==
    /\ pc[p] = "s_alloc"
    /\ \/ \E n \in Nodes :
             /\ ~live[n]
             /\ live' = [live EXCEPT ![n] = TRUE]
             /\ finish' = [finish EXCEPT ![n] = FALSE]
             /\ mess' = [mess EXCEPT ![n] = [buf[p] EXCEPT !.src = p]]
             /\ cur' = [cur EXCEPT ![p] = n]
             /\ buf' = [buf EXCEPT ![p].src = p]
             /\ Goto(p, "s_enqueue")
             /\ UNCHANGED <<call, ret>>
       \/ Return(p, "ENOMEM") /\ UNCHANGED nodeVars
    /\ UNCHANGED <<epVars, reg, srvVars, waitVars, race>>

\* Where __ipc_send goes once its node is queued and the server is woken.
AfterEnqueue(p) ==
    IF buf[p].notif THEN Return(p, "OK") ELSE Continue(p, "s_wait")

\* Mutant: list_add instead of list_add_tail.
SendEnqueueFront(p) ==
    /\ pc[p] = "s_enqueue"
    /\ LET e == call[p] IN
       /\ list' = [list EXCEPT ![e] = <<cur[p]>> \o @]
       /\ state' = [state EXCEPT ![e] = IF @ = "WAITTING" THEN "RUNNING" ELSE @]
       /\ IF state[e] = "WAITTING" THEN Continue(p, "s_wake") ELSE AfterEnqueue(p)
    /\ UNCHANGED <<tsk, count, reg, nodeVars, srvVars, waitVars, race>>

SendEnqueue(p) ==
    /\ pc[p] = "s_enqueue"
    /\ LET e == call[p] IN
       /\ list' = [list EXCEPT ![e] = Append(@, cur[p])]
       /\ state' = [state EXCEPT ![e] = IF @ = "WAITTING" THEN "RUNNING" ELSE @]
       /\ IF state[e] = "WAITTING" THEN Continue(p, "s_wake")
                                      ELSE AfterEnqueue(p)
    /\ UNCHANGED <<tsk, count, reg, nodeVars, srvVars, waitVars, race>>

SendWake(p) ==
    /\ pc[p] = "s_wake"
    /\ WakeUp(EpWait(call[p]))
    /\ AfterEnqueue(p)
    /\ UNCHANGED <<epVars, reg, nodeVars, srvVars, race>>

\* The window of __ipc_reply: is_finish is set, the reply not yet copied or
\* its waiter not yet woken.
InReplyWindow(n) == \E s \in Procs : pc[s] \in {"p_copy", "p_wake"} /\ rnode[s] = n

\* wait_event(ep_node->wait, ep_node->is_finish)
SendAwaitReply(p) ==
    /\ LET n == cur[p] IN
       LET done == finish[n] IN
       /\ \/ WaitFast(p, "s_wait", done, "s_copy")
          \/ WaitPrepare(p, "s_wait", "s_wait_check", NodeWait(n))
          \/ WaitTest(p, "s_wait_check", "s_wait_sched", done, "s_copy")
          \/ WaitWoken(p, "s_wait_sched", "s_wait")
       /\ race' = (race \/ (pc'[p] = "s_copy" /\ InReplyWindow(n)))
    /\ UNCHANGED <<epVars, reg, nodeVars, call, cur, buf, ret, srvVars>>

SendCopy(p) ==
    /\ pc[p] = "s_copy"
    /\ buf' = [buf EXCEPT ![p] = mess[cur[p]]]
    /\ Goto(p, "s_free")
    /\ UNCHANGED <<epVars, reg, nodeVars, call, cur, ret, srvVars, waitVars, race>>

SendFree(p) ==
    /\ pc[p] = "s_free"
    /\ FreeNode(cur[p])
    /\ Return(p, "OK")
    /\ UNCHANGED <<epVars, reg, srvVars, waitVars, race>>

-----------------------------------------------------------------------------
(* __ipc_receive                                                           *)

Receive(p, e) ==
    /\ pc[p] = "idle" /\ Started(p)
    /\ \/ tsk[e] = None /\ Return(p, "ENODEV")
       \/ tsk[e] \notin {None, p} /\ Return(p, "EACCES")
       \/ tsk[e] = p /\ count[e] # 0 /\ Return(p, "EBUSY")
       \/ tsk[e] = p /\ count[e] = 0 /\ Enter(p, e, "r_list")
    /\ UNCHANGED <<epVars, reg, nodeVars, srvVars, waitVars, race>>

\* Mutant: the endpoint's state is not set back to EP_STATE_WAITTING.
ReceiveListNoReset(p) ==
    /\ pc[p] = "r_list"
    /\ Goto(p, IF list[call[p]] = <<>> THEN "r_wait" ELSE "r_first")
    /\ UNCHANGED <<epVars, reg, nodeVars, call, cur, buf, ret, srvVars, waitVars, race>>

ReceiveList(p) ==
    /\ pc[p] = "r_list"
    /\ LET e == call[p] IN
       IF list[e] = <<>>
       THEN state' = [state EXCEPT ![e] = "WAITTING"] /\ Goto(p, "r_wait")
       ELSE UNCHANGED state /\ Goto(p, "r_first")
    /\ UNCHANGED <<tsk, list, count, reg, nodeVars, call, cur, buf, ret, srvVars, waitVars, race>>

\* wait_event(ep_info->wait, ep_info->state == EP_STATE_RUNNING)
ReceiveWait(p) ==
    /\ LET e == call[p] IN
       LET running == state[e] = "RUNNING" IN
       \/ WaitFast(p, "r_wait", running, "r_first")
       \/ WaitPrepare(p, "r_wait", "r_wait_check", EpWait(e))
       \/ WaitTest(p, "r_wait_check", "r_wait_sched", running, "r_first")
       \/ WaitWoken(p, "r_wait_sched", "r_wait")
    /\ UNCHANGED <<epVars, reg, nodeVars, call, cur, buf, ret, srvVars, race>>

\* The first entry is read, not unlinked.
ReceiveFirst(p) ==
    /\ pc[p] = "r_first"
    /\ LET e == call[p] IN
       LET n == Head(list[e]) IN
       /\ rnode' = [rnode EXCEPT ![p] = n]
       /\ rbuf' = [rbuf EXCEPT ![p] = mess[n]]
       /\ count' = [count EXCEPT ![e] = @ + 1]
    /\ Return(p, "OK")
    /\ UNCHANGED <<tsk, state, list, reg, nodeVars, waitVars, race>>

-----------------------------------------------------------------------------
(* __ipc_reply                                                             *)

Reply(p, e) ==
    /\ pc[p] = "idle" /\ Started(p)
    /\ \/ tsk[e] = None /\ Return(p, "ENODEV")
       \/ tsk[e] \notin {None, p} /\ Return(p, "EACCES")
       \/ tsk[e] = p /\ count[e] = 0 /\ Return(p, "EINVAL")
       \/ tsk[e] = p /\ count[e] # 0 /\ Enter(p, e, "p_del")
    /\ UNCHANGED <<epVars, reg, nodeVars, srvVars, waitVars, race>>

\* Mutant: the request is read again but not unlinked.
ReplyDelLinked(p) ==
    /\ pc[p] = "p_del"
    /\ rnode' = [rnode EXCEPT ![p] = Head(list[call[p]])]
    /\ Goto(p, "p_finish")
    /\ UNCHANGED <<epVars, reg, nodeVars, call, cur, buf, ret, rbuf, waitVars, race>>

ReplyDel(p) ==
    /\ pc[p] = "p_del"
    /\ LET e == call[p] IN
       /\ rnode' = [rnode EXCEPT ![p] = Head(list[e])]
       /\ list' = [list EXCEPT ![e] = Tail(@)]
    /\ Goto(p, "p_finish")
    /\ UNCHANGED <<tsk, state, count, reg, nodeVars, call, cur, buf, ret, rbuf, waitVars, race>>

ReplyFinish(p) ==
    /\ pc[p] = "p_finish"
    /\ LET n == rnode[p] IN
       IF mess[n].notif
       THEN FreeNode(n) /\ Goto(p, "p_dec")
       ELSE /\ finish' = [finish EXCEPT ![n] = TRUE]
            /\ UNCHANGED <<live, mess>>
            /\ Goto(p, "p_copy")
    /\ UNCHANGED <<epVars, reg, call, cur, buf, ret, srvVars, waitVars, race>>

\* Mutant: the answer is not copied into the request.
ReplyCopySkipped(p) ==
    /\ pc[p] = "p_copy"
    /\ Goto(p, "p_wake")
    /\ UNCHANGED <<epVars, reg, nodeVars, call, cur, buf, ret, srvVars, waitVars, race>>

\* The memcpy of the answer; the servers answer in the message they received.
ReplyCopy(p) ==
    /\ pc[p] = "p_copy"
    /\ mess' = [mess EXCEPT ![rnode[p]] = [rbuf[p] EXCEPT !.reply = TRUE]]
    /\ Goto(p, "p_wake")
    /\ UNCHANGED <<epVars, reg, live, finish, call, cur, buf, ret, srvVars, waitVars, race>>

\* Mutant: the sender is not woken.
ReplyWakeSkipped(p) ==
    /\ pc[p] = "p_wake"
    /\ Goto(p, "p_dec")
    /\ UNCHANGED <<epVars, reg, nodeVars, call, cur, buf, ret, srvVars, waitVars, race>>

ReplyWake(p) ==
    /\ pc[p] = "p_wake"
    /\ WakeUp(NodeWait(rnode[p]))
    /\ Goto(p, "p_dec")
    /\ UNCHANGED <<epVars, reg, nodeVars, call, cur, buf, ret, srvVars, race>>

ReplyDec(p) ==
    /\ pc[p] = "p_dec"
    /\ count' = [count EXCEPT ![call[p]] = @ - 1]
    /\ rnode' = [rnode EXCEPT ![p] = None]
    /\ rbuf' = [rbuf EXCEPT ![p] = ZeroMessage]
    /\ Return(p, "OK")
    /\ UNCHANGED <<tsk, state, list, reg, nodeVars, waitVars, race>>

-----------------------------------------------------------------------------
Register(e) == RegisterTsk(e) \/ RegisterState(e) \/ RegisterWake(e)

SendStep(p) ==
    \/ SendAwaitServer(p) \/ SendTimeout(p) \/ SendAlloc(p) \/ SendEnqueue(p)
    \/ SendWake(p) \/ SendAwaitReply(p) \/ SendCopy(p) \/ SendFree(p)

ReceiveStep(p) == ReceiveList(p) \/ ReceiveWait(p) \/ ReceiveFirst(p)

ReplyStep(p) ==
    ReplyDel(p) \/ ReplyFinish(p) \/ ReplyCopy(p) \/ ReplyWake(p) \/ ReplyDec(p)

\* A step inside a system call.
Step(p) == SendStep(p) \/ ReceiveStep(p) \/ ReplyStep(p)

\* A new system call of task p on endpoint e.
Issue(p, e) ==
    \/ <<p, "send", e>> \in Calls /\ Send(p, e, FALSE)
    \/ <<p, "notify", e>> \in Calls /\ Send(p, e, TRUE)
    \/ <<p, "receive", e>> \in Calls /\ Receive(p, e)
    \/ <<p, "reply", e>> \in Calls /\ Reply(p, e)

Next ==
    \/ \E e \in Endpoints : Register(e)
    \/ \E p \in Procs : Step(p) \/ \E e \in Endpoints : Issue(p, e)

Spec == Init /\ [][Next]_vars

-----------------------------------------------------------------------------
TypeOK ==
    /\ tsk \in [Endpoints -> Procs \cup {None}]
    /\ state \in [Endpoints -> States]
    /\ list \in [Endpoints -> Seq(Nodes)]
    /\ count \in [Endpoints -> Nat]
    /\ reg \in [Endpoints -> {"none", "state", "wake", "done"}]
    /\ live \in [Nodes -> BOOLEAN]
    /\ finish \in [Nodes -> BOOLEAN]
    /\ mess \in [Nodes -> Message]
    /\ pc \in [Procs -> PCs]
    /\ call \in [Procs -> Endpoints \cup {None}]
    /\ cur \in [Procs -> Nodes \cup {None}]
    /\ buf \in [Procs -> Message]
    /\ rnode \in [Procs -> Nodes \cup {None}]
    /\ rbuf \in [Procs -> Message]
    /\ tstate \in [Procs -> {"RUNNING", "UNINT"}]
    /\ queue \in [Procs -> WaitQueues \cup {None}]
    /\ ret \in [Procs -> Errors]
    /\ race \in BOOLEAN

\* The server of an endpoint reads the head of a request list that is not
\* empty: EP_STATE_RUNNING after EP_STATE_WAITTING means that a sender has
\* queued a request (list_first_entry at ipc.c:149 has no check of its own).
ReceiveFindsRequest ==
    \A p \in Procs : pc[p] = "r_first" => list[call[p]] # <<>>

\* __ipc_receive leaves the request queued and __ipc_reply unlinks "the first
\* entry" again: however many senders queue in between, that entry is still the
\* request the server received, so an answer never goes to another request.
Replying(p) == pc[p] \in {"p_finish", "p_copy", "p_wake", "p_dec"}

ReplyGoesToReceived ==
    \A e \in Endpoints :
        /\ count[e] <= 1
        /\ count[e] = 1 /\ ~Replying(Owner[e]) =>
              list[e] # <<>> /\ Head(list[e]) = rnode[Owner[e]]

\* A queued request is in allocated memory, is unanswered, and is queued once:
\* neither the sender's kfree nor a reuse of the node reaches a linked node.
QueuedOnce ==
    \A d, e \in Endpoints :
        \A i \in DOMAIN list[d], j \in DOMAIN list[e] :
            /\ live[list[d][i]] /\ ~finish[list[d][i]]
            /\ list[d][i] = list[e][j] => d = e /\ i = j

\* No lost wake-up of a sender: if its request is finished while it sleeps, the
\* server is still on its way to wake_up(&ep_node->wait).
NoLostReply ==
    \A p \in Procs :
        pc[p] = "s_wait_sched" /\ tstate[p] = "UNINT" /\ finish[cur[p]]
            => InReplyWindow(cur[p])

\* No lost wake-up of a server: if there is a request while the server sleeps,
\* a sender is still on its way to wake_up(&ep_info->wait).
NoLostRequest ==
    \A e \in Endpoints :
        LET s == Owner[e] IN
        pc[s] = "r_wait_sched" /\ tstate[s] = "UNINT" /\ list[e] # <<>>
            => \E p \in Procs : pc[p] = "s_wake" /\ call[p] = e

\* wait_event and wake_up lose no wake-up: a sender that sleeps although its
\* request is answered, or a server that sleeps although a request is queued, is
\* about to be woken by a task between its store and its wake_up.
NoLostWakeup == NoLostReply /\ NoLostRequest

\* __ipc_reply sets is_finish before it copies the answer and before it uses
\* ep_node->wait.  As long as no sender has left its wait inside that window,
\* the server writes to the node of the request it answers, and every send
\* that succeeds brings back the server's answer to that very request.
ReplyIntegrity ==
    ~race =>
        /\ \A s \in Procs :
              pc[s] \in {"p_copy", "p_wake"} =>
                  \E p \in Procs : /\ cur[p] = rnode[s] /\ live[cur[p]]
                                   /\ rbuf[s].src = p
                                   /\ pc[p] \in {"s_wake", "s_wait", "s_wait_check",
                                                 "s_wait_sched"}
        /\ \A p \in Procs : pc[p] = "s_free" => buf[p].reply /\ buf[p].src = p

\* Every allocated node is on its way to exactly one kfree: its sender still
\* holds it, or it is a notification that is queued or just unlinked.
\* (Under the same proviso: a reply written late can erase the notifier bit.)
NoLeak ==
    ~race =>
        \A n \in Nodes : live[n] =>
            \/ \E p \in Procs : /\ cur[p] = n
                                /\ pc[p] \in SendPCs \ {"s_reg", "s_reg_check",
                                                        "s_reg_sched", "s_alloc"}
            \/ /\ mess[n].notif
               /\ \/ \E e \in Endpoints : \E i \in DOMAIN list[e] : list[e][i] = n
                  \/ \E s \in Procs : pc[s] = "p_finish" /\ rnode[s] = n

\* As long as no sender leaves its wait between is_finish and the end of
\* __ipc_reply, an answer goes to the request it answers, and every node is
\* freed exactly once.
RepliesSound == ReplyIntegrity /\ NoLeak
=============================================================================
