---------------------------- MODULE IpcFlowProofs ----------------------------
(***************************************************************************)
(* Every answer goes to the request it answers and every node is freed     *)
(* once, as long as no sender has left its wait inside the window of       *)
(* __ipc_reply (race).  Flow follows a request from the sender that holds  *)
(* its node over the message the server received to the answer that is     *)
(* copied back; it rests on NodeInv, which keeps the node in one place.    *)
(***************************************************************************)
EXTENDS IpcNodeProofs

Window == {"p_copy", "p_wake"}

\* Task p waits for the answer to the request in node n.
Waiter(p, n) == Holds(p, n) /\ pc[p] \in WaitPCs

\* A server is about to copy its answer into node n.
Copying(n) == \E s \in Procs : pc[s] = "p_copy" /\ rnode[s] = n

\* Inside the window the task whose message the server received still waits.
WindowFlow(s) ==
    pc[s] \in Window => /\ finish[rnode[s]]
                        /\ \E p \in Procs : Waiter(p, rnode[s]) /\ rbuf[s].src = p

\* What the server received is what its first node holds, until it is answered.
ReceivedFlow(e) ==
    count[e] = 1 /\ pc[Owner[e]] \notin Window \cup {"p_dec"} =>
        rbuf[Owner[e]].src = mess[rnode[Owner[e]]].src

\* A held node carries its holder's name; once finished it carries the answer,
\* or the answer is about to be copied.
HeldFlow(p, n) ==
    Holds(p, n) => /\ mess[n].src = p
                   /\ pc[p] = "s_enqueue" => mess[n] = buf[p]
                   /\ finish[n] => mess[n].reply \/ Copying(n)

\* What a sender has copied back is an answer to it.
BufFlow(p) == pc[p] = "s_free" => buf[p].reply /\ buf[p].src = p

\* An allocated node has somebody who will free it.
LiveFlow(n) == live[n] => (mess[n].notif /\ Pending(n)) \/ \E p \in Procs : Holds(p, n)

Flow ==
    /\ \A s \in Procs : WindowFlow(s)
    /\ \A e \in Endpoints : ReceivedFlow(e)
    /\ \A p \in Procs, n \in Nodes : HeldFlow(p, n)
    /\ \A p \in Procs : BufFlow(p)
    /\ \A n \in Nodes : LiveFlow(n)

FlowInv == ~race => Flow

USE DEF epVars, nodeVars, callVars, srvVars, waitVars

-----------------------------------------------------------------------------
\* A leaf goes to Zenon, and to the SMT solver where it says so.
USE Zenon

\* A pending node is live and unanswered, and whoever holds it waits.
LEMMA PendingNode ==
    ASSUME NodeInv, NEW n \in Nodes, Pending(n)
    PROVE  /\ live[n] /\ ~finish[n]
           /\ \A q \in Procs : Holds(q, n) => pc[q] \in WaitPCs /\ ~mess[n].notif
<1>1. live[n] /\ ~finish[n]
  BY DEF Pending, NodeInv, LinkedInv, UnlinkedInv
<1>2. ASSUME NEW q \in Procs, Holds(q, n) PROVE pc[q] \in WaitPCs /\ ~mess[n].notif
  <2>1. HoldInv(q, n)
    BY DEF NodeInv
  <2>2. pc[q] # "s_enqueue" /\ pc[q] \notin LeftPCs
    BY <1>1, <1>2, <2>1 DEF HoldInv
  <2>3. pc[q] \in NodePCs /\ ~buf[q].notif
    BY <1>2, <2>2 DEF Holds
  <2> QED BY <1>2, <2>1, <2>2, <2>3 DEF HoldInv, NodePCs, WaitPCs, LeftPCs
<1> QED BY <1>1, <1>2

\* What a server has received and not answered is pending.
LEMMA ReceivedPending ==
    ASSUME IInv, NEW e \in Endpoints, count[e] = 1, pc[Owner[e]] \notin Window \cup {"p_dec"}
    PROVE  /\ rnode[Owner[e]] \in Nodes /\ Pending(rnode[Owner[e]])
           /\ Linked(rnode[Owner[e]]) \/ Unlinked(Owner[e], rnode[Owner[e]])
<1>1. TypeOK /\ EndpointInv(e) /\ Owner[e] \in Procs
  BY IpcAssumption DEF IInv
<1>2. CASE pc[Owner[e]] = "p_finish"
  <2>1. rnode[Owner[e]] \in Nodes
    BY <1>1, <1>2 DEF IInv, TaskInv
  <2> QED BY <1>1, <1>2, <2>1 DEF Pending, Unlinked
<1>3. CASE pc[Owner[e]] # "p_finish"
  <2>1. list[e] # <<>> /\ Head(list[e]) = rnode[Owner[e]]
    BY <1>1, <1>3 DEF EndpointInv, Replying, Window
  <2>2. list[e] \in Seq(Nodes)
    BY <1>1, TypeGroups DEF EpTypes
  <2>3. 1 \in DOMAIN list[e] /\ list[e][1] = rnode[Owner[e]]
    BY <2>1, <2>2, PositionFacts, SMT
  <2>4. rnode[Owner[e]] \in Nodes
    BY <2>1, <2>2, ListFacts
  <2> QED BY <2>3, <2>4 DEF Pending, Linked
<1> QED BY <1>2, <1>3

\* The node a server answers is not pending any more.
LEMMA WindowNode ==
    ASSUME IInv, NodeInv, Flow, NEW s \in Procs, pc[s] \in Window
    PROVE  rnode[s] \in Nodes /\ ~Pending(rnode[s])
<1>1. rnode[s] \in Nodes
  BY DEF IInv, TaskInv, Window
<1>2. finish[rnode[s]]
  BY DEF Flow, WindowFlow
<1> QED BY <1>1, <1>2, PendingNode

\* A held node has one holder.
LEMMA OneHolder ==
    ASSUME NodeInv, NEW n \in Nodes, NEW p \in Procs, NEW q \in Procs, Holds(p, n), Holds(q, n)
    PROVE  p = q
BY DEF NodeInv, HoldInv

\* The other tasks go on waiting for their answers.
LEMMA OthersFlow ==
    ASSUME NEW p \in Procs, OthersCall(p), OthersServe(p), NEW q \in Procs, q # p
    PROVE  /\ pc'[q] = pc[q] /\ buf'[q] = buf[q] /\ rnode'[q] = rnode[q] /\ rbuf'[q] = rbuf[q]
           /\ \A n \in Nodes : (Holds(q, n)' <=> Holds(q, n)) /\ (Waiter(q, n)' <=> Waiter(q, n))
           /\ BufFlow(q)' <=> BufFlow(q)
<1>1. pc'[q] = pc[q] /\ buf'[q] = buf[q] /\ rnode'[q] = rnode[q] /\ rbuf'[q] = rbuf[q]
  BY DEF OthersCall, OthersServe
<1>2. \A n \in Nodes : Holds(q, n)' <=> Holds(q, n)
  BY OthersNodes
<1> QED BY <1>1, <1>2 DEF Waiter, BufFlow

\* A server other than p stays inside its window: the task it answers waits on.
LEMMA OthersWindow ==
    ASSUME IInv, Flow, NEW p \in Procs, OthersCall(p), OthersServe(p), NEW s \in Procs, s # p,
           \A m \in Nodes : Waiter(p, m) => Waiter(p, m)',
           \A m \in Nodes, q \in Procs : Waiter(q, m) /\ finish[m] => finish'[m]
    PROVE  WindowFlow(s)'
<1> SUFFICES ASSUME pc'[s] \in Window PROVE WindowFlow(s)'
  BY DEF WindowFlow
<1>1. pc[s] \in Window /\ rbuf'[s] = rbuf[s] /\ rnode'[s] = rnode[s]
  BY OthersFlow
<1>2. PICK m \in Nodes : m = rnode[s] /\ m = rnode'[s]
  BY <1>1 DEF IInv, TaskInv, Window
<1>3. PICK q \in Procs : Waiter(q, m) /\ rbuf[s].src = q /\ finish[m]
  BY <1>1, <1>2 DEF Flow, WindowFlow
<1>4. Waiter(q, m)'
  <2>1. CASE q = p
    BY <1>3, <2>1
  <2>2. CASE q # p
    BY <1>3, <2>2, OthersFlow
  <2> QED BY <2>1, <2>2
<1>5. finish'[m]
  BY <1>3
<1> QED BY <1>1, <1>2, <1>3, <1>4, <1>5 DEF WindowFlow

\* What the servers have received stays in its node while no pending node changes.
LEMMA SameReceived ==
    ASSUME IInv, Flow, UNCHANGED <<count, srvVars>>, NEW e \in Endpoints,
           pc'[Owner[e]] \notin Window \cup {"p_dec"} => pc[Owner[e]] \notin Window \cup {"p_dec"},
           \A m \in Nodes : Pending(m) => mess'[m] = mess[m]
    PROVE  ReceivedFlow(e)'
<1> SUFFICES ASSUME count[e] = 1, pc'[Owner[e]] \notin Window \cup {"p_dec"}
             PROVE  ReceivedFlow(e)'
  BY DEF ReceivedFlow
<1>1. pc[Owner[e]] \notin Window \cup {"p_dec"}
  OBVIOUS
<1>2. rnode[Owner[e]] \in Nodes /\ Pending(rnode[Owner[e]])
  BY <1>1, ReceivedPending
<1>3. mess'[rnode[Owner[e]]] = mess[rnode[Owner[e]]]
  BY <1>2
<1>4. rbuf[Owner[e]].src = mess[rnode[Owner[e]]].src
  BY <1>1 DEF Flow, ReceivedFlow
<1> QED BY <1>3, <1>4 DEF ReceivedFlow

-----------------------------------------------------------------------------
(* The steps that leave the nodes and the lists alone.                     *)

\* A step outside __ipc_reply: the task keeps what it holds, and goes on waiting
\* while a server is inside its window.
LEMMA PlainFlow ==
    ASSUME IInv, Flow, NEW p \in Procs, OthersCall(p), UNCHANGED <<list, count, nodeVars, srvVars>>,
           pc[p] \notin Window \cup {"p_finish", "p_dec"},
           pc'[p] \notin Window \cup {"p_finish", "p_dec", "s_enqueue"},
           \A n \in Nodes : Holds(p, n)' <=> Holds(p, n),
           \A n \in Nodes : Waiter(p, n) => Waiter(p, n)' \/ ~InReplyWindow(n),
           BufFlow(p)'
    PROVE  Flow'
<1>0. OthersServe(p)
  BY ServeSame
<1>1. \A n \in Nodes : Linked(n)' <=> Linked(n)
  BY SameLinks
<1>2. ASSUME NEW s \in Procs, NEW n \in Nodes PROVE Unlinked(s, n)' <=> Unlinked(s, n)
  BY <1>0, OthersNodes, SMT DEF Unlinked
<1>3. \A n \in Nodes : Pending(n)' <=> Pending(n)
  BY <1>1, <1>2 DEF Pending
<1>4. \A q \in Procs, n \in Nodes : Holds(q, n)' <=> Holds(q, n)
  BY <1>0, OthersNodes
<1>5. ASSUME NEW n \in Nodes PROVE Copying(n)' <=> Copying(n)
  <2>1. ASSUME NEW s \in Procs PROVE pc'[s] = "p_copy" <=> pc[s] = "p_copy"
    BY DEF OthersCall, Window
  <2> QED BY <2>1 DEF Copying
<1>6. ASSUME NEW s \in Procs PROVE WindowFlow(s)'
  <2> SUFFICES ASSUME pc'[s] \in Window PROVE WindowFlow(s)'
    BY DEF WindowFlow
  <2>1. s # p /\ pc'[s] = pc[s] /\ rbuf'[s] = rbuf[s] /\ rnode'[s] = rnode[s]
    BY DEF OthersCall
  <2>2. rnode[s] \in Nodes
    BY <2>1 DEF IInv, TaskInv, Window
  <2>3. finish[rnode[s]] /\ InReplyWindow(rnode[s])
    BY <2>1 DEF Flow, WindowFlow, InReplyWindow, Window
  <2>4. PICK q \in Procs : Waiter(q, rnode[s]) /\ rbuf[s].src = q
    BY <2>1 DEF Flow, WindowFlow
  <2>5. Waiter(q, rnode[s])'
    <3>1. CASE q = p
      BY <2>1, <2>2, <2>3, <2>4, <3>1
    <3>2. CASE q # p
      BY <1>0, <2>1, <2>2, <2>4, <3>2, OthersFlow
    <3> QED BY <3>1, <3>2
  <2> QED BY <2>1, <2>3, <2>4, <2>5 DEF WindowFlow
<1>7. ASSUME NEW e \in Endpoints PROVE ReceivedFlow(e)'
  <2>1. ReceivedFlow(e) /\ Owner[e] \in Procs
    BY IpcAssumption DEF Flow
  <2>2. pc'[Owner[e]] \notin Window \cup {"p_dec"} => pc[Owner[e]] \notin Window \cup {"p_dec"}
    BY <2>1 DEF OthersCall
  <2> QED BY <2>1, <2>2 DEF ReceivedFlow
<1>8. ASSUME NEW q \in Procs, NEW n \in Nodes PROVE HeldFlow(q, n)'
  <2>1. HeldFlow(q, n)
    BY DEF Flow
  <2>2. pc'[q] = "s_enqueue" => pc[q] = "s_enqueue" /\ buf'[q] = buf[q]
    BY DEF OthersCall
  <2> QED BY <1>4, <1>5, <2>1, <2>2 DEF HeldFlow
<1>9. ASSUME NEW q \in Procs PROVE BufFlow(q)'
  BY <1>0, OthersFlow DEF Flow
<1>10. ASSUME NEW n \in Nodes PROVE LiveFlow(n)'
  <2>1. LiveFlow(n)
    BY DEF Flow
  <2> QED BY <1>3, <1>4, <2>1 DEF LiveFlow
<1> QED BY <1>6, <1>7, <1>8, <1>9, <1>10 DEF Flow

\* A step that begins or ends a system call, or goes on in it without a node.
LEMMA NodelessFlow ==
    ASSUME IInv, Flow, NEW p \in Procs, OthersCall(p), UNCHANGED <<list, count, nodeVars, srvVars>>,
           pc[p] \notin {"p_finish", "p_copy", "p_wake", "p_dec"} \cup NodePCs,
           pc'[p] \notin {"p_finish", "p_copy", "p_wake", "p_dec"} \cup NodePCs
    PROVE  Flow'
<1>1. /\ pc[p] \notin Window \cup {"p_finish", "p_dec"}
      /\ pc'[p] \notin Window \cup {"p_finish", "p_dec", "s_enqueue"}
  BY DEF Window, NodePCs
<1>2. \A n \in Nodes : ~Holds(p, n) /\ ~Holds(p, n)' /\ ~Waiter(p, n)
  BY DEF Holds, Waiter
<1>3. BufFlow(p)'
  BY DEF BufFlow, NodePCs
<1> QED BY <1>1, <1>2, <1>3, PlainFlow

\* New system calls, the waits for a server and for a request.
LEMMA QuietFlow ==
    ASSUME IInv, Flow, NEW p \in Procs,
           \/ SendAwaitServer(p) \/ SendTimeout(p) \/ ReceiveList(p) \/ ReceiveWait(p)
           \/ \E e \in Endpoints : Issue(p, e)
    PROVE  Flow'
<1>0. TypeOK /\ TaskInv(p)
  BY DEF IInv
<1>1. /\ OthersCall(p) /\ UNCHANGED <<list, count, nodeVars, srvVars>>
      /\ pc[p] \in {"idle", "s_reg", "s_reg_check", "s_reg_sched", "r_list"} \cup WaitingPCs
      /\ pc'[p] \in {"idle", "s_reg", "s_reg_check", "s_reg_sched", "s_alloc", "r_list", "r_first",
                      "p_del"} \cup WaitingPCs
  <2>1. CASE SendAwaitServer(p)
    BY <1>0, <2>1, SendAwaitServerFacts
  <2>2. CASE SendTimeout(p)
    BY <1>0, <2>2, SendTimeoutFacts
  <2>3. CASE ReceiveList(p)
    BY <1>0, <2>3, ReceiveListFacts DEF WaitingPCs
  <2>4. CASE ReceiveWait(p)
    BY <1>0, <2>4, ReceiveWaitFacts DEF WaitingPCs
  <2>5. ASSUME NEW e \in Endpoints, Issue(p, e)
        PROVE  /\ OthersCall(p) /\ UNCHANGED <<list, count, nodeVars, srvVars>> /\ pc[p] = "idle"
               /\ pc'[p] \in {"idle", "s_reg", "s_alloc", "r_list", "p_del"}
    BY <1>0, <2>5, SendFacts, ReceiveFacts, ReplyFacts DEF Issue
  <2> QED BY <2>1, <2>2, <2>3, <2>4, <2>5
<1>2. /\ pc[p] \notin {"p_finish", "p_copy", "p_wake", "p_dec"} \cup NodePCs
      /\ pc'[p] \notin {"p_finish", "p_copy", "p_wake", "p_dec"} \cup NodePCs
  BY <1>1 DEF NodePCs, WaitingPCs
<1> QED BY <1>1, <1>2, NodelessFlow

\* The sender wakes the server, and waits; it leaves its wait inside the window
\* of no server, or race would be set.
LEMMA WaiterFlow ==
    ASSUME IInv, Flow, NEW p \in Procs, SendWake(p) \/ SendAwaitReply(p), ~race'
    PROVE  Flow'
<1>0. TypeOK /\ TaskInv(p)
  BY DEF IInv
<1>1. CASE SendWake(p)
  <2>1. /\ OthersCall(p) /\ UNCHANGED <<list, count, nodeVars, srvVars>> /\ pc[p] = "s_wake"
        /\ \/ pc'[p] = "s_wait" /\ cur'[p] = cur[p] /\ buf'[p] = buf[p]
           \/ pc'[p] = "idle" /\ buf[p].notif
    BY <1>0, <1>1, SendWakeFacts
  <2>2. /\ pc[p] \notin Window \cup {"p_finish", "p_dec"}
        /\ pc'[p] \notin Window \cup {"p_finish", "p_dec", "s_enqueue"} /\ BufFlow(p)'
    BY <2>1 DEF Window, BufFlow
  <2>3. \A n \in Nodes : (Holds(p, n)' <=> Holds(p, n)) /\ (Waiter(p, n) => Waiter(p, n)')
    BY <2>1 DEF Holds, Waiter, NodePCs, WaitPCs
  <2> QED BY <2>1, <2>2, <2>3, PlainFlow
<1>2. CASE SendAwaitReply(p)
  <2>1. /\ OthersCall(p) /\ UNCHANGED <<list, count, nodeVars, srvVars>>
        /\ cur'[p] = cur[p] /\ buf'[p] = buf[p]
        /\ pc[p] \in {"s_wait", "s_wait_check", "s_wait_sched"}
        /\ \/ pc'[p] \in {"s_wait", "s_wait_check", "s_wait_sched"}
           \/ pc'[p] = "s_copy" /\ ~InReplyWindow(cur[p])
    BY <1>0, <1>2, SendAwaitReplyFacts
  <2>2. /\ pc[p] \notin Window \cup {"p_finish", "p_dec"}
        /\ pc'[p] \notin Window \cup {"p_finish", "p_dec", "s_enqueue"} /\ BufFlow(p)'
    BY <2>1 DEF Window, BufFlow
  <2>3. \A n \in Nodes : Holds(p, n)' <=> Holds(p, n)
    BY <2>1 DEF Holds, NodePCs
  <2>4. \A n \in Nodes : Waiter(p, n) => Waiter(p, n)' \/ ~InReplyWindow(n)
    BY <2>1, <2>3 DEF Waiter, WaitPCs, Holds
  <2> QED BY <2>1, <2>2, <2>3, <2>4, PlainFlow
<1> QED BY <1>1, <1>2

\* The sender copies its node back after it has left its wait: no server is about
\* to copy an answer into it any more.
LEMMA SendCopyFlow ==
    ASSUME IInv, NodeInv, Flow, NEW p \in Procs, SendCopy(p)
    PROVE  Flow'
<1>0. TypeOK /\ TaskInv(p) /\ BufInv(p)
  BY DEF IInv, NodeInv
<1>p. PICK n \in Nodes : n = cur[p]
  BY <1>0, SendCopyFacts
<1>1. /\ OthersCall(p) /\ UNCHANGED <<list, count, nodeVars, srvVars>>
      /\ pc[p] = "s_copy" /\ pc'[p] = "s_free" /\ cur'[p] = cur[p] /\ buf'[p] = mess[n]
  BY <1>0, <1>p, SendCopyFacts
<1>2. ~buf[p].notif /\ Holds(p, n)
  BY <1>0, <1>p, <1>1 DEF Holds, BufInv, NodePCs
<1>3. finish[n] /\ ~mess[n].notif /\ mess[n].src = p /\ (mess[n].reply \/ Copying(n))
  <2>1. HoldInv(p, n) /\ HeldFlow(p, n)
    BY DEF NodeInv, Flow
  <2> QED BY <1>1, <1>2, <2>1 DEF HoldInv, HeldFlow, LeftPCs
<1>4. ~Copying(n)
  <2> SUFFICES ASSUME NEW s \in Procs, pc[s] = "p_copy", rnode[s] = n PROVE FALSE
    BY DEF Copying
  <2>1. PICK q \in Procs : Waiter(q, n)
    BY DEF Flow, WindowFlow, Window
  <2>2. q = p
    BY <1>2, <2>1, OneHolder DEF Waiter
  <2> QED BY <1>1, <2>1, <2>2 DEF Waiter, WaitPCs
<1>5. /\ pc[p] \notin Window \cup {"p_finish", "p_dec"}
      /\ pc'[p] \notin Window \cup {"p_finish", "p_dec", "s_enqueue"}
  BY <1>1 DEF Window
<1>6. \A m \in Nodes : (Holds(p, m)' <=> Holds(p, m)) /\ ~Waiter(p, m)
  BY <1>1, <1>2, <1>3 DEF Holds, Waiter, NodePCs, WaitPCs
<1>7. BufFlow(p)'
  BY <1>1, <1>3, <1>4 DEF BufFlow
<1> QED BY <1>1, <1>5, <1>6, <1>7, PlainFlow

\* Steps that touch no node and no system call.
LEMMA SameFlow ==
    ASSUME Flow, UNCHANGED <<list, count, nodeVars, callVars, srvVars>>
    PROVE  Flow'
<1>1. UNCHANGED <<list, count, nodeVars, callVars, srvVars>>
  OBVIOUS
<1>2. \A n \in Nodes, q \in Procs : /\ Holds(q, n)' <=> Holds(q, n)
                                    /\ Waiter(q, n)' <=> Waiter(q, n)
                                    /\ Unlinked(q, n)' <=> Unlinked(q, n)
  BY <1>1 DEF Holds, Waiter, Unlinked
<1>3. \A n \in Nodes : Copying(n)' <=> Copying(n)
  BY <1>1 DEF Copying
<1>4. \A n \in Nodes : Pending(n)' <=> Pending(n)
  BY <1>1, <1>2, SameLinks DEF Pending
<1>5. ASSUME NEW s \in Procs PROVE WindowFlow(s)' /\ BufFlow(s)'
  <2>1. WindowFlow(s) /\ BufFlow(s)
    BY DEF Flow
  <2> QED BY <1>1, <2>1 DEF WindowFlow, BufFlow, Waiter, Holds
<1>6. ASSUME NEW e \in Endpoints PROVE ReceivedFlow(e)'
  BY <1>1 DEF Flow, ReceivedFlow
<1>7. ASSUME NEW q \in Procs, NEW n \in Nodes PROVE HeldFlow(q, n)'
  <2>1. HeldFlow(q, n)
    BY DEF Flow
  <2> QED BY <1>1, <1>2, <1>3, <2>1 DEF HeldFlow
<1>8. ASSUME NEW n \in Nodes PROVE LiveFlow(n)'
  <2>1. LiveFlow(n)
    BY DEF Flow
  <2> QED BY <1>1, <1>2, <1>4, <2>1 DEF LiveFlow
<1> QED BY <1>5, <1>6, <1>7, <1>8 DEF Flow

\* The server's steps that leave the nodes and the lists alone.
LEMMA ServerFrame ==
    ASSUME IInv, Flow, NEW p \in Procs, OthersCall(p), OthersServe(p), UNCHANGED <<list, nodeVars>>,
           pc[p] \notin {"p_finish", "p_copy"} \cup NodePCs,
           pc'[p] \notin Window \cup {"p_finish"} \cup NodePCs,
           \A e \in Endpoints : Owner[e] = p => ReceivedFlow(e)',
           \A e \in Endpoints : Owner[e] # p => count'[e] = count[e]
    PROVE  Flow'
<1>1. \A n \in Nodes : Linked(n)' <=> Linked(n)
  BY SameLinks
<1>2. ASSUME NEW s \in Procs, NEW n \in Nodes PROVE Unlinked(s, n)' <=> Unlinked(s, n)
  BY OthersNodes DEF Unlinked
<1>3. \A n \in Nodes : Pending(n)' <=> Pending(n)
  BY <1>1, <1>2 DEF Pending
<1>4. \A n \in Nodes : ~Holds(p, n) /\ ~Holds(p, n)' /\ ~Waiter(p, n)
  BY DEF Holds, Waiter
<1>5. \A q \in Procs, n \in Nodes : Holds(q, n)' <=> Holds(q, n)
  BY <1>4, OthersNodes
<1>6. ASSUME NEW n \in Nodes PROVE Copying(n)' <=> Copying(n)
  <2>1. ASSUME NEW s \in Procs
        PROVE  (pc'[s] = "p_copy" /\ rnode'[s] = n) <=> (pc[s] = "p_copy" /\ rnode[s] = n)
    BY DEF OthersCall, OthersServe, Window
  <2> QED BY <2>1 DEF Copying
<1>7. ASSUME NEW s \in Procs PROVE WindowFlow(s)'
  <2>1. CASE s = p
    BY <2>1 DEF WindowFlow
  <2> QED BY <1>4, <2>1, OthersWindow
<1>8. ASSUME NEW e \in Endpoints PROVE ReceivedFlow(e)'
  <2>1. CASE Owner[e] # p
    <3>1. Owner[e] \in Procs /\ ReceivedFlow(e)
      BY IpcAssumption DEF Flow
    <3>2. /\ pc'[Owner[e]] = pc[Owner[e]] /\ rnode'[Owner[e]] = rnode[Owner[e]]
          /\ rbuf'[Owner[e]] = rbuf[Owner[e]] /\ count'[e] = count[e]
      BY <2>1, <3>1 DEF OthersCall, OthersServe
    <3> QED BY <3>1, <3>2 DEF ReceivedFlow
  <2> QED BY <2>1
<1>9. ASSUME NEW q \in Procs, NEW n \in Nodes PROVE HeldFlow(q, n)'
  <2>1. HeldFlow(q, n) /\ (Holds(q, n) => q # p)
    BY <1>4 DEF Flow
  <2>2. q # p => pc'[q] = pc[q] /\ buf'[q] = buf[q]
    BY DEF OthersCall
  <2> QED BY <1>5, <1>6, <2>1, <2>2 DEF HeldFlow
<1>10. ASSUME NEW q \in Procs PROVE BufFlow(q)'
  <2>1. CASE q = p
    BY <2>1 DEF BufFlow, NodePCs
  <2> QED BY <2>1, OthersFlow DEF Flow
<1>11. ASSUME NEW n \in Nodes PROVE LiveFlow(n)'
  <2>1. LiveFlow(n)
    BY DEF Flow
  <2> QED BY <1>3, <1>5, <2>1 DEF LiveFlow
<1> QED BY <1>7, <1>8, <1>9, <1>10, <1>11 DEF Flow

\* The server reads the first request, wakes its sender, and ends its answer.
LEMMA ServerFlow ==
    ASSUME IInv, Flow, NEW p \in Procs, ReceiveFirst(p) \/ ReplyWake(p) \/ ReplyDec(p)
    PROVE  Flow'
<1>0. TypeOK /\ TaskInv(p)
  BY DEF IInv
<1>1. CASE ReceiveFirst(p)
  <2>0. PICK n \in Nodes : n = Head(list[call[p]])
    BY <1>0, <1>1, ReceiveFirstFacts
  <2>1. /\ UNCHANGED <<list, nodeVars>> /\ OthersCall(p) /\ OthersServe(p)
        /\ pc[p] = "r_first" /\ pc'[p] = "idle" /\ call[p] \in Endpoints
        /\ rnode'[p] = n /\ rbuf'[p] = mess[n]
        /\ \A d \in Endpoints \ {call[p]} : count'[d] = count[d]
    BY <1>0, <1>1, <2>0, ReceiveFirstFacts
  <2>2. Owner[call[p]] = p
    BY <1>0, <2>1 DEF TaskInv, ReceivePCs
  <2>3. \A d \in Endpoints : Owner[d] # p => count'[d] = count[d]
    BY <2>1, <2>2
  <2>4. \A d \in Endpoints : Owner[d] = p => ReceivedFlow(d)'
    BY <2>1 DEF ReceivedFlow
  <2>5. /\ pc[p] \notin {"p_finish", "p_copy"} \cup NodePCs
        /\ pc'[p] \notin Window \cup {"p_finish"} \cup NodePCs
    BY <2>1 DEF Window, NodePCs
  <2> QED BY <2>1, <2>3, <2>4, <2>5, ServerFrame
<1>2. CASE ReplyWake(p)
  <2>1. /\ UNCHANGED <<list, count, nodeVars, srvVars>> /\ OthersCall(p)
        /\ pc[p] = "p_wake" /\ pc'[p] = "p_dec"
    BY <1>0, <1>2, ReplyWakeFacts
  <2>2. \A d \in Endpoints : Owner[d] = p => ReceivedFlow(d)'
    BY <2>1 DEF ReceivedFlow
  <2>3. /\ pc[p] \notin {"p_finish", "p_copy"} \cup NodePCs
        /\ pc'[p] \notin Window \cup {"p_finish"} \cup NodePCs
    BY <2>1 DEF Window, NodePCs
  <2> QED BY <2>1, <2>2, <2>3, ServerFrame, ServeSame
<1>3. CASE ReplyDec(p)
  <2>1. /\ UNCHANGED <<list, nodeVars>> /\ OthersCall(p) /\ OthersServe(p)
        /\ pc[p] = "p_dec" /\ pc'[p] = "idle"
        /\ call[p] \in Endpoints /\ Owner[call[p]] = p /\ count'[call[p]] = 0
        /\ \A d \in Endpoints \ {call[p]} : count'[d] = count[d]
    BY <1>0, <1>3, ReplyDecFacts
  <2>2. ASSUME NEW d \in Endpoints, Owner[d] = p PROVE ReceivedFlow(d)'
    <3>1. d = call[p]
      BY <2>1, <2>2, IpcAssumption
    <3>2. count'[d] = 0
      BY <2>1, <3>1
    <3> QED BY <3>2, SMT DEF ReceivedFlow
  <2>3. \A d \in Endpoints : Owner[d] # p => count'[d] = count[d]
    BY <2>1
  <2>4. /\ pc[p] \notin {"p_finish", "p_copy"} \cup NodePCs
        /\ pc'[p] \notin Window \cup {"p_finish"} \cup NodePCs
    BY <2>1 DEF Window, NodePCs
  <2> QED BY <2>1, <2>2, <2>3, <2>4, ServerFrame
<1> QED BY <1>1, <1>2, <1>3

-----------------------------------------------------------------------------
(* The steps that touch a node or a list.                                  *)

\* kmalloc: nobody holds, has queued, has received or answers a free node.
LEMMA SendAllocFlow ==
    ASSUME IInv, NodeInv, Flow, NEW p \in Procs, SendAlloc(p)
    PROVE  Flow'
<1>0. TypeOK /\ TaskInv(p)
  BY DEF IInv
<1>1. /\ UNCHANGED <<list, count, srvVars>> /\ OthersCall(p) /\ OthersServe(p) /\ pc[p] = "s_alloc"
  BY <1>0, SendAllocFacts, ServeSame
<1>2. CASE pc'[p] = "idle" /\ UNCHANGED nodeVars
  <2>1. /\ pc[p] \notin {"p_finish", "p_copy", "p_wake", "p_dec"} \cup NodePCs
        /\ pc'[p] \notin {"p_finish", "p_copy", "p_wake", "p_dec"} \cup NodePCs
    BY <1>1, <1>2 DEF NodePCs
  <2> QED BY <1>1, <1>2, <2>1, NodelessFlow
<1>3. ASSUME NEW n \in Nodes, ~live[n], live'[n], ~finish'[n], mess'[n] = buf'[p],
             buf'[p].src = p, pc'[p] = "s_enqueue", cur'[p] = n,
             \A m \in Nodes \ {n} :
                live'[m] = live[m] /\ finish'[m] = finish[m] /\ mess'[m] = mess[m]
      PROVE  Flow'
  <2>1. \A s \in Procs, m \in Nodes : Unlinked(s, m)' <=> Unlinked(s, m)
    BY <1>1, <1>3, OthersNodes DEF Unlinked
  <2>2. \A m \in Nodes : Pending(m)' <=> Pending(m)
    BY <1>1, <2>1, SameLinks DEF Pending
  <2>3. ~Pending(n) /\ \A q \in Procs : ~Holds(q, n)
    BY <1>3, PendingNode DEF NodeInv, HoldInv
  <2>4. \A m \in Nodes : ~Holds(p, m) /\ (Holds(p, m)' <=> m = n)
    BY <1>1, <1>3 DEF Holds, NodePCs
  <2>5. \A q \in Procs, m \in Nodes : Holds(q, m)' <=> Holds(q, m) \/ (q = p /\ m = n)
    BY <1>1, <2>4, OthersNodes
  <2>6. ASSUME NEW m \in Nodes PROVE Copying(m)' <=> Copying(m)
    <3>1. \A s \in Procs : pc'[s] = "p_copy" <=> pc[s] = "p_copy"
      BY <1>1, <1>3 DEF OthersCall
    <3> QED BY <1>1, <3>1 DEF Copying
  <2>7. ASSUME NEW s \in Procs PROVE WindowFlow(s)'
    <3>1. CASE s = p
      BY <1>3, <3>1 DEF WindowFlow, Window
    <3>2. \A m \in Nodes : ~Waiter(p, m)
      BY <2>4 DEF Waiter
    <3>3. \A m \in Nodes, q \in Procs : Waiter(q, m) /\ finish[m] => finish'[m]
      BY <1>3, <2>3 DEF Waiter
    <3> QED BY <1>1, <3>1, <3>2, <3>3, OthersWindow
  <2>8. ASSUME NEW e \in Endpoints PROVE ReceivedFlow(e)'
    <3>1. pc'[Owner[e]] \notin Window \cup {"p_dec"} => pc[Owner[e]] \notin Window \cup {"p_dec"}
      BY <1>1, <1>3, IpcAssumption DEF OthersCall, Window
    <3>2. \A m \in Nodes : Pending(m) => mess'[m] = mess[m]
      BY <1>3, <2>3
    <3> QED BY <1>1, <3>1, <3>2, SameReceived
  <2>9. ASSUME NEW q \in Procs, NEW m \in Nodes PROVE HeldFlow(q, m)'
    <3>1. CASE q = p /\ m = n
      BY <1>3, <3>1 DEF HeldFlow
    <3>2. CASE q = p /\ m # n
      BY <2>4, <3>2 DEF HeldFlow
    <3>3. CASE q # p
      <4>1. HeldFlow(q, m) /\ pc'[q] = pc[q] /\ buf'[q] = buf[q] /\ (Holds(q, m) => m # n)
        BY <1>1, <2>3, <3>3 DEF Flow, OthersCall
      <4> QED BY <1>3, <2>5, <2>6, <3>3, <4>1 DEF HeldFlow
    <3> QED BY <3>1, <3>2, <3>3
  <2>10. ASSUME NEW q \in Procs PROVE BufFlow(q)'
    <3>1. CASE q = p
      BY <1>3, <3>1 DEF BufFlow
    <3> QED BY <1>1, <3>1, OthersFlow DEF Flow
  <2>11. ASSUME NEW m \in Nodes PROVE LiveFlow(m)'
    <3>1. LiveFlow(m)
      BY DEF Flow
    <3>2. CASE m = n
      BY <2>5, <3>2 DEF LiveFlow
    <3>3. CASE m # n
      BY <1>3, <2>2, <2>5, <3>1, <3>3 DEF LiveFlow
    <3> QED BY <3>2, <3>3
  <2> QED BY <2>7, <2>8, <2>9, <2>10, <2>11 DEF Flow
<1> QED BY <1>0, <1>2, <1>3, SendAllocFacts, SMT

\* list_add_tail: a request stays with its sender, a notification goes to the
\* server with the mark that tells it to free it.
LEMMA SendEnqueueFlow ==
    ASSUME IInv, NodeInv, Flow, NEW p \in Procs, SendEnqueue(p)
    PROVE  Flow'
<1>0. TypeOK /\ TaskInv(p)
  BY DEF IInv
<1>p. PICK n \in Nodes, e \in Endpoints : n = cur[p] /\ e = call[p]
  BY <1>0, SendEnqueueFacts
<1>1. /\ UNCHANGED <<count, nodeVars, srvVars>> /\ OthersCall(p) /\ OthersServe(p)
      /\ pc[p] = "s_enqueue" /\ list'[e] = Append(list[e], n)
      /\ \A d \in Endpoints \ {e} : list'[d] = list[d]
      /\ \/ pc'[p] \in {"s_wake", "s_wait"} /\ cur'[p] = n /\ buf'[p] = buf[p]
         \/ pc'[p] = "idle" /\ buf[p].notif
  BY <1>0, <1>p, SendEnqueueFacts, ServeSame
<1>2. Holds(p, n) /\ HoldInv(p, n) /\ HeldFlow(p, n)
  BY <1>p, <1>1 DEF Holds, NodePCs, NodeInv, Flow
<1>3. /\ ~finish[n] /\ ~Pending(n) /\ (\A q \in Procs : Holds(q, n) => q = p)
      /\ mess[n] = buf[p] /\ mess[n].src = p
  BY <1>1, <1>2 DEF HoldInv, HeldFlow
<1>4. \A m \in Nodes : Linked(m)' <=> Linked(m) \/ m = n
  <2>1. ~Linked(n) /\ ListsInv
    BY <1>3 DEF Pending, NodeInv
  <2> QED BY <1>0, <1>1, <2>1, LinkFacts
<1>5. \A s \in Procs, m \in Nodes : Unlinked(s, m)' <=> Unlinked(s, m)
  BY <1>1, OthersNodes DEF Unlinked
<1>6. \A m \in Nodes : Pending(m)' <=> Pending(m) \/ m = n
  BY <1>4, <1>5 DEF Pending
<1>7. \A m \in Nodes : /\ Holds(p, m) <=> m = n
                       /\ Holds(p, m)' <=> m = n /\ ~buf[p].notif
  BY <1>p, <1>1 DEF Holds, NodePCs
<1>8. \A q \in Procs, m \in Nodes : q # p => (Holds(q, m)' <=> Holds(q, m))
  BY <1>1, OthersNodes
<1>9. ASSUME NEW m \in Nodes PROVE Copying(m)' <=> Copying(m)
  <2>1. \A s \in Procs : pc'[s] = "p_copy" <=> pc[s] = "p_copy"
    BY <1>1 DEF OthersCall
  <2> QED BY <1>1, <2>1 DEF Copying
<1>10. ASSUME NEW s \in Procs PROVE WindowFlow(s)'
  <2>1. CASE s = p
    BY <1>1, <2>1 DEF WindowFlow, Window
  <2>2. \A m \in Nodes : ~Waiter(p, m)
    BY <1>1 DEF Waiter, WaitPCs
  <2> QED BY <1>1, <2>1, <2>2, OthersWindow
<1>11. ASSUME NEW d \in Endpoints PROVE ReceivedFlow(d)'
  <2>1. pc'[Owner[d]] \notin Window \cup {"p_dec"} => pc[Owner[d]] \notin Window \cup {"p_dec"}
    BY <1>1, IpcAssumption DEF OthersCall, Window
  <2>2. \A m \in Nodes : Pending(m) => mess'[m] = mess[m]
    BY <1>1
  <2> QED BY <1>1, <2>1, <2>2, SameReceived
<1>12. ASSUME NEW q \in Procs, NEW m \in Nodes PROVE HeldFlow(q, m)'
  <2>1. HeldFlow(q, m)
    BY DEF Flow
  <2>2. CASE q = p
    BY <1>1, <1>3, <1>7, <2>2 DEF HeldFlow
  <2>3. CASE q # p
    <3>1. pc'[q] = pc[q] /\ buf'[q] = buf[q]
      BY <1>1, <2>3 DEF OthersCall
    <3> QED BY <1>1, <1>8, <1>9, <2>1, <2>3, <3>1 DEF HeldFlow
  <2> QED BY <2>2, <2>3
<1>13. ASSUME NEW q \in Procs PROVE BufFlow(q)'
  <2>1. CASE q = p
    BY <1>1, <2>1 DEF BufFlow
  <2> QED BY <1>1, <2>1, OthersFlow DEF Flow
<1>14. ASSUME NEW m \in Nodes PROVE LiveFlow(m)'
  <2>1. LiveFlow(m)
    BY DEF Flow
  <2>2. CASE m = n
    <3>1. CASE buf[p].notif
      BY <1>1, <1>3, <1>6, <2>2, <3>1 DEF LiveFlow
    <3>2. CASE ~buf[p].notif
      BY <1>7, <2>2, <3>2 DEF LiveFlow
    <3> QED BY <3>1, <3>2
  <2>3. CASE m # n
    BY <1>1, <1>6, <1>7, <1>8, <2>1, <2>3 DEF LiveFlow
  <2> QED BY <2>2, <2>3
<1> QED BY <1>10, <1>11, <1>12, <1>13, <1>14 DEF Flow

\* The sender's kfree: it has left its wait, so no server answers the node.
LEMMA SendFreeFlow ==
    ASSUME IInv, NodeInv, Flow, NEW p \in Procs, SendFree(p)
    PROVE  Flow'
<1>0. TypeOK /\ TaskInv(p)
  BY DEF IInv
<1>p. PICK n \in Nodes : n = cur[p]
  BY <1>0, SendFreeFacts
<1>1. /\ UNCHANGED <<list, count, srvVars>> /\ OthersCall(p) /\ OthersServe(p)
      /\ pc[p] = "s_free" /\ pc'[p] = "idle" /\ ~live'[n]
      /\ \A m \in Nodes \ {n} :
            live'[m] = live[m] /\ finish'[m] = finish[m] /\ mess'[m] = mess[m]
  BY <1>0, <1>p, SendFreeFacts, ServeSame
<1>2. Holds(p, n) /\ HoldInv(p, n)
  <2>1. BufInv(p)
    BY DEF NodeInv
  <2> QED BY <1>p, <1>1, <2>1 DEF Holds, BufInv, NodePCs, NodeInv
<1>3. ~Pending(n) /\ \A q \in Procs : Holds(q, n) => q = p
  <2>1. finish[n]
    BY <1>1, <1>2 DEF HoldInv, LeftPCs
  <2> QED BY <1>2, <2>1, PendingNode DEF HoldInv
<1>4. \A s \in Procs, m \in Nodes : Unlinked(s, m)' <=> Unlinked(s, m)
  BY <1>1, OthersNodes DEF Unlinked
<1>5. \A m \in Nodes : Pending(m)' <=> Pending(m)
  BY <1>1, <1>4, SameLinks DEF Pending
<1>6. \A m \in Nodes : ~Holds(p, m)' /\ ~Waiter(p, m) /\ (Holds(p, m) => m = n)
  BY <1>p, <1>1 DEF Holds, NodePCs, Waiter, WaitPCs
<1>7. \A q \in Procs, m \in Nodes : q # p => (Holds(q, m)' <=> Holds(q, m))
  BY <1>1, OthersNodes
<1>8. ASSUME NEW m \in Nodes PROVE Copying(m)' <=> Copying(m)
  <2>1. \A s \in Procs : pc'[s] = "p_copy" <=> pc[s] = "p_copy"
    BY <1>1 DEF OthersCall
  <2> QED BY <1>1, <2>1 DEF Copying
<1>9. ASSUME NEW s \in Procs PROVE WindowFlow(s)'
  <2>1. CASE s = p
    BY <1>1, <2>1 DEF WindowFlow, Window
  <2>2. \A m \in Nodes, q \in Procs : Waiter(q, m) /\ finish[m] => finish'[m]
    BY <1>1, <1>3, <1>6 DEF Waiter
  <2> QED BY <1>1, <1>6, <2>1, <2>2, OthersWindow
<1>10. ASSUME NEW d \in Endpoints PROVE ReceivedFlow(d)'
  <2>1. pc'[Owner[d]] \notin Window \cup {"p_dec"} => pc[Owner[d]] \notin Window \cup {"p_dec"}
    BY <1>1, IpcAssumption DEF OthersCall, Window
  <2>2. \A m \in Nodes : Pending(m) => mess'[m] = mess[m]
    BY <1>1, <1>3
  <2> QED BY <1>1, <2>1, <2>2, SameReceived
<1>11. ASSUME NEW q \in Procs, NEW m \in Nodes PROVE HeldFlow(q, m)'
  <2>1. CASE q = p
    BY <1>6, <2>1 DEF HeldFlow
  <2>2. CASE q # p
    <3>1. HeldFlow(q, m) /\ pc'[q] = pc[q] /\ buf'[q] = buf[q] /\ (Holds(q, m) => m # n)
      BY <1>1, <1>3, <2>2 DEF OthersCall, Flow
    <3> QED BY <1>1, <1>7, <1>8, <2>2, <3>1 DEF HeldFlow
  <2> QED BY <2>1, <2>2
<1>12. ASSUME NEW q \in Procs PROVE BufFlow(q)'
  <2>1. CASE q = p
    BY <1>1, <2>1 DEF BufFlow
  <2> QED BY <1>1, <2>1, OthersFlow DEF Flow
<1>13. ASSUME NEW m \in Nodes PROVE LiveFlow(m)'
  <2>1. LiveFlow(m)
    BY DEF Flow
  <2>2. CASE m = n
    BY <1>1, <2>2 DEF LiveFlow
  <2>3. CASE m # n
    BY <1>1, <1>5, <1>6, <1>7, <2>1, <2>3 DEF LiveFlow
  <2> QED BY <2>2, <2>3
<1> QED BY <1>9, <1>10, <1>11, <1>12, <1>13 DEF Flow

\* list_del: what the server unlinks is what it received, and stays pending.
LEMMA ReplyDelFlow ==
    ASSUME IInv, NodeInv, Flow, NEW p \in Procs, ReplyDel(p)
    PROVE  Flow'
<1>0. TypeOK /\ TaskInv(p)
  BY DEF IInv
<1>p. PICK n \in Nodes, e \in Endpoints : n = Head(list[call[p]]) /\ e = call[p]
  BY ReplyDelFacts
<1>1. /\ UNCHANGED <<count, nodeVars>> /\ OthersCall(p) /\ OthersServe(p)
      /\ pc[p] = "p_del" /\ pc'[p] = "p_finish"
      /\ n = Head(list[e]) /\ list[e] # <<>> /\ list'[e] = Tail(list[e])
      /\ \A d \in Endpoints \ {e} : list'[d] = list[d]
      /\ rnode[p] = n /\ rnode'[p] = n /\ rbuf'[p] = rbuf[p]
  BY <1>p, ReplyDelFacts
<1>2. Linked(n) /\ \A m \in Nodes : Linked(m)' <=> Linked(m) /\ m # n
  <2>1. ListsInv
    BY DEF NodeInv
  <2> QED BY <1>0, <1>1, <2>1, UnlinkFacts
<1>3. \A s \in Procs, m \in Nodes : Unlinked(s, m)' <=> Unlinked(s, m) \/ (s = p /\ m = n)
  <2>1. \A m \in Nodes : ~Unlinked(p, m) /\ (Unlinked(p, m)' <=> m = n)
    BY <1>1 DEF Unlinked
  <2> QED BY <1>1, <2>1, OthersNodes
<1>4. \A m \in Nodes : Pending(m)' <=> Pending(m)
  BY <1>2, <1>3 DEF Pending
<1>5. \A m \in Nodes : ~Holds(p, m) /\ ~Holds(p, m)' /\ ~Waiter(p, m)
  BY <1>1 DEF Holds, NodePCs, Waiter
<1>6. \A q \in Procs, m \in Nodes : Holds(q, m)' <=> Holds(q, m)
  BY <1>1, <1>5, OthersNodes
<1>7. ASSUME NEW s \in Procs
      PROVE  /\ rnode'[s] = rnode[s] /\ rbuf'[s] = rbuf[s]
             /\ pc'[s] \in Window <=> pc[s] \in Window
             /\ pc'[s] = "p_copy" <=> pc[s] = "p_copy"
             /\ pc'[s] \in Window \cup {"p_dec"} <=> pc[s] \in Window \cup {"p_dec"}
             /\ pc'[s] \in {"s_enqueue", "s_free"} => pc'[s] = pc[s] /\ buf'[s] = buf[s]
  BY <1>1 DEF OthersCall, OthersServe, Window
<1>8. ASSUME NEW m \in Nodes PROVE Copying(m)' <=> Copying(m)
  BY <1>7 DEF Copying
<1>9. ASSUME NEW s \in Procs PROVE WindowFlow(s)'
  <2>1. CASE s = p
    BY <1>1, <2>1 DEF WindowFlow, Window
  <2> QED BY <1>1, <1>5, <2>1, OthersWindow
<1>10. ASSUME NEW d \in Endpoints PROVE ReceivedFlow(d)'
  <2>1. Owner[d] \in Procs /\ ReceivedFlow(d)
    BY IpcAssumption DEF Flow
  <2> QED BY <1>1, <1>7, <2>1 DEF ReceivedFlow
<1>11. ASSUME NEW q \in Procs, NEW m \in Nodes PROVE HeldFlow(q, m)'
  <2>1. HeldFlow(q, m)
    BY DEF Flow
  <2> QED BY <1>1, <1>6, <1>7, <1>8, <2>1 DEF HeldFlow
<1>12. ASSUME NEW q \in Procs PROVE BufFlow(q)'
  <2>1. BufFlow(q)
    BY DEF Flow
  <2> QED BY <1>7, <2>1 DEF BufFlow
<1>13. ASSUME NEW m \in Nodes PROVE LiveFlow(m)'
  <2>1. LiveFlow(m)
    BY DEF Flow
  <2> QED BY <1>1, <1>4, <1>6, <2>1 DEF LiveFlow
<1> QED BY <1>9, <1>10, <1>11, <1>12, <1>13 DEF Flow

\* is_finish: the node the server unlinked is a notification nobody holds, which
\* it frees, or the request of a task that waits for the answer.
LEMMA ReplyFinishFlow ==
    ASSUME IInv, NodeInv, Flow, NEW p \in Procs, ReplyFinish(p)
    PROVE  Flow'
<1>0. TypeOK /\ TaskInv(p)
  BY DEF IInv
<1>p. PICK n \in Nodes : n = rnode[p]
  BY <1>0, ReplyFinishFacts
<1>1. /\ UNCHANGED <<list, count, srvVars>> /\ OthersCall(p) /\ OthersServe(p)
      /\ pc[p] = "p_finish" /\ rnode[p] = n
      /\ \A m \in Nodes \ {n} :
            live'[m] = live[m] /\ finish'[m] = finish[m] /\ mess'[m] = mess[m]
      /\ \/ mess[n].notif /\ pc'[p] = "p_dec" /\ ~live'[n]
         \/ /\ ~mess[n].notif /\ pc'[p] = "p_copy" /\ live'[n] = live[n]
            /\ finish'[n] /\ mess'[n] = mess[n]
  BY <1>0, <1>p, ReplyFinishFacts, ServeSame
<1>2. Unlinked(p, n) /\ Pending(n)
  BY <1>1 DEF Unlinked, Pending
<1>3. /\ live[n] /\ ~finish[n] /\ ~Linked(n) /\ \A t \in Procs : Unlinked(t, n) => t = p
  BY <1>2 DEF NodeInv, UnlinkedInv
<1>4. \A q \in Procs : Holds(q, n) => pc[q] \in WaitPCs /\ ~mess[n].notif
  BY <1>2, PendingNode
<1>5. \A s \in Procs, m \in Nodes : Unlinked(s, m)' <=> Unlinked(s, m) /\ s # p
  BY <1>1, OthersNodes DEF Unlinked
<1>6. \A m \in Nodes : Pending(m)' <=> Pending(m) /\ m # n
  <2>1. \A m \in Nodes : Unlinked(p, m) => m = n
    BY <1>1 DEF Unlinked
  <2> QED BY <1>1, <1>3, <1>5, <2>1, SameLinks DEF Pending
<1>7. \A m \in Nodes : ~Holds(p, m) /\ ~Holds(p, m)' /\ ~Waiter(p, m)
  BY <1>1 DEF Holds, NodePCs, Waiter
<1>8. \A q \in Procs, m \in Nodes : Holds(q, m)' <=> Holds(q, m)
  BY <1>1, <1>7, OthersNodes
<1>9. \A m \in Nodes : Copying(m) => Copying(m)'
  <2>1. \A s \in Procs : pc[s] = "p_copy" => pc'[s] = "p_copy" /\ rnode'[s] = rnode[s]
    BY <1>1 DEF OthersCall
  <2> QED BY <2>1 DEF Copying
<1>10. ASSUME NEW s \in Procs, s # p PROVE WindowFlow(s)'
  <2>1. \A m \in Nodes, q \in Procs : Waiter(q, m) /\ finish[m] => finish'[m]
    BY <1>1, <1>3
  <2> QED BY <1>1, <1>7, <1>10, <2>1, OthersWindow
<1>11. WindowFlow(p)'
  <2>1. CASE mess[n].notif
    BY <1>1, <2>1 DEF WindowFlow, Window
  <2>2. CASE ~mess[n].notif
    <3>1. PICK q \in Procs : Holds(q, n)
      <4>1. LiveFlow(n)
        BY DEF Flow
      <4> QED BY <1>3, <2>2, <4>1 DEF LiveFlow
    <3>2. Waiter(q, n) /\ q # p
      BY <1>4, <1>7, <3>1 DEF Waiter
    <3>3. mess[n].src = q
      <4>1. HeldFlow(q, n)
        BY DEF Flow
      <4> QED BY <3>1, <4>1 DEF HeldFlow
    <3>4. PICK e \in Endpoints : Owner[e] = p /\ count[e] = 1
      BY <1>0, <1>1 DEF TaskInv, ReplyPCs
    <3>5. rbuf[p].src = mess[n].src
      <4>1. ReceivedFlow(e)
        BY DEF Flow
      <4> QED BY <1>1, <3>4, <4>1 DEF ReceivedFlow, Window
    <3>6. Waiter(q, n)'
      BY <1>1, <3>2, OthersFlow
    <3>7. rnode'[p] = n /\ rbuf'[p] = rbuf[p] /\ finish'[n]
      BY <1>1, <2>2
    <3> QED BY <3>3, <3>5, <3>6, <3>7 DEF WindowFlow
  <2> QED BY <2>1, <2>2
<1>12. ASSUME NEW d \in Endpoints PROVE ReceivedFlow(d)'
  <2> SUFFICES ASSUME count[d] = 1, pc'[Owner[d]] \notin Window \cup {"p_dec"}
               PROVE  ReceivedFlow(d)'
    BY <1>1 DEF ReceivedFlow
  <2>1. Owner[d] \in Procs /\ ReceivedFlow(d)
    BY IpcAssumption DEF Flow
  <2>2. Owner[d] # p
    BY <1>1 DEF Window
  <2>3. pc[Owner[d]] \notin Window \cup {"p_dec"}
    BY <1>1, <2>1, <2>2 DEF OthersCall
  <2>4. /\ rnode[Owner[d]] \in Nodes
        /\ Linked(rnode[Owner[d]]) \/ Unlinked(Owner[d], rnode[Owner[d]])
    BY <2>3, ReceivedPending
  <2>5. rnode[Owner[d]] # n
    BY <1>3, <2>1, <2>2, <2>4
  <2> QED BY <1>1, <2>1, <2>3, <2>4, <2>5 DEF ReceivedFlow
<1>13. ASSUME NEW q \in Procs, NEW m \in Nodes PROVE HeldFlow(q, m)'
  <2> SUFFICES ASSUME Holds(q, m) PROVE HeldFlow(q, m)'
    BY <1>8 DEF HeldFlow
  <2>1. HeldFlow(q, m) /\ q # p
    BY <1>7 DEF Flow
  <2>2. pc'[q] = pc[q] /\ buf'[q] = buf[q]
    BY <1>1, <2>1 DEF OthersCall
  <2>3. CASE m # n
    BY <1>1, <1>9, <2>1, <2>2, <2>3 DEF HeldFlow
  <2>4. CASE m = n
    <3>1. ~mess[n].notif
      BY <1>4, <2>4
    <3>2. Copying(n)'
      BY <1>1, <3>1 DEF Copying
    <3>3. mess'[n] = mess[n]
      BY <1>1, <3>1
    <3> QED BY <2>1, <2>2, <2>4, <3>2, <3>3 DEF HeldFlow
  <2> QED BY <2>3, <2>4
<1>14. ASSUME NEW q \in Procs PROVE BufFlow(q)'
  <2>1. CASE q = p
    BY <1>1, <2>1 DEF BufFlow
  <2> QED BY <1>1, <2>1, OthersFlow DEF Flow
<1>15. ASSUME NEW m \in Nodes PROVE LiveFlow(m)'
  <2>1. LiveFlow(m)
    BY DEF Flow
  <2>2. CASE m = n
    BY <1>1, <1>3, <1>8, <2>1, <2>2 DEF LiveFlow
  <2>3. CASE m # n
    BY <1>1, <1>6, <1>8, <2>1, <2>3 DEF LiveFlow
  <2> QED BY <2>2, <2>3
<1> QED BY <1>10, <1>11, <1>12, <1>13, <1>14, <1>15 DEF Flow

\* The answer is copied into the node of the task that waits for it, which no
\* other server has received.
LEMMA ReplyCopyFlow ==
    ASSUME IInv, NodeInv, Flow, NEW p \in Procs, ReplyCopy(p)
    PROVE  Flow'
<1>0. TypeOK /\ TaskInv(p)
  BY DEF IInv
<1>p. PICK n \in Nodes : n = rnode[p]
  BY <1>0, ReplyCopyFacts
<1>1. /\ UNCHANGED <<list, count, live, finish, srvVars>> /\ OthersCall(p) /\ OthersServe(p)
      /\ pc[p] = "p_copy" /\ pc'[p] = "p_wake" /\ rnode[p] = n
      /\ mess'[n].reply /\ mess'[n].src = rbuf[p].src
      /\ \A m \in Nodes \ {n} : mess'[m] = mess[m]
  BY <1>0, <1>p, ReplyCopyFacts, ServeSame
<1>2. ~Pending(n)
  BY <1>1, WindowNode DEF Window
<1>3. PICK w \in Procs : Waiter(w, n) /\ rbuf[p].src = w /\ finish[n]
  BY <1>1 DEF Flow, WindowFlow, Window
<1>4. Holds(w, n) /\ \A q \in Procs : Holds(q, n) => q = w
  BY <1>3, OneHolder DEF Waiter
<1>5. \A s \in Procs, m \in Nodes : Unlinked(s, m)' <=> Unlinked(s, m)
  BY <1>1, OthersNodes, SMT DEF Unlinked
<1>6. \A m \in Nodes : Pending(m)' <=> Pending(m)
  BY <1>1, <1>5, SameLinks DEF Pending
<1>7. \A m \in Nodes : ~Holds(p, m) /\ ~Holds(p, m)' /\ ~Waiter(p, m)
  BY <1>1 DEF Holds, NodePCs, Waiter
<1>8. \A q \in Procs, m \in Nodes : Holds(q, m)' <=> Holds(q, m)
  BY <1>1, <1>7, OthersNodes
<1>9. \A m \in Nodes \ {n} : Copying(m) => Copying(m)'
  <2>1. \A s \in Procs : s # p => pc'[s] = pc[s] /\ rnode'[s] = rnode[s]
    BY <1>1 DEF OthersCall
  <2> QED BY <1>1, <2>1 DEF Copying
<1>10. ASSUME NEW s \in Procs PROVE WindowFlow(s)'
  <2>1. CASE s = p
    <3>1. Waiter(w, n)' /\ rnode'[p] = n /\ rbuf'[p] = rbuf[p] /\ finish'[n]
      BY <1>1, <1>3, <1>7, OthersFlow, SMT
    <3> QED BY <1>3, <2>1, <3>1 DEF WindowFlow
  <2> QED BY <1>1, <1>7, <2>1, OthersWindow
<1>11. ASSUME NEW d \in Endpoints PROVE ReceivedFlow(d)'
  <2>1. pc'[Owner[d]] \notin Window \cup {"p_dec"} => pc[Owner[d]] \notin Window \cup {"p_dec"}
    BY <1>1, IpcAssumption DEF OthersCall, Window
  <2>2. \A m \in Nodes : Pending(m) => mess'[m] = mess[m]
    BY <1>1, <1>2
  <2> QED BY <1>1, <2>1, <2>2, SameReceived
<1>12. ASSUME NEW q \in Procs, NEW m \in Nodes PROVE HeldFlow(q, m)'
  <2> SUFFICES ASSUME Holds(q, m) PROVE HeldFlow(q, m)'
    BY <1>8 DEF HeldFlow
  <2>1. HeldFlow(q, m) /\ q # p
    BY <1>7 DEF Flow
  <2>2. pc'[q] = pc[q] /\ buf'[q] = buf[q]
    BY <1>1, <2>1 DEF OthersCall
  <2>3. CASE m # n
    BY <1>1, <1>9, <2>1, <2>2, <2>3 DEF HeldFlow
  <2>4. CASE m = n
    <3>1. q = w /\ pc[q] # "s_enqueue"
      BY <1>3, <1>4, <2>4 DEF Waiter, WaitPCs
    <3> QED BY <1>1, <1>3, <2>2, <2>4, <3>1 DEF HeldFlow
  <2> QED BY <2>3, <2>4
<1>13. ASSUME NEW q \in Procs PROVE BufFlow(q)'
  <2>1. CASE q = p
    BY <1>1, <2>1 DEF BufFlow
  <2> QED BY <1>1, <2>1, OthersFlow DEF Flow
<1>14. ASSUME NEW m \in Nodes PROVE LiveFlow(m)'
  <2>1. LiveFlow(m)
    BY DEF Flow
  <2>2. CASE m = n
    BY <1>4, <1>8, <2>2 DEF LiveFlow
  <2>3. CASE m # n
    BY <1>1, <1>6, <1>8, <2>1, <2>3 DEF LiveFlow
  <2> QED BY <2>2, <2>3
<1> QED BY <1>10, <1>11, <1>12, <1>13, <1>14 DEF Flow

-----------------------------------------------------------------------------
\* race is never reset, and every step preserves Flow until it is set.
LEMMA NextFlow == IInv /\ NodeInv /\ FlowInv /\ [Next]_vars => FlowInv'
<1> SUFFICES ASSUME IInv, NodeInv, FlowInv, [Next]_vars, ~race' PROVE Flow'
  BY DEF FlowInv
<1>0. TypeOK /\ \A p \in Procs : TaskInv(p)
  BY DEF IInv
<1>1. CASE UNCHANGED vars
  BY <1>1, SameFlow DEF vars, FlowInv
<1>2. ASSUME NEW p \in Procs, Step(p) PROVE Flow'
  <2>1. ~race
    BY <1>0, <1>2, SendAwaitServerFacts, SendTimeoutFacts, SendAllocFacts, SendEnqueueFacts,
       SendWakeFacts, SendAwaitReplyFacts, SendCopyFacts, SendFreeFacts, ReceiveListFacts,
       ReceiveWaitFacts, ReceiveFirstFacts, ReplyDelFacts, ReplyFinishFacts, ReplyCopyFacts,
       ReplyWakeFacts, ReplyDecFacts
    DEF Step, SendStep, ReceiveStep, ReplyStep
  <2>2. Flow
    BY <2>1 DEF FlowInv
  <2> QED BY <1>2, <2>2, QuietFlow, WaiterFlow, SendCopyFlow, ServerFlow, SendAllocFlow,
             SendEnqueueFlow, SendFreeFlow, ReplyDelFlow, ReplyFinishFlow, ReplyCopyFlow
          DEF Step, SendStep, ReceiveStep, ReplyStep
<1>3. ASSUME NEW p \in Procs, NEW e \in Endpoints, Issue(p, e) PROVE Flow'
  <2>1. ~race
    BY <1>0, <1>3, SendFacts, ReceiveFacts, ReplyFacts DEF Issue
  <2> QED BY <1>3, <2>1, QuietFlow DEF FlowInv
<1>4. ASSUME NEW e \in Endpoints, Register(e) PROVE Flow'
  <2>1. UNCHANGED <<list, count, nodeVars, callVars, srvVars, race>>
    BY <1>0, <1>4, RegisterFacts
  <2> QED BY <2>1, SameFlow DEF FlowInv
<1> QED BY <1>1, <1>2, <1>3, <1>4 DEF Next

\* Nothing is allocated at boot.
LEMMA InitFlow == Init => FlowInv
<1> SUFFICES ASSUME Init PROVE Flow
  BY DEF FlowInv
<1>1. \A p \in Procs : pc[p] = "idle"
  BY DEF Init
<1>2. \A p \in Procs, n \in Nodes : ~Holds(p, n)
  BY <1>1 DEF Holds, NodePCs
<1>3. \A p \in Procs : WindowFlow(p) /\ BufFlow(p)
  BY <1>1 DEF WindowFlow, BufFlow, Window
<1>4. \A e \in Endpoints : ReceivedFlow(e)
  BY SMT DEF Init, ReceivedFlow
<1>5. \A n \in Nodes : LiveFlow(n)
  BY DEF Init, LiveFlow
<1> QED BY <1>2, <1>3, <1>4, <1>5 DEF Flow, HeldFlow

\* As long as no sender leaves its wait between the is_finish store and the
\* wake_up of __ipc_reply, the server copies its answer into the node of the task
\* whose message it received, every send that succeeds returns an answer to
\* itself, and every allocated node has one task that will free it: for any
\* number of tasks, endpoints and heap nodes.
THEOREM AnswersReturn == Spec => []RepliesSound
<1>1. IInv /\ NodeInv /\ FlowInv => RepliesSound
  <2> SUFFICES ASSUME IInv, NodeInv, FlowInv, ~race
               PROVE  RepliesSound
    BY DEF RepliesSound, ReplyIntegrity, NoLeak
  <2>1. ASSUME NEW s \in Procs, pc[s] \in {"p_copy", "p_wake"}
        PROVE  \E p \in Procs : /\ cur[p] = rnode[s] /\ live[cur[p]] /\ rbuf[s].src = p
                                /\ pc[p] \in WaitPCs
    <3>1. PICK p \in Procs : Waiter(p, rnode[s]) /\ rbuf[s].src = p
      BY <2>1 DEF FlowInv, Flow, WindowFlow, Window
    <3>2. rnode[s] \in Nodes
      BY <2>1 DEF IInv, TaskInv
    <3>3. HoldInv(p, rnode[s])
      BY <3>2 DEF NodeInv
    <3> QED BY <3>1, <3>3 DEF Waiter, Holds, HoldInv
  <2>2. \A p \in Procs : pc[p] = "s_free" => buf[p].reply /\ buf[p].src = p
    BY DEF FlowInv, Flow, BufFlow
  <2>3. ASSUME NEW n \in Nodes, live[n]
        PROVE  \/ \E p \in Procs : cur[p] = n /\ pc[p] \in NodePCs
               \/ mess[n].notif /\ Pending(n)
    BY <2>3 DEF FlowInv, Flow, LiveFlow, Holds
  <2>4. NodePCs = SendPCs \ {"s_reg", "s_reg_check", "s_reg_sched", "s_alloc"}
    BY DEF NodePCs, SendPCs
  <2>5. ReplyIntegrity
    BY <2>1, <2>2 DEF ReplyIntegrity, WaitPCs
  <2>6. NoLeak
    BY <2>3, <2>4 DEF NoLeak, Pending, Linked, Unlinked
  <2> QED BY <2>5, <2>6 DEF RepliesSound
<1> QED BY InitIInv, NextIInv, InitNodes, NextNodes, InitFlow, NextFlow, <1>1, PTL DEF Spec
=============================================================================
