---------------------------- MODULE IpcNodeProofs ----------------------------
(***************************************************************************)
(* A heap node is in one place: not yet queued by the task that allocated  *)
(* it, on one request list, with the server that unlinked it, or with the  *)
(* task that will free it.  NodeInv rests on IInv of IpcProofs.            *)
(***************************************************************************)
EXTENDS IpcProofs

WaitPCs == {"s_wake", "s_wait", "s_wait_check", "s_wait_sched"}
LeftPCs == {"s_copy", "s_free"}

\* Node n is on a request list; a server has unlinked it and not answered it yet.
Linked(n) == \E e \in Endpoints : \E i \in DOMAIN list[e] : list[e][i] = n
Unlinked(s, n) == pc[s] = "p_finish" /\ rnode[s] = n
Pending(n) == Linked(n) \/ \E s \in Procs : Unlinked(s, n)

\* Task p still needs node n: it has not queued it yet, or it awaits the answer.
Holds(p, n) ==
    cur[p] = n /\ pc[p] \in NodePCs /\ (pc[p] = "s_enqueue" \/ ~buf[p].notif)

\* No node is on two lists or twice on one.
ListsInv ==
    \A d, e \in Endpoints : \A i \in DOMAIN list[d], j \in DOMAIN list[e] :
        list[d][i] = list[e][j] => d = e /\ i = j

\* A pending node is allocated, unanswered, and in one place.
LinkedInv(n) == Linked(n) => live[n] /\ ~finish[n]
UnlinkedInv(s, n) ==
    Unlinked(s, n) => /\ live[n] /\ ~finish[n] /\ ~Linked(n)
                      /\ \A t \in Procs : Unlinked(t, n) => t = s

\* One task at most holds a node; what it has not queued is not pending, what it
\* will free is answered, and nobody takes its request for a notification.
HoldInv(p, n) ==
    Holds(p, n) => /\ live[n]
                   /\ \A q \in Procs : Holds(q, n) => q = p
                   /\ pc[p] = "s_enqueue" => ~Pending(n) /\ ~finish[n]
                   /\ ~buf[p].notif => ~mess[n].notif
                   /\ pc[p] \in LeftPCs => finish[n]
BufInv(p) == pc[p] \in NodePCs \ {"s_enqueue", "s_wake"} => ~buf[p].notif

\* A server that received a notification answers nobody's request with it.
AnswerInv(e) ==
    count[e] = 1 /\ pc[Owner[e]] \notin {"p_wake", "p_dec"} /\ rbuf[Owner[e]].notif =>
        /\ rnode[Owner[e]] \in Nodes /\ live[rnode[Owner[e]]]
        /\ \A p \in Procs : ~Holds(p, rnode[Owner[e]])
        /\ pc[Owner[e]] = "p_copy" => ~Pending(rnode[Owner[e]])

NodeInv ==
    /\ ListsInv
    /\ \A n \in Nodes : LinkedInv(n)
    /\ \A s \in Procs, n \in Nodes : UnlinkedInv(s, n)
    /\ \A p \in Procs, n \in Nodes : HoldInv(p, n)
    /\ \A p \in Procs : BufInv(p)
    /\ \A e \in Endpoints : AnswerInv(e)

USE DEF epVars, nodeVars, callVars, srvVars, waitVars

-----------------------------------------------------------------------------
\* A leaf goes to Zenon, and to the SMT solver where it says so.
USE Zenon

\* The positions of a list after list_add_tail and after list_del of its head.
LEMMA PositionFacts ==
    ASSUME NEW s \in Seq(Nodes)
    PROVE  /\ DOMAIN s = 1..Len(s) /\ Len(s) \in Nat
           /\ \A n \in Nodes : /\ DOMAIN Append(s, n) = 1..(Len(s) + 1)
                               /\ Append(s, n)[Len(s) + 1] = n
                               /\ \A i \in DOMAIN s : Append(s, n)[i] = s[i]
           /\ s # <<>> => /\ Len(s) >= 1 /\ Head(s) = s[1]
                          /\ DOMAIN Tail(s) = 1..(Len(s) - 1)
                          /\ \A i \in DOMAIN Tail(s) : Tail(s)[i] = s[i + 1]
<1>1. DOMAIN s = 1..Len(s) /\ Len(s) \in Nat
  BY SMT
<1>2. ASSUME NEW n \in Nodes
      PROVE  /\ DOMAIN Append(s, n) = 1..(Len(s) + 1) /\ Append(s, n)[Len(s) + 1] = n
             /\ \A i \in DOMAIN s : Append(s, n)[i] = s[i]
  BY SMT
<1>3. ASSUME s # <<>>
      PROVE  /\ Len(s) >= 1 /\ Head(s) = s[1] /\ DOMAIN Tail(s) = 1..(Len(s) - 1)
             /\ \A i \in DOMAIN Tail(s) : Tail(s)[i] = s[i + 1]
  BY <1>3, SMT
<1> QED BY <1>1, <1>2, <1>3

\* list_add_tail of a node that is on no list.
LEMMA LinkFacts ==
    ASSUME TypeOK, NEW e \in Endpoints, NEW n \in Nodes, ~Linked(n), ListsInv,
           list'[e] = Append(list[e], n), \A d \in Endpoints \ {e} : list'[d] = list[d]
    PROVE  ListsInv' /\ \A m \in Nodes : Linked(m)' <=> Linked(m) \/ m = n
<1>1. /\ DOMAIN list[e] = 1..Len(list[e]) /\ Len(list[e]) \in Nat
      /\ DOMAIN list'[e] = 1..(Len(list[e]) + 1) /\ list'[e][Len(list[e]) + 1] = n
      /\ \A i \in DOMAIN list[e] : list'[e][i] = list[e][i]
  BY PositionFacts, TypeGroups, SMT DEF EpTypes
<1>2. ASSUME NEW d \in Endpoints, NEW i \in DOMAIN list'[d]
      PROVE  (i \in DOMAIN list[d] /\ list'[d][i] = list[d][i]) \/ (d = e /\ i = Len(list[e]) + 1)
  BY <1>1, SMT
<1>3. ASSUME NEW d \in Endpoints, NEW i \in DOMAIN list[d]
      PROVE  i \in DOMAIN list'[d] /\ list'[d][i] = list[d][i] /\ list[d][i] # n
  BY <1>1, SMT DEF Linked
<1>4. ASSUME NEW m \in Nodes PROVE Linked(m)' <=> Linked(m) \/ m = n
  <2>1. Linked(m)' => Linked(m) \/ m = n
    BY <1>1, <1>2, SMT DEF Linked
  <2>2. Linked(m) => Linked(m)'
    BY <1>3 DEF Linked
  <2>3. m = n => Linked(m)'
    BY <1>1, SMT DEF Linked
  <2> QED BY <2>1, <2>2, <2>3
<1>5. ASSUME NEW d \in Endpoints, NEW c \in Endpoints, NEW i \in DOMAIN list'[d],
             NEW j \in DOMAIN list'[c], list'[d][i] = list'[c][j]
      PROVE  d = c /\ i = j
  BY <1>1, <1>2, <1>3, <1>5, SMT DEF ListsInv
<1> QED BY <1>4, <1>5 DEF ListsInv

\* list_del of the first node of a list.
LEMMA UnlinkFacts ==
    ASSUME TypeOK, NEW e \in Endpoints, list[e] # <<>>, ListsInv,
           list'[e] = Tail(list[e]), \A d \in Endpoints \ {e} : list'[d] = list[d]
    PROVE  /\ ListsInv' /\ Linked(Head(list[e]))
           /\ \A m \in Nodes : Linked(m)' <=> Linked(m) /\ m # Head(list[e])
<1>1. /\ DOMAIN list[e] = 1..Len(list[e]) /\ Len(list[e]) \in Nat /\ Len(list[e]) >= 1
      /\ Head(list[e]) = list[e][1] /\ DOMAIN list'[e] = 1..(Len(list[e]) - 1)
      /\ \A i \in DOMAIN list'[e] : list'[e][i] = list[e][i + 1]
  BY PositionFacts, TypeGroups, SMT DEF EpTypes
<1>2. ASSUME NEW d \in Endpoints, NEW i \in DOMAIN list'[d]
      PROVE  /\ d # e => i \in DOMAIN list[d] /\ list'[d][i] = list[d][i]
             /\ d = e => i \in Nat /\ i + 1 \in DOMAIN list[d] /\ i + 1 # 1 /\ list'[d][i] = list[d][i + 1]
  <2>1. CASE d # e
    BY <2>1
  <2>2. CASE d = e
    <3>1. i \in 1..(Len(list[e]) - 1)
      BY <1>1, <2>2
    <3>2. i \in Nat /\ i + 1 \in 1..Len(list[e]) /\ i + 1 # 1
      BY <1>1, <3>1, SMT
    <3> QED BY <1>1, <2>2, <3>1, <3>2
  <2> QED BY <2>1, <2>2
<1>3. ASSUME NEW d \in Endpoints, NEW i \in DOMAIN list[d], d # e \/ i # 1
      PROVE  \E j \in DOMAIN list'[d] : list'[d][j] = list[d][i]
  <2>1. CASE d # e
    BY <2>1
  <2>2. CASE d = e
    <3>1. i - 1 \in DOMAIN list'[e] /\ list'[e][i - 1] = list[e][i]
      BY <1>1, <1>3, <2>2, SMT
    <3> QED BY <2>2, <3>1
  <2> QED BY <2>1, <2>2
<1>4. Linked(Head(list[e]))
  BY <1>1, SMT DEF Linked
<1>5. ASSUME NEW m \in Nodes PROVE Linked(m)' <=> Linked(m) /\ m # Head(list[e])
  <2>1. ASSUME Linked(m)' PROVE Linked(m) /\ m # Head(list[e])
    <3>0. PICK d \in Endpoints : \E i \in DOMAIN list'[d] : list'[d][i] = m
      BY <2>1 DEF Linked
    <3>1. PICK i \in DOMAIN list'[d] : list'[d][i] = m
      BY <3>0
    <3>2. CASE d # e
      BY <1>1, <1>2, <3>1, <3>2, SMT DEF Linked, ListsInv
    <3>3. CASE d = e
      BY <1>1, <1>2, <3>1, <3>3, SMT DEF Linked, ListsInv
    <3> QED BY <3>2, <3>3
  <2>2. ASSUME Linked(m), m # Head(list[e]) PROVE Linked(m)'
    BY <1>1, <1>3, <2>2, SMT DEF Linked
  <2> QED BY <2>1, <2>2
<1>6. ASSUME NEW d \in Endpoints, NEW c \in Endpoints, NEW i \in DOMAIN list'[d],
             NEW j \in DOMAIN list'[c], list'[d][i] = list'[c][j]
      PROVE  d = c /\ i = j
  <2>1. CASE d = e /\ c = e
    BY <1>2, <1>6, <2>1, SMT DEF ListsInv
  <2>2. CASE d = e /\ c # e
    BY <1>2, <1>6, <2>2, SMT DEF ListsInv
  <2>3. CASE d # e /\ c = e
    BY <1>2, <1>6, <2>3, SMT DEF ListsInv
  <2>4. CASE d # e /\ c # e
    BY <1>2, <1>6, <2>4, SMT DEF ListsInv
  <2> QED BY <2>1, <2>2, <2>3, <2>4
<1> QED BY <1>4, <1>5, <1>6 DEF ListsInv

-----------------------------------------------------------------------------
(* The steps that leave the nodes and the lists alone.                     *)

\* What the other tasks hold and have unlinked is theirs.
LEMMA OthersNodes ==
    ASSUME NEW p \in Procs, OthersCall(p), OthersServe(p), NEW q \in Procs, q # p
    PROVE  /\ \A n \in Nodes : (Holds(q, n)' <=> Holds(q, n)) /\ (Unlinked(q, n)' <=> Unlinked(q, n))
           /\ BufInv(q)' <=> BufInv(q)
BY DEF OthersCall, OthersServe, Holds, Unlinked, BufInv

\* A step that leaves the lists alone links and unlinks nothing.
LEMMA SameLinks ==
    ASSUME UNCHANGED list
    PROVE  (ListsInv' <=> ListsInv) /\ \A n \in Nodes : Linked(n)' <=> Linked(n)
BY SMT DEF ListsInv, Linked

\* A step of task p that leaves lists, nodes and the other tasks alone (most of
\* __ipc_send and __ipc_receive) keeps NodeInv.
LEMMA NodeFrame ==
    ASSUME NodeInv, NEW p \in Procs, OthersCall(p), OthersServe(p), UNCHANGED <<list, nodeVars>>,
           pc[p] # "p_finish", pc'[p] \notin {"p_finish", "s_enqueue"},
           \A n \in Nodes : Holds(p, n)' => /\ Holds(p, n)
                                            /\ ~buf'[p].notif => ~mess[n].notif
                                            /\ pc'[p] \in LeftPCs => finish[n],
           BufInv(p)',
           \A e \in Endpoints : Owner[e] = p => AnswerInv(e)',
           \A e \in Endpoints : Owner[e] # p => count'[e] = count[e]
    PROVE  NodeInv'
<1>1. ListsInv' /\ \A n \in Nodes : Linked(n)' <=> Linked(n)
  BY SameLinks DEF NodeInv
<1>2. ASSUME NEW s \in Procs, NEW n \in Nodes PROVE Unlinked(s, n)' <=> Unlinked(s, n)
  BY OthersNodes DEF Unlinked
<1>3. ASSUME NEW n \in Nodes PROVE Pending(n)' <=> Pending(n)
  BY <1>1, <1>2 DEF Pending
<1>4. ASSUME NEW q \in Procs, NEW n \in Nodes PROVE Holds(q, n)' => Holds(q, n)
  BY OthersNodes
<1>5. ASSUME NEW n \in Nodes PROVE LinkedInv(n)'
  BY <1>1 DEF NodeInv, LinkedInv
<1>6. ASSUME NEW s \in Procs, NEW n \in Nodes PROVE UnlinkedInv(s, n)'
  <2>1. UnlinkedInv(s, n)
    BY DEF NodeInv
  <2> QED BY <1>1, <1>2, <2>1 DEF UnlinkedInv
<1>7. ASSUME NEW q \in Procs, NEW n \in Nodes PROVE HoldInv(q, n)'
  <2>1. HoldInv(q, n)
    BY DEF NodeInv
  <2>2. CASE q = p
    BY <1>4, <2>1, <2>2 DEF HoldInv
  <2>3. CASE q # p
    <3>1. pc'[q] = pc[q] /\ buf'[q] = buf[q]
      BY <2>3 DEF OthersCall
    <3> QED BY <1>3, <1>4, <2>1, <3>1 DEF HoldInv
  <2> QED BY <2>2, <2>3
<1>8. ASSUME NEW q \in Procs PROVE BufInv(q)'
  BY OthersNodes DEF NodeInv
<1>9. ASSUME NEW e \in Endpoints PROVE AnswerInv(e)'
  <2>1. CASE Owner[e] # p
    <3>1. Owner[e] \in Procs /\ AnswerInv(e)
      BY IpcAssumption DEF NodeInv
    <3>2. /\ pc'[Owner[e]] = pc[Owner[e]] /\ rnode'[Owner[e]] = rnode[Owner[e]]
          /\ rbuf'[Owner[e]] = rbuf[Owner[e]] /\ count'[e] = count[e]
      BY <2>1, <3>1 DEF OthersCall, OthersServe
    <3> QED BY <1>3, <1>4, <3>1, <3>2 DEF AnswerInv
  <2> QED BY <2>1
<1> QED BY <1>1, <1>5, <1>6, <1>7, <1>8, <1>9 DEF NodeInv

\* A step outside __ipc_reply that leaves the server's locals and counter alone.
LEMMA PlainStep ==
    ASSUME NodeInv, NEW p \in Procs, OthersCall(p), UNCHANGED <<list, count, nodeVars, srvVars>>,
           pc[p] \notin {"p_finish", "p_copy", "p_wake", "p_dec"},
           pc'[p] \notin {"p_finish", "p_copy", "p_wake", "p_dec", "s_enqueue"},
           \A n \in Nodes : Holds(p, n)' => /\ Holds(p, n)
                                            /\ ~buf'[p].notif => ~mess[n].notif
                                            /\ pc'[p] \in LeftPCs => finish[n],
           BufInv(p)'
    PROVE  NodeInv'
<1>1. OthersServe(p)
  BY ServeSame
<1>2. ASSUME NEW e \in Endpoints, Owner[e] = p PROVE AnswerInv(e)'
  <2>1. AnswerInv(e)
    BY DEF NodeInv
  <2>2. ASSUME NEW q \in Procs, NEW n \in Nodes PROVE Holds(q, n)' => Holds(q, n)
    BY <1>1, OthersNodes
  <2> QED BY <1>2, <2>1, <2>2 DEF AnswerInv
<1> QED BY <1>1, <1>2, NodeFrame

\* A step that ends or begins a system call, or goes on in it without a node.
LEMMA NodelessStep ==
    ASSUME NodeInv, NEW p \in Procs, OthersCall(p), UNCHANGED <<list, count, nodeVars, srvVars>>,
           pc[p] \notin {"p_finish", "p_copy", "p_wake", "p_dec"},
           pc'[p] \notin {"p_finish", "p_copy", "p_wake", "p_dec"} \cup NodePCs
    PROVE  NodeInv'
<1>1. (\A n \in Nodes : ~Holds(p, n)') /\ BufInv(p)' /\ pc'[p] # "s_enqueue"
  BY DEF Holds, BufInv, NodePCs
<1> QED BY <1>1, PlainStep

\* Registrations and new system calls, and the steps of __ipc_send that leave
\* the nodes alone.
LEMMA QuietNodes ==
    ASSUME IInv, NodeInv, NEW p \in Procs,
           \/ SendAwaitServer(p) \/ SendTimeout(p) \/ SendWake(p) \/ SendAwaitReply(p)
           \/ SendCopy(p) \/ ReceiveList(p) \/ ReceiveWait(p)
           \/ \E e \in Endpoints : Issue(p, e)
    PROVE  NodeInv'
<1>0. TypeOK /\ TaskInv(p) /\ BufInv(p) /\ \A n \in Nodes : HoldInv(p, n)
  BY DEF IInv, NodeInv
<1>1. CASE SendAwaitServer(p)
  <2>1. /\ OthersCall(p) /\ UNCHANGED <<list, count, nodeVars, srvVars>>
        /\ pc[p] \in {"s_reg", "s_reg_check", "s_reg_sched"}
        /\ pc'[p] \in {"s_reg", "s_reg_check", "s_reg_sched", "s_alloc"}
    BY <1>0, <1>1, SendAwaitServerFacts
  <2>2. /\ pc[p] \notin {"p_finish", "p_copy", "p_wake", "p_dec"}
        /\ pc'[p] \notin {"p_finish", "p_copy", "p_wake", "p_dec"} \cup NodePCs
    BY <2>1 DEF NodePCs
  <2> QED BY <2>1, <2>2, NodelessStep
<1>2. CASE SendTimeout(p)
  <2>1. /\ OthersCall(p) /\ UNCHANGED <<list, count, nodeVars, srvVars>>
        /\ pc[p] = "s_reg_sched" /\ pc'[p] = "idle"
    BY <1>0, <1>2, SendTimeoutFacts
  <2>2. pc'[p] \notin {"p_finish", "p_copy", "p_wake", "p_dec"} \cup NodePCs
    BY <2>1 DEF NodePCs
  <2> QED BY <2>1, <2>2, NodelessStep
<1>3. CASE SendWake(p)
  <2>1. /\ OthersCall(p) /\ UNCHANGED <<list, count, nodeVars, srvVars>> /\ pc[p] = "s_wake"
        /\ \/ pc'[p] = "s_wait" /\ ~buf[p].notif /\ cur'[p] = cur[p] /\ buf'[p] = buf[p]
           \/ pc'[p] = "idle"
    BY <1>0, <1>3, SendWakeFacts
  <2>2. /\ BufInv(p)' /\ pc'[p] \notin {"p_finish", "p_copy", "p_wake", "p_dec", "s_enqueue"}
        /\ \A n \in Nodes : Holds(p, n)' => /\ Holds(p, n)
                                            /\ ~buf'[p].notif => ~mess[n].notif
                                            /\ pc'[p] \in LeftPCs => finish[n]
    BY <1>0, <2>1 DEF Holds, HoldInv, BufInv, NodePCs, LeftPCs
  <2> QED BY <2>1, <2>2, PlainStep
<1>4. CASE SendAwaitReply(p)
  <2>1. /\ OthersCall(p) /\ UNCHANGED <<list, count, nodeVars, srvVars>>
        /\ cur'[p] = cur[p] /\ buf'[p] = buf[p]
        /\ pc[p] \in {"s_wait", "s_wait_check", "s_wait_sched"}
        /\ \/ pc'[p] \in {"s_wait", "s_wait_check", "s_wait_sched"}
           \/ pc'[p] = "s_copy" /\ finish[cur[p]]
    BY <1>0, <1>4, SendAwaitReplyFacts
  <2>2. /\ BufInv(p)' /\ pc'[p] \notin {"p_finish", "p_copy", "p_wake", "p_dec", "s_enqueue"}
        /\ \A n \in Nodes : Holds(p, n)' => /\ Holds(p, n)
                                            /\ ~buf'[p].notif => ~mess[n].notif
                                            /\ pc'[p] \in LeftPCs => finish[n]
    BY <1>0, <2>1 DEF Holds, HoldInv, BufInv, NodePCs, LeftPCs
  <2> QED BY <2>1, <2>2, PlainStep
<1>5. CASE SendCopy(p)
  <2>1. /\ OthersCall(p) /\ UNCHANGED <<list, count, nodeVars, srvVars>>
        /\ pc[p] = "s_copy" /\ pc'[p] = "s_free" /\ cur[p] \in Nodes
        /\ cur'[p] = cur[p] /\ buf'[p] = mess[cur[p]]
    BY <1>0, <1>5, SendCopyFacts
  <2>2. Holds(p, cur[p]) /\ ~buf[p].notif
    BY <1>0, <2>1 DEF Holds, BufInv, NodePCs
  <2>3. finish[cur[p]] /\ ~mess[cur[p]].notif
    BY <1>0, <2>1, <2>2 DEF HoldInv, LeftPCs
  <2>4. /\ BufInv(p)' /\ pc'[p] \notin {"p_finish", "p_copy", "p_wake", "p_dec", "s_enqueue"}
        /\ \A n \in Nodes : Holds(p, n)' => /\ Holds(p, n)
                                            /\ ~buf'[p].notif => ~mess[n].notif
                                            /\ pc'[p] \in LeftPCs => finish[n]
    BY <2>1, <2>2, <2>3 DEF Holds, BufInv
  <2> QED BY <2>1, <2>4, PlainStep
<1>6. CASE ReceiveList(p)
  <2>1. /\ OthersCall(p) /\ UNCHANGED <<list, count, nodeVars, srvVars>>
        /\ pc[p] = "r_list" /\ pc'[p] \in {"r_first", "r_wait"}
    BY <1>0, <1>6, ReceiveListFacts
  <2>2. pc'[p] \notin {"p_finish", "p_copy", "p_wake", "p_dec"} \cup NodePCs
    BY <2>1 DEF NodePCs
  <2> QED BY <2>1, <2>2, NodelessStep
<1>7. CASE ReceiveWait(p)
  <2>1. /\ OthersCall(p) /\ UNCHANGED <<list, count, nodeVars, srvVars>>
        /\ pc[p] \in WaitingPCs /\ pc'[p] \in WaitingPCs \cup {"r_first"}
    BY <1>0, <1>7, ReceiveWaitFacts DEF WaitingPCs
  <2>2. /\ pc[p] \notin {"p_finish", "p_copy", "p_wake", "p_dec"}
        /\ pc'[p] \notin {"p_finish", "p_copy", "p_wake", "p_dec"} \cup NodePCs
    BY <2>1 DEF NodePCs, WaitingPCs
  <2> QED BY <2>1, <2>2, NodelessStep
<1>8. ASSUME NEW e \in Endpoints, Issue(p, e) PROVE NodeInv'
  <2>1. /\ OthersCall(p) /\ UNCHANGED <<list, count, nodeVars, srvVars>>
        /\ pc[p] = "idle" /\ pc'[p] \in {"idle", "s_reg", "s_alloc", "r_list", "p_del"}
    BY <1>0, <1>8, SendFacts, ReceiveFacts, ReplyFacts DEF Issue
  <2>2. pc'[p] \notin {"p_finish", "p_copy", "p_wake", "p_dec"} \cup NodePCs
    BY <2>1 DEF NodePCs
  <2> QED BY <2>1, <2>2, NodelessStep
<1> QED BY <1>1, <1>2, <1>3, <1>4, <1>5, <1>6, <1>7, <1>8

\* Steps that touch no node and no system call: a registration, above all.
LEMMA SameNodes ==
    ASSUME NodeInv, UNCHANGED <<list, count, nodeVars, callVars, srvVars>>
    PROVE  NodeInv'
<1>1. UNCHANGED <<list, count, nodeVars, callVars, srvVars>>
  OBVIOUS
<1>2. ListsInv' /\ \A n \in Nodes : Linked(n)' <=> Linked(n)
  BY <1>1, SameLinks DEF NodeInv
<1>3. \A n \in Nodes, q \in Procs : (Holds(q, n)' <=> Holds(q, n)) /\ (Unlinked(q, n)' <=> Unlinked(q, n))
  BY <1>1 DEF Holds, Unlinked
<1>4. \A n \in Nodes : Pending(n)' <=> Pending(n)
  BY <1>2, <1>3 DEF Pending
<1>5. ASSUME NEW n \in Nodes PROVE LinkedInv(n)'
  BY <1>1, <1>2 DEF NodeInv, LinkedInv
<1>6. ASSUME NEW q \in Procs, NEW n \in Nodes PROVE UnlinkedInv(q, n)' /\ HoldInv(q, n)' /\ BufInv(q)'
  <2>1. UnlinkedInv(q, n) /\ HoldInv(q, n) /\ BufInv(q)
    BY DEF NodeInv
  <2>2. UnlinkedInv(q, n)' /\ BufInv(q)'
    BY <1>1, <1>2, <1>3, <2>1 DEF UnlinkedInv, BufInv
  <2>3. HoldInv(q, n)'
    BY <1>1, <1>3, <1>4, <2>1 DEF HoldInv
  <2> QED BY <2>2, <2>3
<1>7. ASSUME NEW q \in Procs PROVE BufInv(q)'
  BY <1>1 DEF NodeInv, BufInv
<1>8. ASSUME NEW d \in Endpoints PROVE AnswerInv(d)'
  <2>1. AnswerInv(d)
    BY DEF NodeInv
  <2> QED BY <1>1, <1>3, <1>4, <2>1 DEF AnswerInv
<1> QED BY <1>2, <1>5, <1>6, <1>7, <1>8 DEF NodeInv

\* The server's steps that leave the nodes and the lists alone: what it reads
\* first is linked, so that no task which is still to queue it holds it.
LEMMA ServerNodes ==
    ASSUME IInv, NodeInv, NEW p \in Procs, ReceiveFirst(p) \/ ReplyWake(p) \/ ReplyDec(p)
    PROVE  NodeInv'
<1>0. TypeOK /\ TaskInv(p)
  BY DEF IInv
<1>1. CASE ReceiveFirst(p)
  <2>0. PICK n \in Nodes : n = Head(list[call[p]])
    BY <1>0, <1>1, ReceiveFirstFacts
  <2>1. /\ UNCHANGED <<list, nodeVars>> /\ OthersCall(p) /\ OthersServe(p)
        /\ pc[p] = "r_first" /\ pc'[p] = "idle" /\ call[p] \in Endpoints
        /\ list[call[p]] # <<>> /\ n \in Nodes /\ rnode'[p] = n /\ rbuf'[p] = mess[n]
        /\ \A d \in Endpoints \ {call[p]} : count'[d] = count[d]
    BY <1>0, <1>1, <2>0, ReceiveFirstFacts
  <2>2. Owner[call[p]] = p
    BY <1>0, <2>1 DEF TaskInv, ReceivePCs
  <2>3. Linked(n)
    <3>1. 1 \in DOMAIN list[call[p]] /\ list[call[p]][1] = n
      <4>1. list[call[p]] \in Seq(Nodes)
        BY <1>0, <2>1, TypeGroups DEF EpTypes
      <4> QED BY <2>0, <2>1, <4>1, PositionFacts, SMT
    <3> QED BY <2>1, <3>1 DEF Linked
  <2>4. live[n] /\ Pending(n)
    BY <2>1, <2>3 DEF NodeInv, LinkedInv, Pending
  <2>5. ASSUME NEW q \in Procs, mess[n].notif PROVE ~Holds(q, n)
    BY <2>1, <2>4, <2>5 DEF NodeInv, HoldInv, Holds
  <2>6. (\A m \in Nodes : ~Holds(p, m)') /\ BufInv(p)'
    BY <2>1 DEF Holds, BufInv, NodePCs
  <2>7. ASSUME NEW d \in Endpoints, Owner[d] = p PROVE AnswerInv(d)'
    <3>1. ASSUME NEW q \in Procs, mess[n].notif PROVE ~Holds(q, n)'
      BY <2>1, <2>5, <2>6, <3>1, OthersNodes
    <3> QED BY <2>1, <2>4, <2>7, <3>1 DEF AnswerInv
  <2>8. \A d \in Endpoints : Owner[d] # p => count'[d] = count[d]
    BY <2>1, <2>2
  <2> QED BY <2>1, <2>6, <2>7, <2>8, NodeFrame
<1>2. CASE ReplyWake(p)
  <2>1. /\ UNCHANGED <<list, count, nodeVars, srvVars>> /\ OthersCall(p)
        /\ pc[p] = "p_wake" /\ pc'[p] = "p_dec"
    BY <1>0, <1>2, ReplyWakeFacts
  <2>2. (\A m \in Nodes : ~Holds(p, m)') /\ BufInv(p)'
    BY <2>1 DEF Holds, BufInv, NodePCs
  <2>3. ASSUME NEW d \in Endpoints, Owner[d] = p PROVE AnswerInv(d)'
    BY <2>1, <2>3 DEF AnswerInv
  <2> QED BY <2>1, <2>2, <2>3, NodeFrame, ServeSame
<1>3. CASE ReplyDec(p)
  <2>1. /\ UNCHANGED <<list, nodeVars>> /\ OthersCall(p) /\ OthersServe(p)
        /\ pc[p] = "p_dec" /\ pc'[p] = "idle"
        /\ call[p] \in Endpoints /\ Owner[call[p]] = p /\ count'[call[p]] = 0
        /\ \A d \in Endpoints \ {call[p]} : count'[d] = count[d]
    BY <1>0, <1>3, ReplyDecFacts
  <2>2. (\A m \in Nodes : ~Holds(p, m)') /\ BufInv(p)'
    BY <2>1 DEF Holds, BufInv, NodePCs
  <2>3. ASSUME NEW d \in Endpoints, Owner[d] = p PROVE AnswerInv(d)'
    <3>1. d = call[p]
      BY <2>1, <2>3, IpcAssumption
    <3> QED BY <2>1, <3>1, SMT DEF AnswerInv
  <2>4. \A d \in Endpoints : Owner[d] # p => count'[d] = count[d]
    BY <2>1
  <2> QED BY <2>1, <2>2, <2>3, <2>4, NodeFrame
<1> QED BY <1>1, <1>2, <1>3

-----------------------------------------------------------------------------
(* The steps that touch a node or a list.                                  *)

\* kmalloc: nobody holds, has queued or has received a free node.
LEMMA SendAllocNodes ==
    ASSUME IInv, NodeInv, NEW p \in Procs, SendAlloc(p)
    PROVE  NodeInv'
<1>0. TypeOK /\ TaskInv(p)
  BY DEF IInv
<1>1. /\ UNCHANGED <<list, count, srvVars>> /\ OthersCall(p) /\ OthersServe(p) /\ pc[p] = "s_alloc"
  BY <1>0, SendAllocFacts, ServeSame
<1>2. CASE pc'[p] = "idle" /\ UNCHANGED nodeVars
  <2>1. pc'[p] \notin {"p_finish", "p_copy", "p_wake", "p_dec"} \cup NodePCs
    BY <1>2 DEF NodePCs
  <2> QED BY <1>1, <1>2, <2>1, NodelessStep
<1>3. ASSUME NEW n \in Nodes, ~live[n], live'[n], ~finish'[n], mess'[n] = buf'[p],
             buf'[p].notif = buf[p].notif, pc'[p] = "s_enqueue", cur'[p] = n,
             \A m \in Nodes \ {n} :
                live'[m] = live[m] /\ finish'[m] = finish[m] /\ mess'[m] = mess[m]
      PROVE  NodeInv'
  <2>1. ListsInv' /\ \A m \in Nodes : Linked(m)' <=> Linked(m)
    BY <1>1, SameLinks DEF NodeInv
  <2>2. \A s \in Procs, m \in Nodes : Unlinked(s, m)' <=> Unlinked(s, m)
    BY <1>1, <1>3, OthersNodes DEF Unlinked
  <2>3. \A m \in Nodes : Pending(m)' <=> Pending(m)
    BY <2>1, <2>2 DEF Pending
  <2>4. ~Pending(n)
    BY <1>3 DEF NodeInv, LinkedInv, UnlinkedInv, Pending
  <2>5. \A q \in Procs, m \in Nodes : Holds(q, m)' <=> Holds(q, m) \/ (q = p /\ m = n)
    <3>1. \A m \in Nodes : ~Holds(p, m) /\ (Holds(p, m)' <=> m = n)
      BY <1>1, <1>3 DEF Holds, NodePCs
    <3> QED BY <1>1, <3>1, OthersNodes
  <2>6. \A q \in Procs : ~Holds(q, n)
    BY <1>3 DEF NodeInv, HoldInv
  <2>7. ASSUME NEW m \in Nodes PROVE LinkedInv(m)'
    BY <1>3, <2>1, <2>4 DEF NodeInv, LinkedInv, Pending
  <2>8. ASSUME NEW s \in Procs, NEW m \in Nodes PROVE UnlinkedInv(s, m)'
    <3>1. UnlinkedInv(s, m) /\ (Unlinked(s, m) => m # n)
      BY <2>4 DEF NodeInv, Pending
    <3> QED BY <1>3, <2>1, <2>2, <3>1 DEF UnlinkedInv
  <2>9. ASSUME NEW q \in Procs, NEW m \in Nodes PROVE HoldInv(q, m)'
    <3>1. CASE q = p /\ m = n
      BY <1>3, <2>3, <2>4, <2>5, <2>6, <3>1 DEF HoldInv, LeftPCs
    <3>2. CASE q = p /\ m # n
      BY <1>1, <2>5, <3>2 DEF HoldInv, Holds, NodePCs
    <3>3. CASE q # p
      <4>1. HoldInv(q, m) /\ pc'[q] = pc[q] /\ buf'[q] = buf[q] /\ (Holds(q, m) => m # n)
        BY <1>1, <2>6, <3>3 DEF NodeInv, OthersCall
      <4> QED BY <1>3, <2>3, <2>5, <3>3, <4>1 DEF HoldInv
    <3> QED BY <3>1, <3>2, <3>3
  <2>10. ASSUME NEW q \in Procs PROVE BufInv(q)'
    <3>1. BufInv(q)
      BY DEF NodeInv
    <3> QED BY <1>1, <1>3, <3>1, OthersNodes DEF BufInv
  <2>11. ASSUME NEW e \in Endpoints PROVE AnswerInv(e)'
    <3>1. AnswerInv(e) /\ Owner[e] \in Procs
      BY IpcAssumption DEF NodeInv
    <3>2. /\ pc[Owner[e]] \in {"p_copy", "p_wake", "p_dec"} <=> pc'[Owner[e]] \in {"p_copy", "p_wake", "p_dec"}
          /\ pc[Owner[e]] = "p_copy" <=> pc'[Owner[e]] = "p_copy"
      BY <1>1, <1>3, <3>1 DEF OthersCall
    <3>3. pc[Owner[e]] \in {"p_wake", "p_dec"} <=> pc'[Owner[e]] \in {"p_wake", "p_dec"}
      BY <1>1, <1>3, <3>1 DEF OthersCall
    <3> QED BY <1>1, <1>3, <2>3, <2>5, <3>1, <3>2, <3>3 DEF AnswerInv
  <2> QED BY <2>1, <2>7, <2>8, <2>9, <2>10, <2>11 DEF NodeInv
<1> QED BY <1>0, <1>2, <1>3, SendAllocFacts, SMT

\* list_add_tail: the node was its sender's alone.
LEMMA SendEnqueueNodes ==
    ASSUME IInv, NodeInv, NEW p \in Procs, SendEnqueue(p)
    PROVE  NodeInv'
<1>0. TypeOK /\ TaskInv(p)
  BY DEF IInv
<1>p. PICK n \in Nodes, e \in Endpoints : n = cur[p] /\ e = call[p]
  BY <1>0, SendEnqueueFacts
<1>1. /\ UNCHANGED <<count, nodeVars, srvVars>> /\ OthersCall(p) /\ OthersServe(p)
      /\ pc[p] = "s_enqueue" /\ list'[e] = Append(list[e], n)
      /\ \A d \in Endpoints \ {e} : list'[d] = list[d]
      /\ \/ pc'[p] = "s_wake" /\ cur'[p] = n /\ buf'[p] = buf[p]
         \/ pc'[p] = "s_wait" /\ ~buf[p].notif /\ cur'[p] = n /\ buf'[p] = buf[p]
         \/ pc'[p] = "idle"
  BY <1>0, <1>p, SendEnqueueFacts, ServeSame
<1>2. Holds(p, n) /\ HoldInv(p, n)
  BY <1>p, <1>1 DEF Holds, NodePCs, NodeInv
<1>3. live[n] /\ ~finish[n] /\ ~Pending(n) /\ \A q \in Procs : Holds(q, n) => q = p
  BY <1>1, <1>2 DEF HoldInv
<1>4. ListsInv' /\ \A m \in Nodes : Linked(m)' <=> Linked(m) \/ m = n
  <2>1. ~Linked(n) /\ ListsInv
    BY <1>3 DEF Pending, NodeInv
  <2> QED BY <1>0, <1>1, <2>1, LinkFacts
<1>5. \A s \in Procs, m \in Nodes : Unlinked(s, m)' <=> Unlinked(s, m)
  BY <1>1, OthersNodes DEF Unlinked
<1>6. \A m \in Nodes : Pending(m)' <=> Pending(m) \/ m = n
  BY <1>4, <1>5 DEF Pending
<1>7. ASSUME NEW q \in Procs, NEW m \in Nodes PROVE Holds(q, m)' => Holds(q, m)
  <2>1. CASE q = p
    BY <1>p, <1>1, <1>2, <2>1 DEF Holds, NodePCs
  <2>2. CASE q # p
    BY <1>1, <2>2, OthersNodes
  <2> QED BY <2>1, <2>2
<1>8. ASSUME NEW m \in Nodes PROVE LinkedInv(m)'
  BY <1>1, <1>3, <1>4 DEF NodeInv, LinkedInv
<1>9. ASSUME NEW s \in Procs, NEW m \in Nodes PROVE UnlinkedInv(s, m)'
  <2>1. UnlinkedInv(s, m) /\ (Unlinked(s, m) => m # n)
    BY <1>3 DEF NodeInv, Pending
  <2> QED BY <1>1, <1>4, <1>5, <2>1 DEF UnlinkedInv
<1>10. ASSUME NEW q \in Procs, NEW m \in Nodes PROVE HoldInv(q, m)'
  <2>1. HoldInv(q, m)
    BY DEF NodeInv
  <2>2. CASE q = p
    <3>1. Holds(p, m)' => m = n /\ pc'[p] \in {"s_wake", "s_wait"} /\ buf'[p] = buf[p]
      BY <1>1 DEF Holds, NodePCs
    <3> QED BY <1>1, <1>2, <1>3, <1>7, <2>1, <2>2, <3>1 DEF HoldInv, LeftPCs
  <2>3. CASE q # p
    <3>1. pc'[q] = pc[q] /\ buf'[q] = buf[q] /\ (Holds(q, m) => m # n)
      BY <1>1, <1>3, <2>3 DEF OthersCall
    <3> QED BY <1>1, <1>6, <1>7, <2>1, <3>1 DEF HoldInv
  <2> QED BY <2>2, <2>3
<1>11. ASSUME NEW q \in Procs PROVE BufInv(q)'
  <2>1. BufInv(q)
    BY DEF NodeInv
  <2>2. CASE q = p
    BY <1>1, <2>2 DEF BufInv, NodePCs
  <2> QED BY <1>1, <2>1, <2>2, OthersNodes
<1>12. ASSUME NEW d \in Endpoints PROVE AnswerInv(d)'
  <2>1. AnswerInv(d) /\ Owner[d] \in Procs
    BY IpcAssumption DEF NodeInv
  <2>2. /\ pc[Owner[d]] = "p_copy" <=> pc'[Owner[d]] = "p_copy"
        /\ pc[Owner[d]] \in {"p_wake", "p_dec"} <=> pc'[Owner[d]] \in {"p_wake", "p_dec"}
    BY <1>1, <2>1 DEF OthersCall
  <2>3. \A m \in Nodes : ~Holds(p, m) => m # n
    BY <1>2
  <2> QED BY <1>1, <1>6, <1>7, <2>1, <2>2, <2>3 DEF AnswerInv
<1> QED BY <1>4, <1>8, <1>9, <1>10, <1>11, <1>12 DEF NodeInv

\* The sender's kfree: an answered node is on no list.
LEMMA SendFreeNodes ==
    ASSUME IInv, NodeInv, NEW p \in Procs, SendFree(p)
    PROVE  NodeInv'
<1>0. TypeOK /\ TaskInv(p)
  BY DEF IInv
<1>p. PICK n \in Nodes : n = cur[p]
  BY <1>0, SendFreeFacts
<1>1. /\ UNCHANGED <<list, count, srvVars>> /\ OthersCall(p) /\ OthersServe(p)
      /\ pc[p] = "s_free" /\ pc'[p] = "idle"
      /\ \A m \in Nodes \ {n} :
            live'[m] = live[m] /\ finish'[m] = finish[m] /\ mess'[m] = mess[m]
  BY <1>0, <1>p, SendFreeFacts, ServeSame
<1>2. Holds(p, n) /\ HoldInv(p, n)
  <2>1. BufInv(p)
    BY DEF NodeInv
  <2> QED BY <1>p, <1>1, <2>1 DEF Holds, BufInv, NodePCs, NodeInv
<1>3. finish[n] /\ \A q \in Procs : Holds(q, n) => q = p
  BY <1>1, <1>2 DEF HoldInv, LeftPCs
<1>4. ListsInv' /\ \A m \in Nodes : Linked(m)' <=> Linked(m)
  BY <1>1, SameLinks DEF NodeInv
<1>5. \A s \in Procs, m \in Nodes : Unlinked(s, m)' <=> Unlinked(s, m)
  BY <1>1, OthersNodes DEF Unlinked
<1>6. \A m \in Nodes : Pending(m)' <=> Pending(m)
  BY <1>4, <1>5 DEF Pending
<1>7. ~Pending(n)
  BY <1>3 DEF NodeInv, LinkedInv, UnlinkedInv, Pending
<1>8. \A q \in Procs, m \in Nodes : Holds(q, m)' => Holds(q, m) /\ q # p /\ m # n
  <2>1. \A m \in Nodes : ~Holds(p, m)'
    BY <1>1 DEF Holds, NodePCs
  <2> QED BY <1>1, <1>3, <2>1, OthersNodes
<1>9. ASSUME NEW m \in Nodes PROVE LinkedInv(m)'
  BY <1>1, <1>4, <1>7 DEF NodeInv, LinkedInv, Pending
<1>10. ASSUME NEW s \in Procs, NEW m \in Nodes PROVE UnlinkedInv(s, m)'
  <2>1. UnlinkedInv(s, m) /\ (Unlinked(s, m) => m # n)
    BY <1>7 DEF NodeInv, Pending
  <2> QED BY <1>1, <1>4, <1>5, <2>1 DEF UnlinkedInv
<1>11. ASSUME NEW q \in Procs, NEW m \in Nodes PROVE HoldInv(q, m)'
  <2>1. HoldInv(q, m)
    BY DEF NodeInv
  <2>2. q # p => pc'[q] = pc[q] /\ buf'[q] = buf[q]
    BY <1>1 DEF OthersCall
  <2> QED BY <1>1, <1>6, <1>8, <2>1, <2>2 DEF HoldInv
<1>12. ASSUME NEW q \in Procs PROVE BufInv(q)'
  <2>1. BufInv(q)
    BY DEF NodeInv
  <2> QED BY <1>1, <2>1, OthersNodes DEF BufInv, NodePCs
<1>13. ASSUME NEW d \in Endpoints PROVE AnswerInv(d)'
  <2>1. AnswerInv(d) /\ Owner[d] \in Procs
    BY IpcAssumption DEF NodeInv
  <2>2. /\ pc[Owner[d]] = "p_copy" <=> pc'[Owner[d]] = "p_copy"
        /\ pc[Owner[d]] \in {"p_wake", "p_dec"} <=> pc'[Owner[d]] \in {"p_wake", "p_dec"}
    BY <1>1, <2>1 DEF OthersCall
  <2>3. \A m \in Nodes : ~Holds(p, m) => m # n
    BY <1>2
  <2> QED BY <1>1, <1>6, <1>8, <2>1, <2>2, <2>3 DEF AnswerInv
<1> QED BY <1>4, <1>9, <1>10, <1>11, <1>12, <1>13 DEF NodeInv

\* list_del: what the server unlinks is what it received.
LEMMA ReplyDelNodes ==
    ASSUME IInv, NodeInv, NEW p \in Procs, ReplyDel(p)
    PROVE  NodeInv'
<1>0. TypeOK /\ TaskInv(p)
  BY DEF IInv
<1>p. PICK n \in Nodes, e \in Endpoints : n = Head(list[call[p]]) /\ e = call[p]
  BY ReplyDelFacts
<1>1. /\ UNCHANGED <<count, nodeVars>> /\ OthersCall(p) /\ OthersServe(p)
      /\ pc[p] = "p_del" /\ pc'[p] = "p_finish" /\ Owner[e] = p /\ count[e] = 1
      /\ n = Head(list[e]) /\ list[e] # <<>> /\ list'[e] = Tail(list[e])
      /\ \A d \in Endpoints \ {e} : list'[d] = list[d]
      /\ rnode[p] = n /\ rnode'[p] = n /\ rbuf'[p] = rbuf[p]
  BY <1>p, ReplyDelFacts
<1>2. /\ ListsInv' /\ Linked(n)
      /\ \A m \in Nodes : Linked(m)' <=> Linked(m) /\ m # n
  <2>1. ListsInv
    BY DEF NodeInv
  <2> QED BY <1>0, <1>1, <2>1, UnlinkFacts
<1>3. live[n] /\ ~finish[n] /\ \A s \in Procs : ~Unlinked(s, n)
  BY <1>2 DEF NodeInv, LinkedInv, UnlinkedInv
<1>4. \A s \in Procs, m \in Nodes : Unlinked(s, m)' <=> Unlinked(s, m) \/ (s = p /\ m = n)
  <2>1. \A m \in Nodes : ~Unlinked(p, m) /\ (Unlinked(p, m)' <=> m = n)
    BY <1>1 DEF Unlinked
  <2> QED BY <1>1, <2>1, OthersNodes
<1>5. \A m \in Nodes : Pending(m)' <=> Pending(m)
  BY <1>2, <1>4 DEF Pending
<1>6. \A q \in Procs, m \in Nodes : Holds(q, m)' <=> Holds(q, m)
  <2>1. \A m \in Nodes : ~Holds(p, m) /\ ~Holds(p, m)'
    BY <1>1 DEF Holds, NodePCs
  <2> QED BY <1>1, <2>1, OthersNodes
<1>7. ASSUME NEW m \in Nodes PROVE LinkedInv(m)'
  BY <1>1, <1>2 DEF NodeInv, LinkedInv
<1>8. ASSUME NEW s \in Procs, NEW m \in Nodes PROVE UnlinkedInv(s, m)'
  <2>1. UnlinkedInv(s, m)
    BY DEF NodeInv
  <2>2. CASE m = n
    BY <1>1, <1>2, <1>3, <1>4, <2>2 DEF UnlinkedInv
  <2>3. CASE m # n
    BY <1>1, <1>2, <1>4, <2>1, <2>3 DEF UnlinkedInv
  <2> QED BY <2>2, <2>3
<1>9. ASSUME NEW q \in Procs, NEW m \in Nodes PROVE HoldInv(q, m)'
  <2>1. HoldInv(q, m) /\ (q # p => pc'[q] = pc[q] /\ buf'[q] = buf[q]) /\ ~Holds(p, m)
    BY <1>1 DEF NodeInv, OthersCall, Holds, NodePCs
  <2> QED BY <1>1, <1>5, <1>6, <2>1 DEF HoldInv
<1>10. ASSUME NEW q \in Procs PROVE BufInv(q)'
  <2>1. BufInv(q)
    BY DEF NodeInv
  <2> QED BY <1>1, <2>1, OthersNodes DEF BufInv, NodePCs
<1>11. ASSUME NEW d \in Endpoints PROVE AnswerInv(d)'
  <2>1. AnswerInv(d) /\ Owner[d] \in Procs
    BY IpcAssumption DEF NodeInv
  <2>2. /\ pc[Owner[d]] = "p_copy" <=> pc'[Owner[d]] = "p_copy"
        /\ pc[Owner[d]] \in {"p_wake", "p_dec"} <=> pc'[Owner[d]] \in {"p_wake", "p_dec"}
        /\ rnode'[Owner[d]] = rnode[Owner[d]] /\ rbuf'[Owner[d]] = rbuf[Owner[d]]
    BY <1>1, <2>1 DEF OthersCall, OthersServe
  <2> QED BY <1>1, <1>5, <1>6, <2>1, <2>2 DEF AnswerInv
<1> QED BY <1>2, <1>7, <1>8, <1>9, <1>10, <1>11 DEF NodeInv

\* Freeing a notification, which nobody holds, or marking a request answered:
\* the node the server unlinked is on no list and no other server has it.
LEMMA ReplyFinishNodes ==
    ASSUME IInv, NodeInv, NEW p \in Procs, ReplyFinish(p)
    PROVE  NodeInv'
<1>0. TypeOK /\ TaskInv(p)
  BY DEF IInv
<1>p. PICK n \in Nodes : n = rnode[p]
  BY <1>0, ReplyFinishFacts
<1>1. /\ UNCHANGED <<list, count, srvVars>> /\ OthersCall(p) /\ OthersServe(p)
      /\ pc[p] = "p_finish" /\ rnode[p] = n
      /\ \A m \in Nodes \ {n} :
            live'[m] = live[m] /\ finish'[m] = finish[m] /\ mess'[m] = mess[m]
      /\ \/ mess[n].notif /\ pc'[p] = "p_dec" /\ ~live'[n]
         \/ /\ ~mess[n].notif /\ pc'[p] = "p_copy" /\ live'[n] = live[n]
            /\ finish'[n] /\ mess'[n] = mess[n]
  BY <1>0, <1>p, ReplyFinishFacts, ServeSame
<1>2. Unlinked(p, n) /\ Pending(n)
  BY <1>1 DEF Unlinked, Pending
<1>3. live[n] /\ ~Linked(n) /\ \A t \in Procs : Unlinked(t, n) => t = p
  BY <1>2 DEF NodeInv, UnlinkedInv
<1>4. ListsInv' /\ \A m \in Nodes : Linked(m)' <=> Linked(m)
  BY <1>1, SameLinks DEF NodeInv
<1>5. \A s \in Procs, m \in Nodes : Unlinked(s, m)' <=> Unlinked(s, m) /\ s # p
  BY <1>1, OthersNodes DEF Unlinked
<1>6. \A m \in Nodes : Pending(m)' <=> Pending(m) /\ m # n
  <2>1. \A m \in Nodes : Unlinked(p, m) => m = n
    BY <1>1 DEF Unlinked
  <2> QED BY <1>3, <1>4, <1>5, <2>1 DEF Pending
<1>7. \A q \in Procs, m \in Nodes : Holds(q, m)' <=> Holds(q, m) /\ q # p
  <2>1. \A m \in Nodes : ~Holds(p, m)'
    BY <1>1 DEF Holds, NodePCs
  <2>2. \A m \in Nodes : ~Holds(p, m)
    BY <1>1 DEF Holds, NodePCs
  <2> QED BY <1>1, <2>1, <2>2, OthersNodes
<1>8. ASSUME NEW q \in Procs, Holds(q, n) PROVE pc[q] # "s_enqueue" /\ ~mess[n].notif
  <2>1. HoldInv(q, n)
    BY DEF NodeInv
  <2> QED BY <1>2, <1>8, <2>1 DEF HoldInv, Holds
<1>9. ASSUME NEW m \in Nodes PROVE LinkedInv(m)'
  BY <1>1, <1>3, <1>4 DEF NodeInv, LinkedInv
<1>10. ASSUME NEW s \in Procs, NEW m \in Nodes PROVE UnlinkedInv(s, m)'
  <2>1. UnlinkedInv(s, m) /\ (Unlinked(s, m)' => m # n)
    BY <1>3, <1>5 DEF NodeInv
  <2> QED BY <1>1, <1>4, <1>5, <2>1 DEF UnlinkedInv
<1>11. ASSUME NEW q \in Procs, NEW m \in Nodes PROVE HoldInv(q, m)'
  <2>1. HoldInv(q, m) /\ (q # p => pc'[q] = pc[q] /\ buf'[q] = buf[q])
    BY <1>1 DEF NodeInv, OthersCall
  <2>2. CASE m = n
    BY <1>1, <1>7, <1>8, <2>1, <2>2 DEF HoldInv
  <2>3. CASE m # n
    BY <1>1, <1>6, <1>7, <2>1, <2>3 DEF HoldInv
  <2> QED BY <2>2, <2>3
<1>12. ASSUME NEW q \in Procs PROVE BufInv(q)'
  <2>1. BufInv(q)
    BY DEF NodeInv
  <2> QED BY <1>1, <2>1, OthersNodes DEF BufInv, NodePCs
<1>13. ASSUME NEW d \in Endpoints PROVE AnswerInv(d)'
  <2>1. AnswerInv(d) /\ EndpointInv(d) /\ Owner[d] \in Procs
    BY IpcAssumption DEF NodeInv, IInv
  <2>2. CASE Owner[d] = p
    BY <1>1, <1>3, <1>6, <1>7, <2>1, <2>2 DEF AnswerInv
  <2>3. CASE Owner[d] # p
    <3>1. pc'[Owner[d]] = pc[Owner[d]]
      BY <1>1, <2>1, <2>3 DEF OthersCall
    <3>2. ASSUME count[d] = 1, rnode[Owner[d]] = n,
                 pc[Owner[d]] \notin {"p_copy", "p_wake", "p_dec"}
          PROVE  FALSE
      <4>1. CASE pc[Owner[d]] = "p_finish"
        BY <1>3, <2>1, <2>3, <3>2, <4>1 DEF Unlinked
      <4>2. CASE pc[Owner[d]] # "p_finish"
        <5>1. list[d] # <<>> /\ Head(list[d]) = n
          BY <2>1, <3>2, <4>2 DEF EndpointInv, Replying
        <5>2. list[d] \in Seq(Nodes)
          BY <1>0, TypeGroups DEF EpTypes
        <5>3. 1 \in DOMAIN list[d] /\ list[d][1] = n
          BY <5>1, <5>2, PositionFacts, SMT
        <5> QED BY <1>3, <5>3 DEF Linked
      <4> QED BY <4>1, <4>2
    <3> QED BY <1>1, <1>2, <1>6, <1>7, <2>1, <3>1, <3>2 DEF AnswerInv
  <2> QED BY <2>2, <2>3
<1> QED BY <1>4, <1>9, <1>10, <1>11, <1>12, <1>13 DEF NodeInv

\* The memcpy of an answer turns nobody's request into a notification.
LEMMA ReplyCopyNodes ==
    ASSUME IInv, NodeInv, NEW p \in Procs, ReplyCopy(p)
    PROVE  NodeInv'
<1>0. TypeOK /\ TaskInv(p)
  BY DEF IInv
<1>p. PICK n \in Nodes : n = rnode[p]
  BY <1>0, ReplyCopyFacts
<1>1. /\ UNCHANGED <<list, count, live, finish, srvVars>> /\ OthersCall(p) /\ OthersServe(p)
      /\ pc[p] = "p_copy" /\ pc'[p] = "p_wake" /\ rnode[p] = n
      /\ mess'[n].notif = rbuf[p].notif /\ \A m \in Nodes \ {n} : mess'[m] = mess[m]
  BY <1>0, <1>p, ReplyCopyFacts, ServeSame
<1>2. ListsInv' /\ \A m \in Nodes : Linked(m)' <=> Linked(m)
  BY <1>1, SameLinks DEF NodeInv
<1>3. \A s \in Procs, m \in Nodes : Unlinked(s, m)' <=> Unlinked(s, m)
  BY <1>1, OthersNodes DEF Unlinked
<1>4. \A m \in Nodes : Pending(m)' <=> Pending(m)
  BY <1>2, <1>3 DEF Pending
<1>5. \A q \in Procs, m \in Nodes : Holds(q, m)' <=> Holds(q, m) /\ q # p
  <2>1. \A m \in Nodes : ~Holds(p, m)'
    BY <1>1 DEF Holds, NodePCs
  <2>2. \A m \in Nodes : ~Holds(p, m)
    BY <1>1 DEF Holds, NodePCs
  <2> QED BY <1>1, <2>1, <2>2, OthersNodes
<1>6. ASSUME NEW q \in Procs, Holds(q, n) PROVE ~mess'[n].notif
  <2>1. call[p] \in Endpoints /\ Owner[call[p]] = p /\ count[call[p]] = 1
    BY <1>0, <1>1 DEF TaskInv, ReplyPCs
  <2>2. AnswerInv(call[p])
    BY <2>1 DEF NodeInv
  <2> QED BY <1>1, <1>6, <2>1, <2>2 DEF AnswerInv
<1>7. ASSUME NEW m \in Nodes PROVE LinkedInv(m)'
  BY <1>1, <1>2 DEF NodeInv, LinkedInv
<1>8. ASSUME NEW s \in Procs, NEW m \in Nodes PROVE UnlinkedInv(s, m)'
  <2>1. UnlinkedInv(s, m)
    BY DEF NodeInv
  <2> QED BY <1>1, <1>2, <1>3, <2>1 DEF UnlinkedInv
<1>9. ASSUME NEW q \in Procs, NEW m \in Nodes PROVE HoldInv(q, m)'
  <2>1. HoldInv(q, m) /\ (q # p => pc'[q] = pc[q] /\ buf'[q] = buf[q])
    BY <1>1 DEF NodeInv, OthersCall
  <2> QED BY <1>1, <1>4, <1>5, <1>6, <2>1 DEF HoldInv
<1>10. ASSUME NEW q \in Procs PROVE BufInv(q)'
  <2>1. BufInv(q)
    BY DEF NodeInv
  <2> QED BY <1>1, <2>1, OthersNodes DEF BufInv, NodePCs
<1>11. ASSUME NEW d \in Endpoints PROVE AnswerInv(d)'
  <2>1. AnswerInv(d) /\ Owner[d] \in Procs
    BY IpcAssumption DEF NodeInv
  <2>2. CASE Owner[d] = p
    BY <1>1, <2>2 DEF AnswerInv
  <2>3. CASE Owner[d] # p
    <3>1. pc'[Owner[d]] = pc[Owner[d]]
      BY <1>1, <2>1, <2>3 DEF OthersCall
    <3> QED BY <1>1, <1>4, <1>5, <2>1, <3>1 DEF AnswerInv
  <2> QED BY <2>2, <2>3
<1> QED BY <1>2, <1>7, <1>8, <1>9, <1>10, <1>11 DEF NodeInv

\* Every step preserves the node invariant.
LEMMA NextNodes == IInv /\ NodeInv /\ [Next]_vars => NodeInv'
<1> SUFFICES ASSUME IInv, NodeInv, [Next]_vars PROVE NodeInv'
  OBVIOUS
<1>1. CASE UNCHANGED vars
  BY <1>1, SameNodes DEF vars
<1>2. ASSUME NEW p \in Procs, Step(p) PROVE NodeInv'
  BY <1>2, QuietNodes, ServerNodes, SendAllocNodes, SendEnqueueNodes, SendFreeNodes,
     ReplyDelNodes, ReplyFinishNodes, ReplyCopyNodes
  DEF Step, SendStep, ReceiveStep, ReplyStep
<1>3. ASSUME NEW p \in Procs, NEW e \in Endpoints, Issue(p, e) PROVE NodeInv'
  BY <1>3, QuietNodes
<1>4. ASSUME NEW e \in Endpoints, Register(e) PROVE NodeInv'
  <2>1. UNCHANGED <<list, count, nodeVars, callVars, srvVars>>
    BY <1>4, RegisterFacts DEF IInv
  <2> QED BY <2>1, SameNodes
<1> QED BY <1>1, <1>2, <1>3, <1>4 DEF Next

\* No node is in use after ipc_init.
LEMMA InitNodes == Init => NodeInv
<1> SUFFICES ASSUME Init PROVE NodeInv
  OBVIOUS
<1>1. ListsInv /\ \A n \in Nodes : ~Linked(n)
  BY SMT DEF Init, ListsInv, Linked
<1>2. \A p \in Procs, n \in Nodes : ~Holds(p, n) /\ ~Unlinked(p, n) /\ BufInv(p)
  BY DEF Init, Holds, Unlinked, BufInv, NodePCs
<1>3. \A p \in Procs : BufInv(p)
  BY DEF Init, BufInv, NodePCs
<1>4. \A e \in Endpoints : AnswerInv(e)
  BY SMT DEF Init, AnswerInv
<1> QED BY <1>1, <1>2, <1>3, <1>4 DEF NodeInv, LinkedInv, UnlinkedInv, HoldInv

\* A request is queued once, in memory that is allocated, and unanswered as long
\* as it is queued: neither the sender's kfree nor a reuse of its node reaches a
\* node that ipc_ep_info[] still links, for any number of tasks and endpoints.
THEOREM QueuedSafe == Spec => []QueuedOnce
<1>1. IInv /\ NodeInv => QueuedOnce
  <2> SUFFICES ASSUME IInv, NodeInv, NEW d \in Endpoints, NEW e \in Endpoints,
                      NEW i \in DOMAIN list[d], NEW j \in DOMAIN list[e]
               PROVE  /\ live[list[d][i]] /\ ~finish[list[d][i]]
                      /\ list[d][i] = list[e][j] => d = e /\ i = j
    BY DEF QueuedOnce
  <2>1. list[d][i] \in Nodes
    BY TypeGroups, SMT DEF IInv, EpTypes
  <2>2. Linked(list[d][i])
    BY DEF Linked
  <2> QED BY <2>1, <2>2 DEF NodeInv, ListsInv, LinkedInv
<1> QED BY InitIInv, NextIInv, InitNodes, NextNodes, <1>1, PTL DEF Spec
=============================================================================
