------------------------------ MODULE IpcProofs ------------------------------
(***************************************************************************)
(* The inductive invariant of Ipc for any number of tasks, endpoints and   *)
(* heap nodes: a server never reads the head of an empty list, and the     *)
(* request it answers is the one it received.  TaskInv says what a task    *)
(* knows at each point of a call, EndpointInv what the request counter of  *)
(* an endpoint means.                                                      *)
(***************************************************************************)
EXTENDS Ipc, TLAPS

WaitingPCs == {"r_wait", "r_wait_check", "r_wait_sched"}
NodePCs == {"s_enqueue", "s_wake", "s_wait", "s_wait_check", "s_wait_sched",
            "s_copy", "s_free"}

\* The locals of a system call are set where the call uses them.  A task inside
\* __ipc_receive or __ipc_reply owns the endpoint, was started after its
\* registration, and the request counter tells which of the two it is.  A server
\* that found its list empty waits until a sender has queued a request.
TaskInv(p) ==
    /\ pc[p] # "idle" => call[p] \in Endpoints /\ Started(p)
    /\ pc[p] \in NodePCs => cur[p] \in Nodes
    /\ pc[p] \in {"p_finish", "p_copy", "p_wake"} => rnode[p] \in Nodes
    /\ pc[p] \in ReceivePCs => Owner[call[p]] = p /\ count[call[p]] = 0
    /\ pc[p] \in ReplyPCs => Owner[call[p]] = p /\ count[call[p]] = 1
    /\ pc[p] \in WaitingPCs => state[call[p]] = "WAITTING" \/ list[call[p]] # <<>>
    /\ pc[p] = "r_first" => list[call[p]] # <<>>

\* ReplyGoesToReceived for one endpoint, which only its server registers.
EndpointInv(e) ==
    /\ tsk[e] \in {None, Owner[e]}
    /\ count[e] <= 1
    /\ count[e] = 1 /\ ~Replying(Owner[e]) =>
          list[e] # <<>> /\ Head(list[e]) = rnode[Owner[e]]

IInv ==
    /\ TypeOK
    /\ \A p \in Procs : TaskInv(p)
    /\ \A e \in Endpoints : EndpointInv(e)

-----------------------------------------------------------------------------
(* Types, one group of variables at a time.                                *)

EpTypes ==
    /\ tsk \in [Endpoints -> Procs \cup {None}] /\ state \in [Endpoints -> States]
    /\ list \in [Endpoints -> Seq(Nodes)] /\ count \in [Endpoints -> Nat]
RegTypes == reg \in [Endpoints -> {"none", "state", "wake", "done"}]
NodeTypes ==
    live \in [Nodes -> BOOLEAN] /\ finish \in [Nodes -> BOOLEAN] /\ mess \in [Nodes -> Message]
CallTypes ==
    /\ pc \in [Procs -> PCs] /\ call \in [Procs -> Endpoints \cup {None}]
    /\ cur \in [Procs -> Nodes \cup {None}] /\ buf \in [Procs -> Message]
    /\ ret \in [Procs -> Errors]
SrvTypes == rnode \in [Procs -> Nodes \cup {None}] /\ rbuf \in [Procs -> Message]
WaitTypes ==
    /\ tstate \in [Procs -> {"RUNNING", "UNINT"}]
    /\ queue \in [Procs -> WaitQueues \cup {None}]

\* A leaf goes to Zenon, and to the SMT solver where it says so.
USE Zenon

\* TypeOK is the conjunction of the groups, before a step and after it.
LEMMA TypeGroups ==
    /\ TypeOK => /\ EpTypes /\ RegTypes /\ NodeTypes /\ CallTypes /\ SrvTypes /\ WaitTypes
                 /\ race \in BOOLEAN
    /\ (/\ EpTypes' /\ RegTypes' /\ NodeTypes' /\ CallTypes' /\ SrvTypes' /\ WaitTypes'
        /\ race' \in BOOLEAN)
          => TypeOK'
BY DEF TypeOK, EpTypes, RegTypes, NodeTypes, CallTypes, SrvTypes, WaitTypes

\* A group that a step leaves alone keeps its types.
LEMMA SameTypes ==
    /\ EpTypes /\ UNCHANGED epVars => EpTypes'
    /\ RegTypes /\ UNCHANGED reg => RegTypes'
    /\ NodeTypes /\ UNCHANGED nodeVars => NodeTypes'
    /\ CallTypes /\ UNCHANGED callVars => CallTypes'
    /\ SrvTypes /\ UNCHANGED srvVars => SrvTypes'
    /\ WaitTypes /\ UNCHANGED waitVars => WaitTypes'
    /\ race \in BOOLEAN /\ UNCHANGED race => race' \in BOOLEAN
<1>1. EpTypes /\ UNCHANGED epVars => EpTypes'
  BY DEF EpTypes, epVars
<1>2. NodeTypes /\ UNCHANGED nodeVars => NodeTypes'
  BY DEF NodeTypes, nodeVars
<1>3. CallTypes /\ UNCHANGED callVars => CallTypes'
  BY DEF CallTypes, callVars
<1>4. SrvTypes /\ UNCHANGED srvVars => SrvTypes'
  BY DEF SrvTypes, srvVars
<1>5. WaitTypes /\ UNCHANGED waitVars => WaitTypes'
  BY DEF WaitTypes, waitVars
<1> QED BY <1>1, <1>2, <1>3, <1>4, <1>5 DEF RegTypes

\* The messages the code builds are messages.
LEMMA MessageFacts ==
    /\ ZeroMessage \in Message /\ ZeroMessage.notif = FALSE
    /\ \A b \in BOOLEAN : [notif |-> b, src |-> None, reply |-> FALSE] \in Message
    /\ \A m \in Message, p \in Procs :
          /\ [m EXCEPT !.src = p] \in Message
          /\ [m EXCEPT !.src = p].src = p /\ [m EXCEPT !.src = p].notif = m.notif
    /\ \A m \in Message :
          /\ [m EXCEPT !.reply = TRUE] \in Message
          /\ [m EXCEPT !.reply = TRUE].reply /\ [m EXCEPT !.reply = TRUE].src = m.src
          /\ [m EXCEPT !.reply = TRUE].notif = m.notif
BY DEF Message, ZeroMessage

\* The wait queues of endpoints and of nodes are wait queues, all different.
LEMMA QueueFacts ==
    /\ \A e \in Endpoints : EpWait(e) \in WaitQueues
    /\ \A n \in Nodes : NodeWait(n) \in WaitQueues
    /\ \A e, d \in Endpoints, n, m \in Nodes :
          /\ EpWait(e) # NodeWait(n)
          /\ EpWait(e) = EpWait(d) => e = d
          /\ NodeWait(n) = NodeWait(m) => n = m
BY DEF EpWait, NodeWait, WaitQueues

\* Appending to a request list keeps its head; a list with a head has a tail.
LEMMA ListFacts ==
    /\ \A s \in Seq(Nodes), n \in Nodes :
          /\ Append(s, n) \in Seq(Nodes) /\ Append(s, n) # <<>>
          /\ s # <<>> => Head(Append(s, n)) = Head(s)
    /\ \A s \in Seq(Nodes) : s # <<>> => Head(s) \in Nodes /\ Tail(s) \in Seq(Nodes)
<1>1. ASSUME NEW s \in Seq(Nodes), NEW n \in Nodes
      PROVE  Append(s, n) \in Seq(Nodes) /\ Append(s, n) # <<>>
  <2>1. Append(s, n) \in Seq(Nodes) /\ Len(Append(s, n)) = Len(s) + 1
    BY SMT
  <2>2. Len(s) \in Nat /\ Len(<<>>) = 0
    BY SMT
  <2> QED BY <2>1, <2>2, SMT
<1>2. ASSUME NEW s \in Seq(Nodes), NEW n \in Nodes, s # <<>>
      PROVE  Head(Append(s, n)) = Head(s)
  BY <1>2, SMT
<1>3. ASSUME NEW s \in Seq(Nodes), s # <<>>
      PROVE  Head(s) \in Nodes /\ Tail(s) \in Seq(Nodes)
  BY <1>3, SMT
<1> QED BY <1>1, <1>2, <1>3

-----------------------------------------------------------------------------
(* What the building blocks of the actions do, task by task.               *)

\* The locals of every other task stay as they are.
OthersCall(p) ==
    \A q \in Procs \ {p} : /\ pc'[q] = pc[q] /\ call'[q] = call[q]
                           /\ cur'[q] = cur[q] /\ buf'[q] = buf[q]
OthersServe(p) == \A q \in Procs \ {p} : rnode'[q] = rnode[q] /\ rbuf'[q] = rbuf[q]
OthersWait(p) == \A q \in Procs \ {p} : tstate'[q] = tstate[q] /\ queue'[q] = queue[q]

\* The end of a system call.
LEMMA ReturnFacts ==
    ASSUME CallTypes, NEW p \in Procs, NEW err \in Errors, Return(p, err)
    PROVE  /\ CallTypes' /\ OthersCall(p)
           /\ pc'[p] = "idle" /\ call'[p] = None /\ cur'[p] = None /\ buf'[p] = ZeroMessage
<1> USE DEF Return, Goto
<1>1. pc' \in [Procs -> PCs] /\ ret' \in [Procs -> Errors]
  BY DEF CallTypes, PCs
<1>2. call' \in [Procs -> Endpoints \cup {None}] /\ cur' \in [Procs -> Nodes \cup {None}]
  BY DEF CallTypes
<1>3. buf' \in [Procs -> Message]
  BY MessageFacts DEF CallTypes
<1>4. OthersCall(p) /\ pc'[p] = "idle" /\ call'[p] = None /\ cur'[p] = None /\ buf'[p] = ZeroMessage
  BY DEF CallTypes, OthersCall
<1> QED BY <1>1, <1>2, <1>3, <1>4 DEF CallTypes

\* A system call goes on at label l.
LEMMA GotoFacts ==
    ASSUME CallTypes, NEW p \in Procs, NEW l \in PCs, Goto(p, l), UNCHANGED <<call, cur, buf, ret>>
    PROVE  /\ CallTypes' /\ OthersCall(p)
           /\ pc'[p] = l /\ call'[p] = call[p] /\ cur'[p] = cur[p] /\ buf'[p] = buf[p]
<1>1. CallTypes'
  BY DEF CallTypes, Goto
<1>2. OthersCall(p) /\ pc'[p] = l
  BY DEF CallTypes, OthersCall, Goto
<1> QED BY <1>1, <1>2

\* A system call begins.
LEMMA EnterFacts ==
    ASSUME CallTypes, NEW p \in Procs, NEW e \in Endpoints, NEW l \in PCs, Enter(p, e, l)
    PROVE  /\ CallTypes' /\ OthersCall(p)
           /\ pc'[p] = l /\ call'[p] = e /\ cur'[p] = cur[p] /\ buf'[p] = buf[p]
<1> USE DEF Enter, Goto
<1>1. CallTypes'
  BY DEF CallTypes, Errors
<1>2. OthersCall(p) /\ pc'[p] = l /\ call'[p] = e
  BY DEF CallTypes, OthersCall
<1> QED BY <1>1, <1>2

\* wake_up(): the waiters of q run, everybody else stays.
LEMMA WakeFacts ==
    ASSUME WaitTypes, NEW q \in WaitQueues, WakeUp(q)
    PROVE  /\ WaitTypes'
           /\ \A t \in Procs : queue[t] = q => tstate'[t] = "RUNNING"
           /\ \A t \in Procs : queue[t] # q => tstate'[t] = tstate[t] /\ queue'[t] = queue[t]
BY DEF WaitTypes, WakeUp

\* kfree().
LEMMA FreeFacts ==
    ASSUME NodeTypes, NEW n \in Nodes, FreeNode(n)
    PROVE  /\ NodeTypes' /\ ~live'[n] /\ ~finish'[n] /\ mess'[n] = ZeroMessage
           /\ \A m \in Nodes \ {n} : live'[m] = live[m] /\ finish'[m] = finish[m] /\ mess'[m] = mess[m]
BY MessageFacts DEF NodeTypes, FreeNode

\* A round of wait_event(), from label l over check and sched back to l or on to
\* next, as the code takes it and what it comes to.
Round(p, l, check, sched, next, q, cond) ==
    /\ UNCHANGED <<call, cur, buf, ret>>
    /\ \/ WaitFast(p, l, cond, next)
       \/ WaitPrepare(p, l, check, q)
       \/ WaitTest(p, check, sched, cond, next)
       \/ WaitWoken(p, sched, l)

RoundDone(p, l, check, sched, next, q, cond) ==
    /\ CallTypes' /\ WaitTypes' /\ OthersCall(p) /\ OthersWait(p)
    /\ call'[p] = call[p] /\ cur'[p] = cur[p] /\ buf'[p] = buf[p]
    /\ \/ pc[p] \in {l, check} /\ pc'[p] = next /\ cond
       \/ pc[p] = l /\ pc'[p] = check /\ tstate'[p] = "UNINT" /\ queue'[p] = q
       \/ /\ pc[p] = check /\ pc'[p] = sched /\ ~cond
          /\ tstate'[p] = tstate[p] /\ queue'[p] = queue[p]
       \/ pc[p] = sched /\ pc'[p] = l /\ tstate[p] = "RUNNING" /\ tstate'[p] = "RUNNING"

LEMMA RoundFacts ==
    ASSUME CallTypes, WaitTypes, NEW p \in Procs, NEW q \in WaitQueues, NEW cond \in BOOLEAN,
           NEW l \in PCs, NEW check \in PCs, NEW sched \in PCs, NEW next \in PCs,
           Round(p, l, check, sched, next, q, cond)
    PROVE  RoundDone(p, l, check, sched, next, q, cond)
<1>0. UNCHANGED <<call, cur, buf, ret>>
  BY DEF Round
<1>1. CASE WaitFast(p, l, cond, next)
  <2>1. Goto(p, next) /\ UNCHANGED waitVars /\ pc[p] = l /\ cond
    BY <1>1 DEF WaitFast
  <2>2. WaitTypes' /\ OthersWait(p)
    BY <2>1, SameTypes DEF OthersWait, waitVars
  <2> QED BY <1>0, <2>1, <2>2, GotoFacts DEF RoundDone
<1>2. CASE WaitPrepare(p, l, check, q)
  <2>1. Goto(p, check) /\ PrepareToWait(p, q) /\ pc[p] = l
    BY <1>2 DEF WaitPrepare
  <2>2. WaitTypes' /\ OthersWait(p) /\ tstate'[p] = "UNINT" /\ queue'[p] = q
    BY <2>1 DEF PrepareToWait, WaitTypes, OthersWait
  <2> QED BY <1>0, <2>1, <2>2, GotoFacts DEF RoundDone
<1>3. CASE WaitTest(p, check, sched, cond, next)
  <2>1. CASE cond
    <3>1. Goto(p, next) /\ FinishWait(p) /\ pc[p] = check
      BY <1>3, <2>1 DEF WaitTest
    <3>2. WaitTypes' /\ OthersWait(p)
      BY <3>1 DEF FinishWait, WaitTypes, OthersWait
    <3> QED BY <1>0, <2>1, <3>1, <3>2, GotoFacts DEF RoundDone
  <2>2. CASE ~cond
    <3>1. Goto(p, sched) /\ UNCHANGED waitVars /\ pc[p] = check
      BY <1>3, <2>2 DEF WaitTest
    <3>2. WaitTypes' /\ OthersWait(p) /\ tstate'[p] = tstate[p] /\ queue'[p] = queue[p]
      BY <3>1, SameTypes DEF OthersWait, waitVars
    <3> QED BY <1>0, <2>2, <3>1, <3>2, GotoFacts DEF RoundDone
  <2> QED BY <2>1, <2>2
<1>4. CASE WaitWoken(p, sched, l)
  <2>1. Goto(p, l) /\ UNCHANGED waitVars /\ pc[p] = sched /\ tstate[p] = "RUNNING"
    BY <1>4 DEF WaitWoken
  <2>2. WaitTypes' /\ OthersWait(p) /\ tstate'[p] = "RUNNING"
    BY <2>1, SameTypes DEF OthersWait, waitVars
  <2> QED BY <1>0, <2>1, <2>2, GotoFacts DEF RoundDone
<1> QED BY <1>1, <1>2, <1>3, <1>4 DEF Round

-----------------------------------------------------------------------------
(* What each action does, as far as the invariants look at it.             *)

USE DEF epVars, nodeVars, callVars, srvVars, waitVars

\* A step that leaves rnode and rbuf alone leaves them alone for the other tasks.
LEMMA ServeSame == ASSUME NEW p \in Procs, UNCHANGED srvVars PROVE OthersServe(p)
BY DEF OthersServe

\* A round of the wait for a registration in __ipc_send.
LEMMA SendAwaitServerFacts ==
    ASSUME TypeOK, NEW p \in Procs, TaskInv(p), SendAwaitServer(p)
    PROVE  /\ TypeOK' /\ UNCHANGED <<epVars, reg, nodeVars, srvVars, race>>
           /\ OthersCall(p) /\ OthersWait(p)
           /\ call'[p] = call[p] /\ cur'[p] = cur[p] /\ buf'[p] = buf[p]
           /\ pc[p] \in {"s_reg", "s_reg_check", "s_reg_sched"}
           /\ pc'[p] \in {"s_reg", "s_reg_check", "s_reg_sched", "s_alloc"}
<1> DEFINE up == state[call[p]] = "RUNNING"
<1>0. UNCHANGED <<epVars, reg, nodeVars, srvVars, race>>
  BY DEF SendAwaitServer
<1>1. Round(p, "s_reg", "s_reg_check", "s_reg_sched", "s_alloc", EpWait(call[p]), up)
  BY DEF SendAwaitServer, Round
<1>2. pc[p] # "idle"
  BY <1>1 DEF Round, WaitFast, WaitPrepare, WaitTest, WaitWoken
<1>3. EpWait(call[p]) \in WaitQueues /\ up \in BOOLEAN
  BY <1>2, QueueFacts DEF TaskInv
<1>4. {"s_reg", "s_reg_check", "s_reg_sched", "s_alloc"} \subseteq PCs
  BY DEF PCs, SendPCs
<1> HIDE DEF up
<1>5. CallTypes /\ WaitTypes
  BY TypeGroups
<1>r. RoundDone(p, "s_reg", "s_reg_check", "s_reg_sched", "s_alloc", EpWait(call[p]), up)
  BY <1>1, <1>3, <1>4, <1>5, RoundFacts
<1>6. /\ CallTypes' /\ WaitTypes' /\ OthersCall(p) /\ OthersWait(p)
      /\ call'[p] = call[p] /\ cur'[p] = cur[p] /\ buf'[p] = buf[p]
      /\ pc[p] \in {"s_reg", "s_reg_check", "s_reg_sched"}
      /\ pc'[p] \in {"s_reg", "s_reg_check", "s_reg_sched", "s_alloc"}
  BY <1>r DEF RoundDone
<1> QED BY <1>0, <1>6, TypeGroups, SameTypes

\* Giving up that wait with -ENODEV.
LEMMA SendTimeoutFacts ==
    ASSUME TypeOK, NEW p \in Procs, SendTimeout(p)
    PROVE  /\ TypeOK' /\ UNCHANGED <<epVars, reg, nodeVars, srvVars, race>>
           /\ OthersCall(p) /\ OthersWait(p) /\ pc[p] = "s_reg_sched" /\ pc'[p] = "idle"
<1>1. /\ pc[p] = "s_reg_sched" /\ FinishWait(p) /\ Return(p, "ENODEV")
      /\ UNCHANGED <<epVars, reg, nodeVars, srvVars, race>>
  BY DEF SendTimeout
<1>2. WaitTypes' /\ OthersWait(p)
  BY <1>1, TypeGroups DEF FinishWait, WaitTypes, OthersWait
<1>3. CallTypes' /\ OthersCall(p) /\ pc'[p] = "idle"
  BY <1>1, TypeGroups, ReturnFacts DEF Errors
<1> QED BY <1>1, <1>2, <1>3, TypeGroups, SameTypes

\* kmalloc and the initialisation of a request.
LEMMA SendAllocFacts ==
    ASSUME TypeOK, NEW p \in Procs, SendAlloc(p)
    PROVE  /\ TypeOK' /\ UNCHANGED <<epVars, reg, srvVars, waitVars, race>> /\ OthersCall(p)
           /\ pc[p] = "s_alloc"
           /\ \/ pc'[p] = "idle" /\ UNCHANGED nodeVars
              \/ \E n \in Nodes :
                    /\ ~live[n] /\ live'[n] /\ ~finish'[n] /\ mess'[n] = buf'[p]
                    /\ buf'[p].src = p /\ buf'[p].notif = buf[p].notif
                    /\ pc'[p] = "s_enqueue" /\ cur'[p] = n /\ call'[p] = call[p]
                    /\ \A m \in Nodes \ {n} :
                          live'[m] = live[m] /\ finish'[m] = finish[m] /\ mess'[m] = mess[m]
<1>1. pc[p] = "s_alloc" /\ UNCHANGED <<epVars, reg, srvVars, waitVars, race>>
  BY DEF SendAlloc
<1>2. CASE Return(p, "ENOMEM") /\ UNCHANGED nodeVars
  <2>1. CallTypes' /\ OthersCall(p) /\ pc'[p] = "idle"
    BY <1>2, TypeGroups, ReturnFacts DEF Errors
  <2> QED BY <1>1, <1>2, <2>1, TypeGroups, SameTypes
<1>3. CASE \E n \in Nodes :
             /\ ~live[n]
             /\ live' = [live EXCEPT ![n] = TRUE]
             /\ finish' = [finish EXCEPT ![n] = FALSE]
             /\ mess' = [mess EXCEPT ![n] = [buf[p] EXCEPT !.src = p]]
             /\ cur' = [cur EXCEPT ![p] = n]
             /\ buf' = [buf EXCEPT ![p].src = p]
             /\ Goto(p, "s_enqueue")
             /\ UNCHANGED <<call, ret>>
  <2>1. PICK n \in Nodes :
             /\ ~live[n]
             /\ live' = [live EXCEPT ![n] = TRUE]
             /\ finish' = [finish EXCEPT ![n] = FALSE]
             /\ mess' = [mess EXCEPT ![n] = [buf[p] EXCEPT !.src = p]]
             /\ cur' = [cur EXCEPT ![p] = n]
             /\ buf' = [buf EXCEPT ![p].src = p]
             /\ Goto(p, "s_enqueue")
             /\ UNCHANGED <<call, ret>>
    BY <1>3
  <2> DEFINE m == [buf[p] EXCEPT !.src = p]
  <2>2. m \in Message /\ m.src = p /\ m.notif = buf[p].notif
    BY TypeGroups, MessageFacts, SMT DEF CallTypes
  <2>3. mess' = [mess EXCEPT ![n] = m] /\ buf' = [buf EXCEPT ![p] = m]
    BY <2>1
  <2> HIDE DEF m
  <2>4. /\ NodeTypes' /\ live'[n] /\ ~finish'[n] /\ mess'[n] = m
        /\ \A k \in Nodes \ {n} : live'[k] = live[k] /\ finish'[k] = finish[k] /\ mess'[k] = mess[k]
    BY <2>1, <2>2, <2>3, TypeGroups, SMT DEF NodeTypes
  <2>5. CallTypes'
    BY <2>1, <2>2, <2>3, TypeGroups, SMT DEF CallTypes, Goto, PCs, SendPCs
  <2>6. OthersCall(p) /\ buf'[p] = m /\ pc'[p] = "s_enqueue" /\ cur'[p] = n /\ call'[p] = call[p]
    BY <2>1, <2>3, TypeGroups DEF CallTypes, OthersCall, Goto
  <2>7. TypeOK'
    BY <1>1, <2>4, <2>5, TypeGroups, SameTypes
  <2>8. ~live[n]
    BY <2>1
  <2> QED BY <1>1, <2>2, <2>4, <2>6, <2>7, <2>8
<1> QED BY <1>2, <1>3 DEF SendAlloc

\* list_add_tail and the change of the endpoint's state.
LEMMA SendEnqueueFacts ==
    ASSUME TypeOK, NEW p \in Procs, TaskInv(p), SendEnqueue(p)
    PROVE  /\ TypeOK' /\ UNCHANGED <<tsk, count, reg, nodeVars, srvVars, waitVars, race>>
           /\ OthersCall(p) /\ pc[p] = "s_enqueue" /\ call[p] \in Endpoints /\ cur[p] \in Nodes
           /\ list'[call[p]] = Append(list[call[p]], cur[p]) /\ state'[call[p]] # "WAITTING"
           /\ state[call[p]] # "WAITTING" => state'[call[p]] = state[call[p]]
           /\ \A d \in Endpoints \ {call[p]} : list'[d] = list[d] /\ state'[d] = state[d]
           /\ \/ /\ pc'[p] = "s_wake" /\ state[call[p]] = "WAITTING"
                 /\ call'[p] = call[p] /\ cur'[p] = cur[p] /\ buf'[p] = buf[p]
              \/ /\ pc'[p] = "s_wait" /\ state[call[p]] # "WAITTING" /\ ~buf[p].notif
                 /\ call'[p] = call[p] /\ cur'[p] = cur[p] /\ buf'[p] = buf[p]
              \/ pc'[p] = "idle" /\ state[call[p]] # "WAITTING" /\ buf[p].notif
<1> DEFINE e == call[p]
<1>1. /\ pc[p] = "s_enqueue" /\ e \in Endpoints /\ cur[p] \in Nodes
      /\ UNCHANGED <<tsk, count, reg, nodeVars, srvVars, waitVars, race>>
  BY DEF SendEnqueue, TaskInv, NodePCs
<1>2. /\ list' = [list EXCEPT ![e] = Append(@, cur[p])]
      /\ state' = [state EXCEPT ![e] = IF @ = "WAITTING" THEN "RUNNING" ELSE @]
      /\ IF state[e] = "WAITTING" THEN Continue(p, "s_wake") ELSE AfterEnqueue(p)
  BY DEF SendEnqueue
<1> HIDE DEF e
<1>3. list \in [Endpoints -> Seq(Nodes)] /\ state \in [Endpoints -> States]
  BY TypeGroups DEF EpTypes
<1>4. /\ list' \in [Endpoints -> Seq(Nodes)] /\ list'[e] = Append(list[e], cur[p])
      /\ \A d \in Endpoints \ {e} : list'[d] = list[d]
  BY <1>1, <1>2, <1>3, ListFacts
<1>5. /\ state' \in [Endpoints -> States] /\ state'[e] # "WAITTING"
      /\ state[e] # "WAITTING" => state'[e] = state[e]
      /\ \A d \in Endpoints \ {e} : state'[d] = state[d]
  BY <1>1, <1>2, <1>3 DEF States
<1>6. EpTypes'
  BY <1>1, <1>4, <1>5, TypeGroups DEF EpTypes
<1>7. /\ CallTypes' /\ OthersCall(p)
      /\ \/ /\ pc'[p] = "s_wake" /\ state[e] = "WAITTING"
            /\ call'[p] = call[p] /\ cur'[p] = cur[p] /\ buf'[p] = buf[p]
         \/ /\ pc'[p] = "s_wait" /\ state[e] # "WAITTING" /\ ~buf[p].notif
            /\ call'[p] = call[p] /\ cur'[p] = cur[p] /\ buf'[p] = buf[p]
         \/ pc'[p] = "idle" /\ state[e] # "WAITTING" /\ buf[p].notif
  <2>1. CallTypes /\ {"s_wake", "s_wait"} \subseteq PCs /\ "OK" \in Errors
    BY TypeGroups DEF PCs, SendPCs, Errors
  <2>2. CASE state[e] = "WAITTING"
    <3>1. Goto(p, "s_wake") /\ UNCHANGED <<call, cur, buf, ret>>
      BY <1>2, <2>2 DEF Continue
    <3> QED BY <2>1, <2>2, <3>1, GotoFacts
  <2>3. CASE state[e] # "WAITTING" /\ buf[p].notif
    <3>1. Return(p, "OK")
      BY <1>2, <2>3 DEF AfterEnqueue
    <3> QED BY <2>1, <2>3, <3>1, ReturnFacts
  <2>4. CASE state[e] # "WAITTING" /\ ~buf[p].notif
    <3>1. Goto(p, "s_wait") /\ UNCHANGED <<call, cur, buf, ret>>
      BY <1>2, <2>4 DEF AfterEnqueue, Continue
    <3> QED BY <2>1, <2>4, <3>1, GotoFacts
  <2> QED BY <2>2, <2>3, <2>4
<1>8. TypeOK'
  BY <1>1, <1>6, <1>7, TypeGroups, SameTypes
<1> QED BY <1>1, <1>4, <1>5, <1>7, <1>8 DEF e

\* The wake_up() of the server.
LEMMA SendWakeFacts ==
    ASSUME TypeOK, NEW p \in Procs, TaskInv(p), SendWake(p)
    PROVE  /\ TypeOK' /\ UNCHANGED <<epVars, reg, nodeVars, srvVars, race>>
           /\ OthersCall(p) /\ pc[p] = "s_wake" /\ call[p] \in Endpoints
           /\ \A t \in Procs : queue[t] = EpWait(call[p]) => tstate'[t] = "RUNNING"
           /\ \A t \in Procs : queue[t] # EpWait(call[p]) =>
                 tstate'[t] = tstate[t] /\ queue'[t] = queue[t]
           /\ \/ /\ pc'[p] = "s_wait" /\ ~buf[p].notif
                 /\ call'[p] = call[p] /\ cur'[p] = cur[p] /\ buf'[p] = buf[p]
              \/ pc'[p] = "idle" /\ buf[p].notif
<1>1. /\ pc[p] = "s_wake" /\ call[p] \in Endpoints /\ WakeUp(EpWait(call[p])) /\ AfterEnqueue(p)
      /\ UNCHANGED <<epVars, reg, nodeVars, srvVars, race>>
  BY DEF SendWake, TaskInv
<1>2. /\ WaitTypes'
      /\ \A t \in Procs : queue[t] = EpWait(call[p]) => tstate'[t] = "RUNNING"
      /\ \A t \in Procs : queue[t] # EpWait(call[p]) =>
            tstate'[t] = tstate[t] /\ queue'[t] = queue[t]
  BY <1>1, WakeFacts, QueueFacts, TypeGroups
<1>3. CallTypes /\ "s_wait" \in PCs /\ "OK" \in Errors
  BY TypeGroups DEF PCs, SendPCs, Errors
<1>4. CASE buf[p].notif
  <2>1. Return(p, "OK")
    BY <1>1, <1>4 DEF AfterEnqueue
  <2>2. CallTypes' /\ OthersCall(p) /\ pc'[p] = "idle"
    BY <1>3, <2>1, ReturnFacts
  <2> QED BY <1>1, <1>2, <1>4, <2>2, TypeGroups, SameTypes
<1>5. CASE ~buf[p].notif
  <2>1. Goto(p, "s_wait") /\ UNCHANGED <<call, cur, buf, ret>>
    BY <1>1, <1>5 DEF AfterEnqueue, Continue
  <2>2. /\ CallTypes' /\ OthersCall(p) /\ pc'[p] = "s_wait"
        /\ call'[p] = call[p] /\ cur'[p] = cur[p] /\ buf'[p] = buf[p]
    BY <1>3, <2>1, GotoFacts
  <2> QED BY <1>1, <1>2, <1>5, <2>2, TypeGroups, SameTypes
<1> QED BY <1>4, <1>5

\* A round of the wait for the answer.
LEMMA SendAwaitReplyFacts ==
    ASSUME TypeOK, NEW p \in Procs, TaskInv(p), SendAwaitReply(p)
    PROVE  /\ TypeOK' /\ UNCHANGED <<epVars, reg, nodeVars, srvVars>>
           /\ OthersCall(p) /\ OthersWait(p) /\ cur[p] \in Nodes
           /\ call'[p] = call[p] /\ cur'[p] = cur[p] /\ buf'[p] = buf[p]
           /\ race' = (race \/ (pc'[p] = "s_copy" /\ InReplyWindow(cur[p])))
           /\ \/ pc[p] \in {"s_wait", "s_wait_check"} /\ pc'[p] = "s_copy" /\ finish[cur[p]]
              \/ /\ pc[p] = "s_wait" /\ pc'[p] = "s_wait_check"
                 /\ tstate'[p] = "UNINT" /\ queue'[p] = NodeWait(cur[p])
              \/ /\ pc[p] = "s_wait_check" /\ pc'[p] = "s_wait_sched" /\ ~finish[cur[p]]
                 /\ tstate'[p] = tstate[p] /\ queue'[p] = queue[p]
              \/ /\ pc[p] = "s_wait_sched" /\ pc'[p] = "s_wait"
                 /\ tstate[p] = "RUNNING" /\ tstate'[p] = "RUNNING"
<1> DEFINE done == finish[cur[p]]
<1>0. /\ UNCHANGED <<epVars, reg, nodeVars, srvVars>>
      /\ race' = (race \/ (pc'[p] = "s_copy" /\ InReplyWindow(cur[p])))
  BY DEF SendAwaitReply
<1>1. Round(p, "s_wait", "s_wait_check", "s_wait_sched", "s_copy", NodeWait(cur[p]), done)
  BY DEF SendAwaitReply, Round
<1>2. pc[p] \in NodePCs
  BY <1>1 DEF Round, WaitFast, WaitPrepare, WaitTest, WaitWoken, NodePCs
<1>3. cur[p] \in Nodes /\ NodeWait(cur[p]) \in WaitQueues /\ done \in BOOLEAN
  BY <1>2, QueueFacts, TypeGroups DEF TaskInv, NodeTypes
<1>4. {"s_wait", "s_wait_check", "s_wait_sched", "s_copy"} \subseteq PCs
  BY DEF PCs, SendPCs
<1> HIDE DEF done
<1>5. CallTypes /\ WaitTypes /\ race' \in BOOLEAN
  BY <1>0, TypeGroups
<1>r. RoundDone(p, "s_wait", "s_wait_check", "s_wait_sched", "s_copy", NodeWait(cur[p]), done)
  BY <1>1, <1>3, <1>4, <1>5, RoundFacts
<1>6. /\ CallTypes' /\ WaitTypes' /\ OthersCall(p) /\ OthersWait(p)
      /\ call'[p] = call[p] /\ cur'[p] = cur[p] /\ buf'[p] = buf[p]
      /\ \/ pc[p] \in {"s_wait", "s_wait_check"} /\ pc'[p] = "s_copy" /\ done
         \/ /\ pc[p] = "s_wait" /\ pc'[p] = "s_wait_check"
            /\ tstate'[p] = "UNINT" /\ queue'[p] = NodeWait(cur[p])
         \/ /\ pc[p] = "s_wait_check" /\ pc'[p] = "s_wait_sched" /\ ~done
            /\ tstate'[p] = tstate[p] /\ queue'[p] = queue[p]
         \/ /\ pc[p] = "s_wait_sched" /\ pc'[p] = "s_wait"
            /\ tstate[p] = "RUNNING" /\ tstate'[p] = "RUNNING"
  BY <1>r DEF RoundDone
<1>7. TypeOK'
  BY <1>0, <1>5, <1>6, TypeGroups, SameTypes
<1> QED BY <1>0, <1>3, <1>6, <1>7 DEF done

\* Copying the answer out of the node.
LEMMA SendCopyFacts ==
    ASSUME TypeOK, NEW p \in Procs, TaskInv(p), SendCopy(p)
    PROVE  /\ TypeOK' /\ UNCHANGED <<epVars, reg, nodeVars, srvVars, waitVars, race>>
           /\ OthersCall(p) /\ pc[p] = "s_copy" /\ pc'[p] = "s_free" /\ cur[p] \in Nodes
           /\ call'[p] = call[p] /\ cur'[p] = cur[p] /\ buf'[p] = mess[cur[p]]
<1>1. /\ pc[p] = "s_copy" /\ cur[p] \in Nodes /\ buf' = [buf EXCEPT ![p] = mess[cur[p]]]
      /\ pc' = [pc EXCEPT ![p] = "s_free"] /\ UNCHANGED <<call, cur, ret>>
      /\ UNCHANGED <<epVars, reg, nodeVars, srvVars, waitVars, race>>
  BY DEF SendCopy, Goto, TaskInv, NodePCs
<1>2. mess[cur[p]] \in Message /\ "s_free" \in PCs
  BY <1>1, TypeGroups DEF NodeTypes, PCs, SendPCs
<1>3. CallTypes' /\ OthersCall(p) /\ pc'[p] = "s_free" /\ buf'[p] = mess[cur[p]]
  BY <1>1, <1>2, TypeGroups DEF CallTypes, OthersCall
<1> QED BY <1>1, <1>3, TypeGroups, SameTypes

\* The sender's kfree.
LEMMA SendFreeFacts ==
    ASSUME TypeOK, NEW p \in Procs, TaskInv(p), SendFree(p)
    PROVE  /\ TypeOK' /\ UNCHANGED <<epVars, reg, srvVars, waitVars, race>>
           /\ OthersCall(p) /\ pc[p] = "s_free" /\ pc'[p] = "idle" /\ cur[p] \in Nodes
           /\ ~live'[cur[p]] /\ ~finish'[cur[p]] /\ mess'[cur[p]] = ZeroMessage
           /\ \A m \in Nodes \ {cur[p]} :
                 live'[m] = live[m] /\ finish'[m] = finish[m] /\ mess'[m] = mess[m]
<1>1. /\ pc[p] = "s_free" /\ cur[p] \in Nodes /\ FreeNode(cur[p]) /\ Return(p, "OK")
      /\ UNCHANGED <<epVars, reg, srvVars, waitVars, race>>
  BY DEF SendFree, TaskInv, NodePCs
<1>2. CallTypes' /\ OthersCall(p) /\ pc'[p] = "idle"
  BY <1>1, TypeGroups, ReturnFacts DEF Errors
<1>3. /\ NodeTypes' /\ ~live'[cur[p]] /\ ~finish'[cur[p]] /\ mess'[cur[p]] = ZeroMessage
      /\ \A m \in Nodes \ {cur[p]} :
            live'[m] = live[m] /\ finish'[m] = finish[m] /\ mess'[m] = mess[m]
  BY <1>1, TypeGroups, FreeFacts
<1> QED BY <1>1, <1>2, <1>3, TypeGroups, SameTypes

\* Entering __ipc_send or __ipc_notify.
LEMMA SendFacts ==
    ASSUME TypeOK, NEW p \in Procs, NEW e \in Endpoints, NEW notif \in BOOLEAN, Send(p, e, notif)
    PROVE  /\ TypeOK' /\ UNCHANGED <<epVars, reg, nodeVars, srvVars, waitVars, race>>
           /\ OthersCall(p) /\ pc[p] = "idle" /\ Started(p) /\ call'[p] = e
           /\ pc'[p] \in {"s_reg", "s_alloc"}
<1>1. /\ pc[p] = "idle" /\ Started(p) /\ call' = [call EXCEPT ![p] = e]
      /\ buf' = [buf EXCEPT ![p] = [notif |-> notif, src |-> None, reply |-> FALSE]]
      /\ ret' = [ret EXCEPT ![p] = "OK"] /\ UNCHANGED cur
      /\ \E l \in {"s_reg", "s_alloc"} : pc' = [pc EXCEPT ![p] = l]
      /\ UNCHANGED <<epVars, reg, nodeVars, srvVars, waitVars, race>>
  BY DEF Send, Goto
<1>2. PICK l \in {"s_reg", "s_alloc"} : pc' = [pc EXCEPT ![p] = l]
  BY <1>1
<1>3. l \in PCs /\ "OK" \in Errors /\ [notif |-> notif, src |-> None, reply |-> FALSE] \in Message
  BY MessageFacts DEF PCs, SendPCs, Errors
<1>4. CallTypes'
  BY <1>1, <1>2, <1>3, TypeGroups DEF CallTypes
<1>5. OthersCall(p) /\ pc'[p] = l /\ call'[p] = e
  BY <1>1, <1>2, TypeGroups DEF CallTypes, OthersCall
<1> QED BY <1>1, <1>4, <1>5, TypeGroups, SameTypes

\* Entering __ipc_receive, or its refusal.
LEMMA ReceiveFacts ==
    ASSUME TypeOK, NEW p \in Procs, NEW e \in Endpoints, Receive(p, e)
    PROVE  /\ TypeOK' /\ UNCHANGED <<epVars, reg, nodeVars, srvVars, waitVars, race>>
           /\ OthersCall(p) /\ pc[p] = "idle" /\ Started(p)
           /\ \/ pc'[p] = "idle"
              \/ pc'[p] = "r_list" /\ call'[p] = e /\ tsk[e] = p /\ count[e] = 0
<1>1. /\ pc[p] = "idle" /\ Started(p)
      /\ UNCHANGED <<epVars, reg, nodeVars, srvVars, waitVars, race>>
      /\ \/ \E err \in Errors : Return(p, err)
         \/ tsk[e] = p /\ count[e] = 0 /\ Enter(p, e, "r_list")
  BY DEF Receive, Errors
<1>2. /\ CallTypes' /\ OthersCall(p)
      /\ \/ pc'[p] = "idle"
         \/ pc'[p] = "r_list" /\ call'[p] = e /\ tsk[e] = p /\ count[e] = 0
  BY <1>1, TypeGroups, ReturnFacts, EnterFacts, SMT DEF PCs, ReceivePCs
<1> QED BY <1>1, <1>2, TypeGroups, SameTypes

\* Entering __ipc_reply, or its refusal.
LEMMA ReplyFacts ==
    ASSUME TypeOK, NEW p \in Procs, NEW e \in Endpoints, Reply(p, e)
    PROVE  /\ TypeOK' /\ UNCHANGED <<epVars, reg, nodeVars, srvVars, waitVars, race>>
           /\ OthersCall(p) /\ pc[p] = "idle" /\ Started(p)
           /\ \/ pc'[p] = "idle"
              \/ pc'[p] = "p_del" /\ call'[p] = e /\ tsk[e] = p /\ count[e] # 0
<1>1. /\ pc[p] = "idle" /\ Started(p)
      /\ UNCHANGED <<epVars, reg, nodeVars, srvVars, waitVars, race>>
      /\ \/ \E err \in Errors : Return(p, err)
         \/ tsk[e] = p /\ count[e] # 0 /\ Enter(p, e, "p_del")
  BY DEF Reply, Errors
<1>2. /\ CallTypes' /\ OthersCall(p)
      /\ \/ pc'[p] = "idle"
         \/ pc'[p] = "p_del" /\ call'[p] = e /\ tsk[e] = p /\ count[e] # 0
  BY <1>1, TypeGroups, ReturnFacts, EnterFacts, SMT DEF PCs, ReplyPCs
<1> QED BY <1>1, <1>2, TypeGroups, SameTypes

\* The list_empty test of __ipc_receive.
LEMMA ReceiveListFacts ==
    ASSUME TypeOK, NEW p \in Procs, TaskInv(p), ReceiveList(p)
    PROVE  /\ TypeOK' /\ UNCHANGED <<tsk, list, count, reg, nodeVars, srvVars, waitVars, race>>
           /\ OthersCall(p) /\ pc[p] = "r_list" /\ call[p] \in Endpoints
           /\ call'[p] = call[p] /\ cur'[p] = cur[p] /\ buf'[p] = buf[p]
           /\ \/ pc'[p] = "r_first" /\ list[call[p]] # <<>> /\ UNCHANGED state
              \/ /\ pc'[p] = "r_wait" /\ list[call[p]] = <<>> /\ state'[call[p]] = "WAITTING"
                 /\ \A d \in Endpoints \ {call[p]} : state'[d] = state[d]
<1>1. /\ pc[p] = "r_list" /\ call[p] \in Endpoints /\ UNCHANGED <<call, cur, buf, ret>>
      /\ UNCHANGED <<tsk, list, count, reg, nodeVars, srvVars, waitVars, race>>
  BY DEF ReceiveList, TaskInv
<1>2. CallTypes /\ EpTypes /\ {"r_first", "r_wait"} \subseteq PCs
  BY TypeGroups DEF PCs, ReceivePCs
<1>3. CASE list[call[p]] = <<>>
  <2>1. state' = [state EXCEPT ![call[p]] = "WAITTING"] /\ Goto(p, "r_wait")
    BY <1>3 DEF ReceiveList
  <2>2. /\ EpTypes' /\ state'[call[p]] = "WAITTING"
        /\ \A d \in Endpoints \ {call[p]} : state'[d] = state[d]
    BY <1>1, <1>2, <2>1 DEF EpTypes, States
  <2>3. /\ CallTypes' /\ OthersCall(p) /\ pc'[p] = "r_wait"
        /\ call'[p] = call[p] /\ cur'[p] = cur[p] /\ buf'[p] = buf[p]
    BY <1>1, <1>2, <2>1, GotoFacts
  <2> QED BY <1>1, <1>3, <2>2, <2>3, TypeGroups, SameTypes
<1>4. CASE list[call[p]] # <<>>
  <2>1. UNCHANGED state /\ Goto(p, "r_first")
    BY <1>4 DEF ReceiveList
  <2>2. /\ CallTypes' /\ OthersCall(p) /\ pc'[p] = "r_first"
        /\ call'[p] = call[p] /\ cur'[p] = cur[p] /\ buf'[p] = buf[p]
    BY <1>1, <1>2, <2>1, GotoFacts
  <2> QED BY <1>1, <1>4, <2>1, <2>2, TypeGroups, SameTypes
<1> QED BY <1>3, <1>4

\* A round of the server's wait.
LEMMA ReceiveWaitFacts ==
    ASSUME TypeOK, NEW p \in Procs, TaskInv(p), ReceiveWait(p)
    PROVE  /\ TypeOK' /\ UNCHANGED <<epVars, reg, nodeVars, srvVars, race>>
           /\ OthersCall(p) /\ OthersWait(p) /\ call[p] \in Endpoints
           /\ call'[p] = call[p] /\ cur'[p] = cur[p] /\ buf'[p] = buf[p]
           /\ \/ /\ pc[p] \in {"r_wait", "r_wait_check"} /\ pc'[p] = "r_first"
                 /\ state[call[p]] = "RUNNING"
              \/ /\ pc[p] = "r_wait" /\ pc'[p] = "r_wait_check"
                 /\ tstate'[p] = "UNINT" /\ queue'[p] = EpWait(call[p])
              \/ /\ pc[p] = "r_wait_check" /\ pc'[p] = "r_wait_sched" /\ state[call[p]] # "RUNNING"
                 /\ tstate'[p] = tstate[p] /\ queue'[p] = queue[p]
              \/ /\ pc[p] = "r_wait_sched" /\ pc'[p] = "r_wait"
                 /\ tstate[p] = "RUNNING" /\ tstate'[p] = "RUNNING"
<1> DEFINE running == state[call[p]] = "RUNNING"
<1>0. UNCHANGED <<epVars, reg, nodeVars, srvVars, race>>
  BY DEF ReceiveWait
<1>1. Round(p, "r_wait", "r_wait_check", "r_wait_sched", "r_first", EpWait(call[p]), running)
  BY DEF ReceiveWait, Round
<1>2. pc[p] # "idle"
  BY <1>1 DEF Round, WaitFast, WaitPrepare, WaitTest, WaitWoken
<1>3. call[p] \in Endpoints /\ EpWait(call[p]) \in WaitQueues /\ running \in BOOLEAN
  BY <1>2, QueueFacts DEF TaskInv
<1>4. {"r_wait", "r_wait_check", "r_wait_sched", "r_first"} \subseteq PCs
  BY DEF PCs, ReceivePCs
<1> HIDE DEF running
<1>5. CallTypes /\ WaitTypes
  BY TypeGroups
<1>r. RoundDone(p, "r_wait", "r_wait_check", "r_wait_sched", "r_first", EpWait(call[p]), running)
  BY <1>1, <1>3, <1>4, <1>5, RoundFacts
<1>6. /\ CallTypes' /\ WaitTypes' /\ OthersCall(p) /\ OthersWait(p)
      /\ call'[p] = call[p] /\ cur'[p] = cur[p] /\ buf'[p] = buf[p]
      /\ \/ pc[p] \in {"r_wait", "r_wait_check"} /\ pc'[p] = "r_first" /\ running
         \/ /\ pc[p] = "r_wait" /\ pc'[p] = "r_wait_check"
            /\ tstate'[p] = "UNINT" /\ queue'[p] = EpWait(call[p])
         \/ /\ pc[p] = "r_wait_check" /\ pc'[p] = "r_wait_sched" /\ ~running
            /\ tstate'[p] = tstate[p] /\ queue'[p] = queue[p]
         \/ /\ pc[p] = "r_wait_sched" /\ pc'[p] = "r_wait"
            /\ tstate[p] = "RUNNING" /\ tstate'[p] = "RUNNING"
  BY <1>r DEF RoundDone
<1>7. TypeOK'
  BY <1>0, <1>6, TypeGroups, SameTypes
<1> QED BY <1>0, <1>3, <1>6, <1>7 DEF running

\* Reading the first request.
LEMMA ReceiveFirstFacts ==
    ASSUME TypeOK, NEW p \in Procs, TaskInv(p), ReceiveFirst(p)
    PROVE  /\ TypeOK' /\ UNCHANGED <<tsk, state, list, reg, nodeVars, waitVars, race>>
           /\ OthersCall(p) /\ OthersServe(p) /\ pc[p] = "r_first" /\ pc'[p] = "idle"
           /\ call[p] \in Endpoints /\ list[call[p]] # <<>> /\ Head(list[call[p]]) \in Nodes
           /\ rnode'[p] = Head(list[call[p]]) /\ rbuf'[p] = mess[Head(list[call[p]])]
           /\ count[call[p]] = 0 /\ count'[call[p]] = 1
           /\ \A d \in Endpoints \ {call[p]} : count'[d] = count[d]
<1> DEFINE e == call[p]
           n == Head(list[e])
<1>1. /\ pc[p] = "r_first" /\ rnode' = [rnode EXCEPT ![p] = n]
      /\ rbuf' = [rbuf EXCEPT ![p] = mess[n]] /\ count' = [count EXCEPT ![e] = @ + 1]
      /\ Return(p, "OK") /\ UNCHANGED <<tsk, state, list, reg, nodeVars, waitVars, race>>
  BY DEF ReceiveFirst
<1>2. e \in Endpoints /\ count[e] = 0 /\ list[e] # <<>>
  BY <1>1 DEF TaskInv, ReceivePCs
<1> HIDE DEF e
<1>3. n \in Nodes
  BY <1>2, ListFacts, TypeGroups DEF EpTypes
<1> HIDE DEF n
<1>4. mess[n] \in Message
  BY <1>3, TypeGroups DEF NodeTypes
<1>5. /\ SrvTypes' /\ OthersServe(p) /\ rnode'[p] = n /\ rbuf'[p] = mess[n]
  BY <1>1, <1>3, <1>4, TypeGroups DEF SrvTypes, OthersServe
<1>6. /\ EpTypes' /\ count'[e] = 1 /\ \A d \in Endpoints \ {e} : count'[d] = count[d]
  <2>1. count \in [Endpoints -> Nat]
    BY TypeGroups DEF EpTypes
  <2>2. /\ count' \in [Endpoints -> Nat] /\ count'[e] = 1
        /\ \A d \in Endpoints \ {e} : count'[d] = count[d]
    BY <1>1, <1>2, <2>1, SMT
  <2> QED BY <1>1, <2>2, TypeGroups DEF EpTypes
<1>7. CallTypes' /\ OthersCall(p) /\ pc'[p] = "idle"
  BY <1>1, TypeGroups, ReturnFacts DEF Errors
<1>8. TypeOK'
  BY <1>1, <1>5, <1>6, <1>7, TypeGroups, SameTypes
<1> QED BY <1>1, <1>2, <1>3, <1>5, <1>6, <1>7, <1>8 DEF e, n

\* Unlinking the first request.
LEMMA ReplyDelFacts ==
    ASSUME IInv, NEW p \in Procs, ReplyDel(p)
    PROVE  /\ TypeOK' /\ UNCHANGED <<tsk, state, count, reg, nodeVars, waitVars, race>>
           /\ OthersCall(p) /\ OthersServe(p) /\ pc[p] = "p_del" /\ pc'[p] = "p_finish"
           /\ call'[p] = call[p] /\ cur'[p] = cur[p] /\ buf'[p] = buf[p]
           /\ call[p] \in Endpoints /\ Owner[call[p]] = p /\ count[call[p]] = 1
           /\ list[call[p]] # <<>> /\ Head(list[call[p]]) \in Nodes
           /\ rnode[p] = Head(list[call[p]]) /\ rnode'[p] = rnode[p] /\ rbuf'[p] = rbuf[p]
           /\ list'[call[p]] = Tail(list[call[p]])
           /\ \A d \in Endpoints \ {call[p]} : list'[d] = list[d]
<1> DEFINE e == call[p]
           n == Head(list[e])
<1>1. /\ pc[p] = "p_del" /\ rnode' = [rnode EXCEPT ![p] = n]
      /\ list' = [list EXCEPT ![e] = Tail(@)] /\ Goto(p, "p_finish") /\ UNCHANGED rbuf
      /\ UNCHANGED <<tsk, state, count, reg, nodeVars, waitVars, race>>
      /\ UNCHANGED <<call, cur, buf, ret>>
  BY DEF ReplyDel
<1>2. TypeOK /\ TaskInv(p) /\ EndpointInv(e)
  BY <1>1 DEF IInv, TaskInv
<1>3. e \in Endpoints /\ Owner[e] = p /\ count[e] = 1
  BY <1>1, <1>2 DEF TaskInv, ReplyPCs
<1>4. list[e] # <<>> /\ n = rnode[p]
  BY <1>1, <1>2, <1>3 DEF EndpointInv, Replying
<1> HIDE DEF e
<1>5. n \in Nodes /\ Tail(list[e]) \in Seq(Nodes)
  BY <1>2, <1>3, <1>4, ListFacts, TypeGroups DEF EpTypes
<1> HIDE DEF n
<1>6. /\ EpTypes' /\ list'[e] = Tail(list[e]) /\ \A d \in Endpoints \ {e} : list'[d] = list[d]
  BY <1>1, <1>2, <1>3, <1>5, TypeGroups DEF EpTypes
<1>7. SrvTypes' /\ OthersServe(p) /\ rnode'[p] = n /\ rbuf'[p] = rbuf[p]
  BY <1>1, <1>2, <1>5, TypeGroups DEF SrvTypes, OthersServe
<1>8. /\ CallTypes' /\ OthersCall(p) /\ pc'[p] = "p_finish"
      /\ call'[p] = call[p] /\ cur'[p] = cur[p] /\ buf'[p] = buf[p]
  BY <1>1, <1>2, TypeGroups, GotoFacts DEF PCs, ReplyPCs
<1>9. TypeOK'
  BY <1>1, <1>2, <1>6, <1>7, <1>8, TypeGroups, SameTypes
<1> QED BY <1>1, <1>3, <1>4, <1>5, <1>6, <1>7, <1>8, <1>9 DEF e, n

\* Freeing a notification, or setting is_finish.
LEMMA ReplyFinishFacts ==
    ASSUME TypeOK, NEW p \in Procs, TaskInv(p), ReplyFinish(p)
    PROVE  /\ TypeOK' /\ UNCHANGED <<epVars, reg, srvVars, waitVars, race>>
           /\ OthersCall(p) /\ pc[p] = "p_finish" /\ rnode[p] \in Nodes
           /\ call'[p] = call[p] /\ cur'[p] = cur[p] /\ buf'[p] = buf[p]
           /\ \A m \in Nodes \ {rnode[p]} :
                 live'[m] = live[m] /\ finish'[m] = finish[m] /\ mess'[m] = mess[m]
           /\ \/ /\ mess[rnode[p]].notif /\ pc'[p] = "p_dec" /\ ~live'[rnode[p]]
                 /\ ~finish'[rnode[p]] /\ mess'[rnode[p]] = ZeroMessage
              \/ /\ ~mess[rnode[p]].notif /\ pc'[p] = "p_copy" /\ live'[rnode[p]] = live[rnode[p]]
                 /\ finish'[rnode[p]] /\ mess'[rnode[p]] = mess[rnode[p]]
<1> DEFINE n == rnode[p]
<1>1. /\ pc[p] = "p_finish" /\ n \in Nodes /\ UNCHANGED <<call, cur, buf, ret>>
      /\ UNCHANGED <<epVars, reg, srvVars, waitVars, race>>
      /\ IF mess[n].notif
         THEN FreeNode(n) /\ Goto(p, "p_dec")
         ELSE finish' = [finish EXCEPT ![n] = TRUE] /\ UNCHANGED <<live, mess>> /\ Goto(p, "p_copy")
  BY DEF ReplyFinish, TaskInv
<1> HIDE DEF n
<1>2. CallTypes /\ NodeTypes /\ {"p_dec", "p_copy"} \subseteq PCs
  BY TypeGroups DEF PCs, ReplyPCs
<1>3. CASE mess[n].notif
  <2>1. FreeNode(n) /\ Goto(p, "p_dec")
    BY <1>1, <1>3
  <2>2. /\ NodeTypes' /\ ~live'[n] /\ ~finish'[n] /\ mess'[n] = ZeroMessage
        /\ \A m \in Nodes \ {n} : live'[m] = live[m] /\ finish'[m] = finish[m] /\ mess'[m] = mess[m]
    BY <1>1, <1>2, <2>1, FreeFacts
  <2>3. /\ CallTypes' /\ OthersCall(p) /\ pc'[p] = "p_dec"
        /\ call'[p] = call[p] /\ cur'[p] = cur[p] /\ buf'[p] = buf[p]
    BY <1>1, <1>2, <2>1, GotoFacts
  <2>4. TypeOK'
    BY <1>1, <2>2, <2>3, TypeGroups, SameTypes
  <2> QED BY <1>1, <1>3, <2>2, <2>3, <2>4 DEF n
<1>4. CASE ~mess[n].notif
  <2>1. finish' = [finish EXCEPT ![n] = TRUE] /\ UNCHANGED <<live, mess>> /\ Goto(p, "p_copy")
    BY <1>1, <1>4
  <2>2. /\ NodeTypes' /\ live'[n] = live[n] /\ finish'[n] /\ mess'[n] = mess[n]
        /\ \A m \in Nodes \ {n} : live'[m] = live[m] /\ finish'[m] = finish[m] /\ mess'[m] = mess[m]
    BY <1>1, <1>2, <2>1 DEF NodeTypes
  <2>3. /\ CallTypes' /\ OthersCall(p) /\ pc'[p] = "p_copy"
        /\ call'[p] = call[p] /\ cur'[p] = cur[p] /\ buf'[p] = buf[p]
    BY <1>1, <1>2, <2>1, GotoFacts
  <2>4. TypeOK'
    BY <1>1, <2>2, <2>3, TypeGroups, SameTypes
  <2> QED BY <1>1, <1>4, <2>2, <2>3, <2>4 DEF n
<1> QED BY <1>3, <1>4

\* The memcpy of the answer.
LEMMA ReplyCopyFacts ==
    ASSUME TypeOK, NEW p \in Procs, TaskInv(p), ReplyCopy(p)
    PROVE  /\ TypeOK' /\ UNCHANGED <<epVars, reg, live, finish, srvVars, waitVars, race>>
           /\ OthersCall(p) /\ pc[p] = "p_copy" /\ pc'[p] = "p_wake" /\ rnode[p] \in Nodes
           /\ call'[p] = call[p] /\ cur'[p] = cur[p] /\ buf'[p] = buf[p]
           /\ mess'[rnode[p]].reply /\ mess'[rnode[p]].src = rbuf[p].src
           /\ mess'[rnode[p]].notif = rbuf[p].notif
           /\ \A m \in Nodes \ {rnode[p]} : mess'[m] = mess[m]
<1> DEFINE m == [rbuf[p] EXCEPT !.reply = TRUE]
<1>1. /\ pc[p] = "p_copy" /\ rnode[p] \in Nodes /\ mess' = [mess EXCEPT ![rnode[p]] = m]
      /\ Goto(p, "p_wake") /\ UNCHANGED <<call, cur, buf, ret>>
      /\ UNCHANGED <<epVars, reg, live, finish, srvVars, waitVars, race>>
  BY DEF ReplyCopy, TaskInv
<1>2. m \in Message /\ m.reply /\ m.src = rbuf[p].src /\ m.notif = rbuf[p].notif
  BY MessageFacts, TypeGroups DEF SrvTypes
<1> HIDE DEF m
<1>3. NodeTypes' /\ mess'[rnode[p]] = m /\ \A k \in Nodes \ {rnode[p]} : mess'[k] = mess[k]
  BY <1>1, <1>2, TypeGroups DEF NodeTypes
<1>4. /\ CallTypes' /\ OthersCall(p) /\ pc'[p] = "p_wake"
      /\ call'[p] = call[p] /\ cur'[p] = cur[p] /\ buf'[p] = buf[p]
  BY <1>1, TypeGroups, GotoFacts DEF PCs, ReplyPCs
<1>5. TypeOK'
  BY <1>1, <1>3, <1>4, TypeGroups, SameTypes
<1> QED BY <1>1, <1>2, <1>3, <1>4, <1>5

\* The wake_up() of the sender.
LEMMA ReplyWakeFacts ==
    ASSUME TypeOK, NEW p \in Procs, TaskInv(p), ReplyWake(p)
    PROVE  /\ TypeOK' /\ UNCHANGED <<epVars, reg, nodeVars, srvVars, race>>
           /\ OthersCall(p) /\ pc[p] = "p_wake" /\ pc'[p] = "p_dec" /\ rnode[p] \in Nodes
           /\ call'[p] = call[p] /\ cur'[p] = cur[p] /\ buf'[p] = buf[p]
           /\ \A t \in Procs : queue[t] = NodeWait(rnode[p]) => tstate'[t] = "RUNNING"
           /\ \A t \in Procs : queue[t] # NodeWait(rnode[p]) =>
                 tstate'[t] = tstate[t] /\ queue'[t] = queue[t]
<1>1. /\ pc[p] = "p_wake" /\ rnode[p] \in Nodes /\ WakeUp(NodeWait(rnode[p]))
      /\ Goto(p, "p_dec") /\ UNCHANGED <<call, cur, buf, ret>>
      /\ UNCHANGED <<epVars, reg, nodeVars, srvVars, race>>
  BY DEF ReplyWake, TaskInv
<1>2. /\ WaitTypes'
      /\ \A t \in Procs : queue[t] = NodeWait(rnode[p]) => tstate'[t] = "RUNNING"
      /\ \A t \in Procs : queue[t] # NodeWait(rnode[p]) =>
            tstate'[t] = tstate[t] /\ queue'[t] = queue[t]
  BY <1>1, WakeFacts, QueueFacts, TypeGroups
<1>3. /\ CallTypes' /\ OthersCall(p) /\ pc'[p] = "p_dec"
      /\ call'[p] = call[p] /\ cur'[p] = cur[p] /\ buf'[p] = buf[p]
  BY <1>1, TypeGroups, GotoFacts DEF PCs, ReplyPCs
<1>4. TypeOK'
  BY <1>1, <1>2, <1>3, TypeGroups, SameTypes
<1> QED BY <1>1, <1>2, <1>3, <1>4

\* The decrement of ipc_req_count.
LEMMA ReplyDecFacts ==
    ASSUME TypeOK, NEW p \in Procs, TaskInv(p), ReplyDec(p)
    PROVE  /\ TypeOK' /\ UNCHANGED <<tsk, state, list, reg, nodeVars, waitVars, race>>
           /\ OthersCall(p) /\ OthersServe(p) /\ pc[p] = "p_dec" /\ pc'[p] = "idle"
           /\ call[p] \in Endpoints /\ Owner[call[p]] = p /\ count'[call[p]] = 0
           /\ \A d \in Endpoints \ {call[p]} : count'[d] = count[d]
<1> DEFINE e == call[p]
<1>1. /\ pc[p] = "p_dec" /\ count' = [count EXCEPT ![e] = @ - 1]
      /\ rnode' = [rnode EXCEPT ![p] = None] /\ rbuf' = [rbuf EXCEPT ![p] = ZeroMessage]
      /\ Return(p, "OK") /\ UNCHANGED <<tsk, state, list, reg, nodeVars, waitVars, race>>
  BY DEF ReplyDec
<1>2. e \in Endpoints /\ Owner[e] = p /\ count[e] = 1
  BY <1>1 DEF TaskInv, ReplyPCs
<1> HIDE DEF e
<1>3. count \in [Endpoints -> Nat]
  BY TypeGroups DEF EpTypes
<1>4. /\ count' \in [Endpoints -> Nat] /\ count'[e] = 0
      /\ \A d \in Endpoints \ {e} : count'[d] = count[d]
  BY <1>1, <1>2, <1>3, SMT
<1>5. EpTypes'
  BY <1>1, <1>4, TypeGroups DEF EpTypes
<1>6. SrvTypes' /\ OthersServe(p)
  BY <1>1, MessageFacts, TypeGroups DEF SrvTypes, OthersServe
<1>7. CallTypes' /\ OthersCall(p) /\ pc'[p] = "idle"
  BY <1>1, TypeGroups, ReturnFacts DEF Errors
<1>8. TypeOK'
  BY <1>1, <1>5, <1>6, <1>7, TypeGroups, SameTypes
<1> QED BY <1>1, <1>2, <1>4, <1>6, <1>7, <1>8 DEF e

\* The three stores of ipc_register_endpoint_by_tsk: they touch no task's locals.
LEMMA RegisterFacts ==
    ASSUME TypeOK, NEW e \in Endpoints, Register(e)
    PROVE  /\ TypeOK' /\ UNCHANGED <<list, count, nodeVars, callVars, srvVars, race>>
           /\ \A d \in Endpoints : reg[d] = "done" => reg'[d] = "done"
           /\ \A d \in Endpoints \ {e} : state'[d] = state[d] /\ tsk'[d] = tsk[d]
           /\ tsk'[e] \in {tsk[e], Owner[e]}
           /\ state'[e] = state[e] \/ (reg[e] # "done" /\ state'[e] = "RUNNING")
           /\ \A t \in Procs : \/ tstate'[t] = tstate[t] /\ queue'[t] = queue[t]
                               \/ tstate'[t] = "RUNNING"
<1>1. UNCHANGED <<list, count, nodeVars, callVars, srvVars, race>>
  BY DEF Register, RegisterTsk, RegisterState, RegisterWake
<1>2. CASE RegisterTsk(e)
  <2>1. /\ tsk' = [tsk EXCEPT ![e] = Owner[e]] /\ reg' = [reg EXCEPT ![e] = "state"]
        /\ reg[e] = "none" /\ UNCHANGED <<state, waitVars>>
    BY <1>2 DEF RegisterTsk
  <2>2. /\ RegTypes' /\ \A d \in Endpoints : reg[d] = "done" => reg'[d] = "done"
    BY <2>1, TypeGroups DEF RegTypes
  <2>3. EpTypes' /\ tsk'[e] = Owner[e] /\ \A d \in Endpoints \ {e} : tsk'[d] = tsk[d]
    BY <1>1, <2>1, IpcAssumption, TypeGroups DEF EpTypes
  <2>4. TypeOK'
    BY <1>1, <2>1, <2>2, <2>3, TypeGroups, SameTypes
  <2> QED BY <1>1, <2>1, <2>2, <2>3, <2>4
<1>3. CASE RegisterState(e)
  <2>1. /\ state' = [state EXCEPT ![e] = "RUNNING"] /\ reg' = [reg EXCEPT ![e] = "wake"]
        /\ reg[e] = "state" /\ UNCHANGED <<tsk, waitVars>>
    BY <1>3 DEF RegisterState
  <2>2. /\ RegTypes' /\ \A d \in Endpoints : reg[d] = "done" => reg'[d] = "done"
    BY <2>1, TypeGroups DEF RegTypes
  <2>3. EpTypes' /\ state'[e] = "RUNNING" /\ \A d \in Endpoints \ {e} : state'[d] = state[d]
    BY <1>1, <2>1, TypeGroups DEF EpTypes, States
  <2>4. TypeOK'
    BY <1>1, <2>1, <2>2, <2>3, TypeGroups, SameTypes
  <2> QED BY <1>1, <2>1, <2>2, <2>3, <2>4
<1>4. CASE RegisterWake(e)
  <2>1. /\ reg' = [reg EXCEPT ![e] = "done"] /\ WakeUp(EpWait(e)) /\ UNCHANGED epVars
    BY <1>4 DEF RegisterWake
  <2>2. /\ RegTypes' /\ \A d \in Endpoints : reg[d] = "done" => reg'[d] = "done"
    BY <2>1, TypeGroups DEF RegTypes
  <2>3. /\ WaitTypes'
        /\ \A t \in Procs : \/ tstate'[t] = tstate[t] /\ queue'[t] = queue[t]
                            \/ tstate'[t] = "RUNNING"
    BY <2>1, WakeFacts, QueueFacts, TypeGroups
  <2>4. TypeOK'
    BY <1>1, <2>1, <2>2, <2>3, TypeGroups, SameTypes
  <2> QED BY <1>1, <2>1, <2>2, <2>3, <2>4
<1> QED BY <1>2, <1>3, <1>4 DEF Register

-----------------------------------------------------------------------------
(* Every step preserves the invariant.                                     *)

\* The invariant holds at boot.
LEMMA InitIInv == Init => IInv
<1> SUFFICES ASSUME Init PROVE IInv
  OBVIOUS
<1>1. TypeOK
  <2>1. list \in [Endpoints -> Seq(Nodes)] /\ mess \in [Nodes -> Message]
        /\ buf \in [Procs -> Message] /\ rbuf \in [Procs -> Message]
    BY MessageFacts, SMT DEF Init
  <2> QED BY <2>1 DEF Init, TypeOK, PCs, States, Errors
<1>2. ASSUME NEW p \in Procs PROVE TaskInv(p)
  BY DEF Init, TaskInv, NodePCs, ReceivePCs, ReplyPCs, WaitingPCs
<1>3. ASSUME NEW e \in Endpoints PROVE EndpointInv(e)
  BY SMT DEF Init, EndpointInv
<1> QED BY <1>1, <1>2, <1>3 DEF IInv

\* A step of a task that leaves the endpoints alone and is not inside
\* __ipc_reply after its unlinking, before or after.
LEMMA OutsideStep ==
    ASSUME IInv, TypeOK', NEW p \in Procs, UNCHANGED <<epVars, reg, rnode>>, OthersCall(p),
           ~Replying(p), ~Replying(p)', TaskInv(p)'
    PROVE  IInv'
<1>1. ASSUME NEW q \in Procs, q # p PROVE TaskInv(q)'
  <2>1. pc'[q] = pc[q] /\ call'[q] = call[q] /\ cur'[q] = cur[q] /\ rnode'[q] = rnode[q]
    BY <1>1 DEF OthersCall
  <2>2. TaskInv(q)
    BY DEF IInv
  <2> QED BY <2>1, <2>2 DEF TaskInv, Started
<1>2. ASSUME NEW d \in Endpoints PROVE EndpointInv(d)'
  <2>1. Owner[d] \in Procs /\ EndpointInv(d)
    BY IpcAssumption DEF IInv
  <2>2. Replying(Owner[d])' <=> Replying(Owner[d])
    BY <2>1 DEF OthersCall, Replying
  <2> QED BY <2>1, <2>2 DEF EndpointInv
<1> QED BY <1>1, <1>2 DEF IInv

\* A step of the server p of endpoint e that leaves the other endpoints alone.
LEMMA ServerStep ==
    ASSUME IInv, TypeOK', NEW p \in Procs, NEW e \in Endpoints, Owner[e] = p,
           UNCHANGED <<tsk, reg>>, OthersCall(p), OthersServe(p),
           \A d \in Endpoints \ {e} : list'[d] = list[d] /\ state'[d] = state[d] /\ count'[d] = count[d],
           TaskInv(p)', EndpointInv(e)'
    PROVE  IInv'
<1>1. ASSUME NEW q \in Procs, q # p PROVE TaskInv(q)'
  <2>1. pc'[q] = pc[q] /\ call'[q] = call[q] /\ cur'[q] = cur[q] /\ rnode'[q] = rnode[q]
    BY <1>1 DEF OthersCall, OthersServe
  <2>2. TaskInv(q)
    BY DEF IInv
  <2>3. pc[q] \in ReceivePCs \cup ReplyPCs => call[q] \in Endpoints \ {e}
    BY <1>1, <2>2 DEF TaskInv, ReceivePCs, ReplyPCs
  <2>4. pc[q] \in WaitingPCs \cup {"r_first"} => pc[q] \in ReceivePCs
    BY DEF WaitingPCs, ReceivePCs
  <2> QED BY <2>1, <2>2, <2>3, <2>4, SMT DEF TaskInv, Started
<1>2. ASSUME NEW d \in Endpoints, d # e PROVE EndpointInv(d)'
  <2>1. Owner[d] \in Procs \ {p} /\ EndpointInv(d)
    BY <1>2, IpcAssumption DEF IInv
  <2>2. (Replying(Owner[d])' <=> Replying(Owner[d])) /\ rnode'[Owner[d]] = rnode[Owner[d]]
    BY <2>1 DEF OthersCall, OthersServe, Replying
  <2> QED BY <1>2, <2>1, <2>2 DEF EndpointInv
<1> QED BY <1>1, <1>2 DEF IInv

\* The steps of ipc_register_endpoint_by_tsk: no server waits on an endpoint that
\* is still being registered.
LEMMA RegisterIInv ==
    ASSUME IInv, NEW e \in Endpoints, Register(e)
    PROVE  IInv'
<1>1. /\ TypeOK' /\ UNCHANGED <<list, count, nodeVars, callVars, srvVars, race>>
      /\ \A d \in Endpoints : reg[d] = "done" => reg'[d] = "done"
      /\ \A d \in Endpoints \ {e} : state'[d] = state[d] /\ tsk'[d] = tsk[d]
      /\ tsk'[e] \in {tsk[e], Owner[e]}
      /\ state'[e] = state[e] \/ reg[e] # "done"
  BY RegisterFacts DEF IInv
<1>2. ASSUME NEW q \in Procs PROVE TaskInv(q)'
  <2>1. TaskInv(q)
    BY DEF IInv
  <2>2. Started(q) => Started(q)'
    BY <1>1 DEF Started
  <2>3. pc[q] \in WaitingPCs => call[q] \in Endpoints /\ state'[call[q]] = state[call[q]]
    BY <1>1, <2>1 DEF TaskInv, WaitingPCs, ReceivePCs, Started
  <2> QED BY <1>1, <2>1, <2>2, <2>3 DEF TaskInv
<1>3. ASSUME NEW d \in Endpoints PROVE EndpointInv(d)'
  <2>1. EndpointInv(d) /\ tsk'[d] \in {tsk[d], Owner[d]}
    BY <1>1 DEF IInv
  <2> QED BY <1>1, <2>1 DEF EndpointInv, Replying
<1> QED BY <1>1, <1>2, <1>3 DEF IInv

\* The steps of __ipc_send up to the allocation, and its last ones.
LEMMA SendIInv ==
    ASSUME IInv, NEW p \in Procs,
           \/ SendAwaitServer(p) \/ SendTimeout(p) \/ SendAlloc(p) \/ SendWake(p)
           \/ SendAwaitReply(p) \/ SendCopy(p) \/ SendFree(p)
    PROVE  IInv'
<1>0. TypeOK /\ TaskInv(p)
  BY DEF IInv
<1>1. CASE SendAwaitServer(p)
  <2>1. /\ TypeOK' /\ UNCHANGED <<epVars, reg, srvVars>> /\ OthersCall(p) /\ call'[p] = call[p]
        /\ pc[p] \in {"s_reg", "s_reg_check", "s_reg_sched"}
        /\ pc'[p] \in {"s_reg", "s_reg_check", "s_reg_sched", "s_alloc"}
    BY <1>0, <1>1, SendAwaitServerFacts
  <2>2. TaskInv(p)' /\ ~Replying(p) /\ ~Replying(p)'
    BY <1>0, <2>1 DEF TaskInv, Started, Replying, NodePCs, ReceivePCs, ReplyPCs, WaitingPCs
  <2> QED BY <2>1, <2>2, OutsideStep
<1>2. CASE SendTimeout(p)
  <2>1. /\ TypeOK' /\ UNCHANGED <<epVars, reg, srvVars>> /\ OthersCall(p)
        /\ pc[p] = "s_reg_sched" /\ pc'[p] = "idle"
    BY <1>0, <1>2, SendTimeoutFacts
  <2>2. TaskInv(p)' /\ ~Replying(p) /\ ~Replying(p)'
    BY <2>1 DEF TaskInv, Replying, NodePCs, ReceivePCs, ReplyPCs, WaitingPCs
  <2> QED BY <2>1, <2>2, OutsideStep
<1>3. CASE SendAlloc(p)
  <2>1. /\ TypeOK' /\ UNCHANGED <<epVars, reg, srvVars>> /\ OthersCall(p) /\ pc[p] = "s_alloc"
        /\ pc'[p] = "idle" \/ (pc'[p] = "s_enqueue" /\ cur'[p] \in Nodes /\ call'[p] = call[p])
    BY <1>0, <1>3, SendAllocFacts, SMT
  <2>2. TaskInv(p)' /\ ~Replying(p) /\ ~Replying(p)'
    BY <1>0, <2>1 DEF TaskInv, Started, Replying, NodePCs, ReceivePCs, ReplyPCs, WaitingPCs
  <2> QED BY <2>1, <2>2, OutsideStep
<1>4. CASE SendWake(p)
  <2>1. /\ TypeOK' /\ UNCHANGED <<epVars, reg, srvVars>> /\ OthersCall(p) /\ pc[p] = "s_wake"
        /\ pc'[p] = "idle" \/ (pc'[p] = "s_wait" /\ cur'[p] = cur[p] /\ call'[p] = call[p])
    BY <1>0, <1>4, SendWakeFacts
  <2>2. TaskInv(p)' /\ ~Replying(p) /\ ~Replying(p)'
    BY <1>0, <2>1 DEF TaskInv, Started, Replying, NodePCs, ReceivePCs, ReplyPCs, WaitingPCs
  <2> QED BY <2>1, <2>2, OutsideStep
<1>5. CASE SendAwaitReply(p)
  <2>1. /\ TypeOK' /\ UNCHANGED <<epVars, reg, srvVars>> /\ OthersCall(p)
        /\ cur[p] \in Nodes /\ cur'[p] = cur[p] /\ call'[p] = call[p]
        /\ pc[p] \in {"s_wait", "s_wait_check", "s_wait_sched"}
        /\ pc'[p] \in {"s_wait", "s_wait_check", "s_wait_sched", "s_copy"}
    BY <1>0, <1>5, SendAwaitReplyFacts
  <2>2. TaskInv(p)' /\ ~Replying(p) /\ ~Replying(p)'
    BY <1>0, <2>1 DEF TaskInv, Started, Replying, NodePCs, ReceivePCs, ReplyPCs, WaitingPCs
  <2> QED BY <2>1, <2>2, OutsideStep
<1>6. CASE SendCopy(p)
  <2>1. /\ TypeOK' /\ UNCHANGED <<epVars, reg, srvVars>> /\ OthersCall(p)
        /\ cur[p] \in Nodes /\ cur'[p] = cur[p] /\ call'[p] = call[p]
        /\ pc[p] = "s_copy" /\ pc'[p] = "s_free"
    BY <1>0, <1>6, SendCopyFacts
  <2>2. TaskInv(p)' /\ ~Replying(p) /\ ~Replying(p)'
    BY <1>0, <2>1 DEF TaskInv, Started, Replying, NodePCs, ReceivePCs, ReplyPCs, WaitingPCs
  <2> QED BY <2>1, <2>2, OutsideStep
<1>7. CASE SendFree(p)
  <2>1. /\ TypeOK' /\ UNCHANGED <<epVars, reg, srvVars>> /\ OthersCall(p)
        /\ pc[p] = "s_free" /\ pc'[p] = "idle"
    BY <1>0, <1>7, SendFreeFacts
  <2>2. TaskInv(p)' /\ ~Replying(p) /\ ~Replying(p)'
    BY <2>1 DEF TaskInv, Replying, NodePCs, ReceivePCs, ReplyPCs, WaitingPCs
  <2> QED BY <2>1, <2>2, OutsideStep
<1> QED BY <1>1, <1>2, <1>3, <1>4, <1>5, <1>6, <1>7

\* list_add_tail: the head of the list is only new if there was none.
LEMMA SendEnqueueIInv ==
    ASSUME IInv, NEW p \in Procs, SendEnqueue(p)
    PROVE  IInv'
<1> DEFINE e == call[p]
<1>0. TypeOK /\ TaskInv(p)
  BY DEF IInv
<1>1. /\ TypeOK' /\ UNCHANGED <<tsk, count, reg, srvVars>> /\ OthersCall(p)
      /\ pc[p] = "s_enqueue" /\ e \in Endpoints /\ cur[p] \in Nodes
      /\ list'[e] = Append(list[e], cur[p])
      /\ \A d \in Endpoints \ {e} : list'[d] = list[d] /\ state'[d] = state[d]
      /\ \/ pc'[p] \in {"s_wake", "s_wait"} /\ call'[p] = call[p] /\ cur'[p] = cur[p]
         \/ pc'[p] = "idle"
  BY <1>0, SendEnqueueFacts
<1>2. list \in [Endpoints -> Seq(Nodes)]
  BY <1>0, TypeGroups DEF EpTypes
<1> HIDE DEF e
<1>3. ASSUME NEW d \in Endpoints
      PROVE  /\ list[d] # <<>> => list'[d] # <<>> /\ Head(list'[d]) = Head(list[d])
             /\ state'[d] = state[d] \/ list'[d] # <<>>
  <2>1. CASE d = e
    <3>1. list[e] \in Seq(Nodes)
      BY <1>1, <1>2
    <3>2. list'[e] # <<>> /\ (list[e] # <<>> => Head(list'[e]) = Head(list[e]))
      BY <1>1, <3>1, ListFacts
    <3> QED BY <2>1, <3>2
  <2>2. CASE d # e
    BY <1>1, <2>2
  <2> QED BY <2>1, <2>2
<1>4. TaskInv(p)' /\ ~Replying(p) /\ ~Replying(p)'
  BY <1>0, <1>1 DEF TaskInv, Started, Replying, NodePCs, ReceivePCs, ReplyPCs, WaitingPCs
<1>5. ASSUME NEW q \in Procs, q # p PROVE TaskInv(q)'
  <2>1. pc'[q] = pc[q] /\ call'[q] = call[q] /\ cur'[q] = cur[q] /\ rnode'[q] = rnode[q]
    BY <1>1, <1>5 DEF OthersCall
  <2>2. TaskInv(q)
    BY DEF IInv
  <2>3. pc[q] \in WaitingPCs \cup {"r_first"} => pc[q] # "idle"
    BY DEF WaitingPCs
  <2> QED BY <1>1, <1>3, <2>1, <2>2, <2>3 DEF TaskInv, Started
<1>6. ASSUME NEW d \in Endpoints PROVE EndpointInv(d)'
  <2>1. Owner[d] \in Procs /\ EndpointInv(d)
    BY IpcAssumption DEF IInv
  <2>2. Replying(Owner[d])' <=> Replying(Owner[d])
    BY <1>1, <1>4, <2>1 DEF OthersCall, Replying
  <2> QED BY <1>1, <1>3, <2>1, <2>2 DEF EndpointInv
<1> QED BY <1>1, <1>4, <1>5, <1>6 DEF IInv

\* A new system call, or its refusal.
LEMMA IssueIInv ==
    ASSUME IInv, NEW p \in Procs, NEW e \in Endpoints, Issue(p, e)
    PROVE  IInv'
<1>0. TypeOK /\ TaskInv(p) /\ EndpointInv(e)
  BY DEF IInv
<1>1. CASE \E notif \in BOOLEAN : Send(p, e, notif)
  <2>1. /\ TypeOK' /\ UNCHANGED <<epVars, reg, srvVars>> /\ OthersCall(p) /\ call'[p] = e
        /\ pc[p] = "idle" /\ Started(p) /\ pc'[p] \in {"s_reg", "s_alloc"}
    BY <1>0, <1>1, SendFacts
  <2>2. TaskInv(p)' /\ ~Replying(p) /\ ~Replying(p)'
    BY <2>1 DEF TaskInv, Started, Replying, NodePCs, ReceivePCs, ReplyPCs, WaitingPCs
  <2> QED BY <2>1, <2>2, OutsideStep
<1>2. CASE Receive(p, e)
  <2>1. /\ TypeOK' /\ UNCHANGED <<epVars, reg, srvVars>> /\ OthersCall(p)
        /\ pc[p] = "idle" /\ Started(p)
        /\ pc'[p] = "idle" \/ (pc'[p] = "r_list" /\ call'[p] = e /\ tsk[e] = p /\ count[e] = 0)
    BY <1>0, <1>2, ReceiveFacts
  <2>2. tsk[e] = p => Owner[e] = p
    BY <1>0, IpcAssumption DEF EndpointInv
  <2>3. TaskInv(p)' /\ ~Replying(p) /\ ~Replying(p)'
    BY <2>1, <2>2 DEF TaskInv, Started, Replying, NodePCs, ReceivePCs, ReplyPCs, WaitingPCs
  <2> QED BY <2>1, <2>3, OutsideStep
<1>3. CASE Reply(p, e)
  <2>1. /\ TypeOK' /\ UNCHANGED <<epVars, reg, srvVars>> /\ OthersCall(p)
        /\ pc[p] = "idle" /\ Started(p)
        /\ pc'[p] = "idle" \/ (pc'[p] = "p_del" /\ call'[p] = e /\ tsk[e] = p /\ count[e] # 0)
    BY <1>0, <1>3, ReplyFacts
  <2>2. (tsk[e] = p => Owner[e] = p) /\ (count[e] # 0 => count[e] = 1)
    <3>1. count[e] \in Nat /\ count[e] <= 1
      BY <1>0, TypeGroups DEF EpTypes, EndpointInv
    <3> QED BY <1>0, <3>1, IpcAssumption, SMT DEF EndpointInv
  <2>3. TaskInv(p)' /\ ~Replying(p) /\ ~Replying(p)'
    BY <2>1, <2>2 DEF TaskInv, Started, Replying, NodePCs, ReceivePCs, ReplyPCs, WaitingPCs
  <2> QED BY <2>1, <2>3, OutsideStep
<1> QED BY <1>1, <1>2, <1>3 DEF Issue

\* The steps of __ipc_receive: a server leaves its wait with EP_STATE_RUNNING,
\* that is with a request in its list.
LEMMA ReceiveIInv ==
    ASSUME IInv, NEW p \in Procs, ReceiveStep(p)
    PROVE  IInv'
<1>0. TypeOK /\ TaskInv(p)
  BY DEF IInv
<1>e. call[p] \in Endpoints
  BY <1>0, ReceiveListFacts, ReceiveWaitFacts, ReceiveFirstFacts DEF ReceiveStep
<1>p. PICK e \in Endpoints : e = call[p]
  BY <1>e
<1>1. CASE ReceiveList(p)
  <2>1. /\ TypeOK' /\ UNCHANGED <<tsk, list, count, reg, srvVars>> /\ OthersCall(p)
        /\ pc[p] = "r_list" /\ e \in Endpoints /\ call'[p] = e
        /\ \/ pc'[p] = "r_first" /\ list[e] # <<>> /\ UNCHANGED state
           \/ /\ pc'[p] = "r_wait" /\ state'[e] = "WAITTING"
              /\ \A d \in Endpoints \ {e} : state'[d] = state[d]
    BY <1>0, <1>p, <1>1, ReceiveListFacts
  <2>2. Owner[e] = p /\ count[e] = 0 /\ Started(p) /\ EndpointInv(e)
    BY <1>0, <1>p, <2>1 DEF TaskInv, ReceivePCs, IInv
  <2>3. TaskInv(p)'
    BY <2>1, <2>2 DEF TaskInv, Started, NodePCs, ReceivePCs, ReplyPCs, WaitingPCs
  <2>4. EndpointInv(e)'
    BY <2>1, <2>2, SMT DEF EndpointInv
  <2>5. /\ UNCHANGED <<tsk, reg>> /\ OthersServe(p)
        /\ \A d \in Endpoints \ {e} : list'[d] = list[d] /\ state'[d] = state[d] /\ count'[d] = count[d]
    BY <2>1, ServeSame
  <2> QED BY <2>1, <2>2, <2>3, <2>4, <2>5, ServerStep
<1>2. CASE ReceiveWait(p)
  <2>1. /\ TypeOK' /\ UNCHANGED <<epVars, reg, srvVars>> /\ OthersCall(p)
        /\ e \in Endpoints /\ call'[p] = e /\ pc[p] \in WaitingPCs
        /\ pc'[p] \in WaitingPCs \/ (pc'[p] = "r_first" /\ state[e] = "RUNNING")
    BY <1>0, <1>p, <1>2, ReceiveWaitFacts DEF WaitingPCs
  <2>2. /\ Owner[e] = p /\ count[e] = 0 /\ Started(p)
        /\ state[e] = "WAITTING" \/ list[e] # <<>>
    BY <1>0, <1>p, <2>1 DEF TaskInv, ReceivePCs, WaitingPCs
  <2>3. TaskInv(p)' /\ ~Replying(p) /\ ~Replying(p)'
    BY <2>1, <2>2 DEF TaskInv, Started, Replying, NodePCs, ReceivePCs, ReplyPCs, WaitingPCs
  <2> QED BY <2>1, <2>3, OutsideStep
<1>3. CASE ReceiveFirst(p)
  <2>1. /\ TypeOK' /\ UNCHANGED <<tsk, state, list, reg>> /\ OthersCall(p) /\ OthersServe(p)
        /\ pc[p] = "r_first" /\ pc'[p] = "idle" /\ e \in Endpoints /\ list[e] # <<>>
        /\ rnode'[p] = Head(list[e]) /\ count'[e] = 1
        /\ \A d \in Endpoints \ {e} : count'[d] = count[d]
    BY <1>0, <1>p, <1>3, ReceiveFirstFacts
  <2>2. Owner[e] = p /\ EndpointInv(e)
    BY <1>0, <1>p, <2>1 DEF TaskInv, ReceivePCs, IInv
  <2>3. TaskInv(p)'
    BY <2>1 DEF TaskInv, NodePCs, ReceivePCs, ReplyPCs, WaitingPCs
  <2>4. EndpointInv(e)'
    BY <2>1, <2>2, SMT DEF EndpointInv
  <2>5. \A d \in Endpoints \ {e} : list'[d] = list[d] /\ state'[d] = state[d] /\ count'[d] = count[d]
    BY <2>1
  <2> QED BY <2>1, <2>2, <2>3, <2>4, <2>5, ServerStep
<1> QED BY <1>1, <1>2, <1>3 DEF ReceiveStep

\* The steps of __ipc_reply.
LEMMA ReplyIInv ==
    ASSUME IInv, NEW p \in Procs, ReplyStep(p)
    PROVE  IInv'
<1>0. TypeOK /\ TaskInv(p)
  BY DEF IInv
<1>e. call[p] \in Endpoints /\ Owner[call[p]] = p /\ Started(p) /\ count[call[p]] = 1
  <2>1. pc[p] \in ReplyPCs
    BY DEF ReplyStep, ReplyDel, ReplyFinish, ReplyCopy, ReplyWake, ReplyDec, ReplyPCs
  <2> QED BY <1>0, <2>1 DEF TaskInv, ReplyPCs
<1>p. PICK e \in Endpoints : e = call[p]
  BY <1>e
<1>q. e \in Endpoints /\ Owner[e] = p /\ Started(p) /\ count[e] = 1 /\ EndpointInv(e)
  BY <1>e, <1>p DEF IInv
<1>1. /\ TypeOK' /\ UNCHANGED <<tsk, reg>> /\ OthersCall(p) /\ OthersServe(p)
      /\ \A d \in Endpoints \ {e} : list'[d] = list[d] /\ state'[d] = state[d] /\ count'[d] = count[d]
      /\ \/ /\ pc'[p] \in {"p_finish", "p_copy", "p_wake", "p_dec"} /\ call'[p] = e
            /\ count'[e] = 1
            /\ pc'[p] \in {"p_finish", "p_copy", "p_wake"} => rnode'[p] \in Nodes
         \/ pc'[p] = "idle" /\ count'[e] = 0
  <2>1. CASE ReplyDel(p)
    <3>1. /\ TypeOK' /\ UNCHANGED <<tsk, state, count, reg>> /\ OthersCall(p) /\ OthersServe(p)
          /\ pc'[p] = "p_finish" /\ call'[p] = call[p] /\ rnode'[p] \in Nodes
          /\ \A d \in Endpoints \ {call[p]} : list'[d] = list[d]
      BY <2>1, ReplyDelFacts, SMT
    <3> QED BY <1>p, <1>q, <3>1
  <2>2. CASE ReplyFinish(p)
    BY <1>0, <1>p, <1>q, <2>2, ReplyFinishFacts, ServeSame
  <2>3. CASE ReplyCopy(p)
    BY <1>0, <1>p, <1>q, <2>3, ReplyCopyFacts, ServeSame
  <2>4. CASE ReplyWake(p)
    BY <1>0, <1>p, <1>q, <2>4, ReplyWakeFacts, ServeSame
  <2>5. CASE ReplyDec(p)
    BY <1>0, <1>p, <1>q, <2>5, ReplyDecFacts
  <2> QED BY <2>1, <2>2, <2>3, <2>4, <2>5 DEF ReplyStep
<1>2. TaskInv(p)'
  BY <1>q, <1>1 DEF TaskInv, Started, NodePCs, ReceivePCs, ReplyPCs, WaitingPCs
<1>3. EndpointInv(e)'
  BY <1>q, <1>1, SMT DEF EndpointInv, Replying
<1> QED BY <1>q, <1>1, <1>2, <1>3, ServerStep

\* Every step preserves the invariant.
LEMMA NextIInv == IInv /\ [Next]_vars => IInv'
<1> SUFFICES ASSUME IInv, [Next]_vars PROVE IInv'
  OBVIOUS
<1>1. CASE UNCHANGED vars
  <2>1. TypeOK'
    BY <1>1, TypeGroups, SameTypes DEF IInv, vars
  <2>2. ASSUME NEW p \in Procs PROVE TaskInv(p)'
    BY <1>1 DEF IInv, TaskInv, Started, vars
  <2>3. ASSUME NEW e \in Endpoints PROVE EndpointInv(e)'
    BY <1>1 DEF IInv, EndpointInv, Replying, vars
  <2> QED BY <2>1, <2>2, <2>3 DEF IInv
<1>2. ASSUME NEW p \in Procs, Step(p) PROVE IInv'
  BY <1>2, SendIInv, SendEnqueueIInv, ReceiveIInv, ReplyIInv DEF Step, SendStep
<1> QED BY <1>1, <1>2, RegisterIInv, IssueIInv DEF Next

\* What the theorems take from the invariant.
LEMMA IInvFacts == IInv => TypeOK /\ ReceiveFindsRequest /\ ReplyGoesToReceived
<1> SUFFICES ASSUME IInv PROVE TypeOK /\ ReceiveFindsRequest /\ ReplyGoesToReceived
  OBVIOUS
<1>1. TypeOK /\ ReceiveFindsRequest
  BY DEF IInv, TaskInv, ReceiveFindsRequest
<1>2. ReplyGoesToReceived
  BY DEF IInv, EndpointInv, ReplyGoesToReceived
<1> QED BY <1>1, <1>2

\* Type correctness, for any number of tasks, endpoints and heap nodes.
THEOREM TypeCorrect == Spec => []TypeOK
BY InitIInv, NextIInv, IInvFacts, PTL DEF Spec

\* A server that __ipc_receive lets out of its wait finds a request in the
\* list whose head it reads without a check.
THEOREM ReceiveSafe == Spec => []ReceiveFindsRequest
BY InitIInv, NextIInv, IInvFacts, PTL DEF Spec

\* The first entry that __ipc_reply unlinks is the one __ipc_receive handed to
\* the server, however many sends interleave; ipc_req_count is 0 or 1.
THEOREM ReplySafe == Spec => []ReplyGoesToReceived
BY InitIInv, NextIInv, IInvFacts, PTL DEF Spec
=============================================================================
