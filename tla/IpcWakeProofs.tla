---------------------------- MODULE IpcWakeProofs ----------------------------
(***************************************************************************)
(* No wake-up of the IPC code is lost, for any number of tasks, endpoints  *)
(* and heap nodes: a sender never sleeps on an answered request and a      *)
(* server never sleeps on a request that is queued, unless somebody is     *)
(* still on the way to wake them.                                          *)
(***************************************************************************)
EXTENDS IpcProofs

\* A task that sleeps is linked on the queue it waits for.  A server that waits
\* found its endpoint registered; if it sleeps in EP_STATE_RUNNING the sender
\* that set this state has yet to wake it.
SleepInv(p) ==
    /\ pc[p] \in {"s_wait_check", "s_wait_sched"} /\ tstate[p] = "UNINT"
          => queue[p] = NodeWait(cur[p])
    /\ pc[p] \in {"r_wait_check", "r_wait_sched"} /\ tstate[p] = "UNINT"
          => queue[p] = EpWait(call[p])
    /\ pc[p] \in WaitingPCs => state[call[p]] # "NONE"
    /\ pc[p] = "r_wait_sched" /\ tstate[p] = "UNINT" /\ state[call[p]] = "RUNNING"
          => \E q \in Procs : pc[q] = "s_wake" /\ call[q] = call[p]
    /\ pc[p] = "s_wait_sched" /\ tstate[p] = "UNINT" /\ finish[cur[p]]
          => InReplyWindow(cur[p])

\* EP_STATE_WAITTING means that there is nothing to read.
EmptyInv(e) == state[e] = "WAITTING" => list[e] = <<>>

WakeInv == (\A p \in Procs : SleepInv(p)) /\ (\A e \in Endpoints : EmptyInv(e))

USE DEF epVars, nodeVars, callVars, srvVars, waitVars

InWindow(s) == pc[s] \in {"p_copy", "p_wake"}

-----------------------------------------------------------------------------
\* A leaf goes to Zenon, and to the SMT solver where it says so.
USE Zenon

\* What a step of task p must respect for the sleep of the other tasks.
LEMMA WakeFrame ==
    ASSUME IInv, WakeInv, NEW p \in Procs, OthersCall(p), OthersServe(p),
           \A q \in Procs \ {p} :
              tstate'[q] = "RUNNING" \/ (tstate'[q] = tstate[q] /\ queue'[q] = queue[q]),
           \A e \in Endpoints : Owner[e] # p =>
              \/ state'[e] = state[e]
              \/ state'[e] = "RUNNING" /\ pc'[p] = "s_wake" /\ call'[p] = e,
           \A n \in Nodes : finish'[n] => finish[n] \/ InReplyWindow(n)',
           pc[p] = "s_wake" =>
              \A q \in Procs \ {p} : queue[q] = EpWait(call[p]) => tstate'[q] = "RUNNING",
           InWindow(p) =>
              \/ InWindow(p)' /\ rnode'[p] = rnode[p]
              \/ \A q \in Procs \ {p} : queue[q] = NodeWait(rnode[p]) => tstate'[q] = "RUNNING",
           SleepInv(p)', \A e \in Endpoints : EmptyInv(e)'
    PROVE  WakeInv'
<1>1. ASSUME NEW q \in Procs, q # p PROVE SleepInv(q)'
  <2>1. pc'[q] = pc[q] /\ call'[q] = call[q] /\ cur'[q] = cur[q] /\ SleepInv(q) /\ TaskInv(q)
    BY <1>1 DEF OthersCall, WakeInv, IInv
  <2>2. tstate'[q] = "UNINT" => tstate[q] = "UNINT" /\ queue'[q] = queue[q]
    BY <1>1
  <2>3. ASSUME pc[q] \in WaitingPCs
        PROVE  /\ call[q] \in Endpoints
               /\ \/ state'[call[q]] = state[call[q]]
                  \/ state'[call[q]] = "RUNNING" /\ pc'[p] = "s_wake" /\ call'[p] = call[q]
    <3>1. call[q] \in Endpoints /\ Owner[call[q]] = q
      BY <2>1, <2>3 DEF TaskInv, WaitingPCs, ReceivePCs
    <3> QED BY <1>1, <3>1
  <2>4. /\ pc'[q] \in {"s_wait_check", "s_wait_sched"} /\ tstate'[q] = "UNINT"
              => queue'[q] = NodeWait(cur'[q])
        /\ pc'[q] \in {"r_wait_check", "r_wait_sched"} /\ tstate'[q] = "UNINT"
              => queue'[q] = EpWait(call'[q])
        /\ pc'[q] \in WaitingPCs => state'[call'[q]] # "NONE"
    BY <2>1, <2>2, <2>3, SMT DEF SleepInv
  <2>5. ASSUME pc[q] = "r_wait_sched", tstate'[q] = "UNINT", state'[call[q]] = "RUNNING"
        PROVE  \E r \in Procs : pc'[r] = "s_wake" /\ call'[r] = call[q]
    <3>1. pc[q] \in WaitingPCs /\ queue[q] = EpWait(call[q])
      BY <2>1, <2>2, <2>5 DEF SleepInv, WaitingPCs
    <3>2. CASE state[call[q]] = "RUNNING"
      <4>1. PICK r \in Procs : pc[r] = "s_wake" /\ call[r] = call[q]
        BY <2>1, <2>2, <2>5, <3>2 DEF SleepInv
      <4>2. r # p
        BY <1>1, <2>2, <2>5, <3>1, <4>1, SMT
      <4> QED BY <4>1, <4>2, SMT DEF OthersCall
    <3>3. CASE state[call[q]] # "RUNNING"
      BY <2>3, <2>5, <3>1, <3>3
    <3> QED BY <3>2, <3>3
  <2>6. ASSUME pc[q] = "s_wait_sched", tstate'[q] = "UNINT", finish'[cur[q]]
        PROVE  InReplyWindow(cur[q])'
    <3>1. cur[q] \in Nodes /\ queue[q] = NodeWait(cur[q])
      BY <2>1, <2>2, <2>6 DEF SleepInv, TaskInv, NodePCs
    <3>2. CASE finish[cur[q]]
      <4>1. PICK s \in Procs : InWindow(s) /\ rnode[s] = cur[q]
        BY <2>1, <2>2, <2>6, <3>2 DEF SleepInv, InReplyWindow, InWindow
      <4>2. InWindow(s)' /\ rnode'[s] = cur[q]
        <5>1. CASE s = p
          BY <1>1, <2>2, <2>6, <3>1, <4>1, <5>1
        <5>2. CASE s # p
          BY <4>1, <5>2 DEF OthersCall, OthersServe, InWindow
        <5> QED BY <5>1, <5>2
      <4> QED BY <2>1, <4>2, SMT DEF InReplyWindow, InWindow
    <3>3. CASE ~finish[cur[q]]
      BY <2>1, <2>6, <3>1, <3>3 DEF InReplyWindow
    <3> QED BY <3>2, <3>3
  <2> QED BY <2>1, <2>4, <2>5, <2>6, SMT DEF SleepInv
<1> QED BY <1>1 DEF WakeInv

\* A step that leaves the endpoints, the nodes and the sleep of the other tasks
\* alone, and is neither a wake-up nor inside the window of __ipc_reply.
LEMMA CalmStep ==
    ASSUME IInv, WakeInv, NEW p \in Procs, OthersCall(p), OthersServe(p), OthersWait(p),
           UNCHANGED <<state, list, finish>>, pc[p] # "s_wake", ~InWindow(p), SleepInv(p)'
    PROVE  WakeInv'
<1>1. \A e \in Endpoints : EmptyInv(e)'
  BY DEF WakeInv, EmptyInv
<1> QED BY <1>1, WakeFrame DEF OthersWait

\* A task that is in no wait loop has nothing to say.
LEMMA AwakeTask ==
    ASSUME NEW p \in Procs, pc'[p] \notin {"s_wait_check", "s_wait_sched"} \cup WaitingPCs
    PROVE  SleepInv(p)'
BY DEF SleepInv, WaitingPCs

\* The steps of wait_event in __ipc_send keep WakeInv.
LEMMA AwaitReplyWakes ==
    ASSUME IInv, WakeInv, NEW p \in Procs, SendAwaitReply(p)
    PROVE  WakeInv'
<1>1. TypeOK /\ TaskInv(p) /\ SleepInv(p)
  BY DEF IInv, WakeInv
<1>2. /\ UNCHANGED <<epVars, reg, nodeVars, srvVars>>
      /\ OthersCall(p) /\ OthersWait(p) /\ call'[p] = call[p] /\ cur'[p] = cur[p]
      /\ \/ pc[p] \in {"s_wait", "s_wait_check"} /\ pc'[p] = "s_copy" /\ finish[cur[p]]
         \/ /\ pc[p] = "s_wait" /\ pc'[p] = "s_wait_check"
            /\ tstate'[p] = "UNINT" /\ queue'[p] = NodeWait(cur[p])
         \/ /\ pc[p] = "s_wait_check" /\ pc'[p] = "s_wait_sched" /\ ~finish[cur[p]]
            /\ tstate'[p] = tstate[p] /\ queue'[p] = queue[p]
         \/ /\ pc[p] = "s_wait_sched" /\ pc'[p] = "s_wait"
            /\ tstate[p] = "RUNNING" /\ tstate'[p] = "RUNNING"
  BY <1>1, SendAwaitReplyFacts
<1>3. SleepInv(p)'
  <2>1. CASE pc'[p] \in {"s_copy", "s_wait"}
    BY <2>1, AwakeTask DEF WaitingPCs
  <2>2. CASE pc'[p] = "s_wait_check"
    BY <1>2, <2>2 DEF SleepInv, WaitingPCs
  <2>3. CASE pc'[p] = "s_wait_sched"
    BY <1>1, <1>2, <2>3 DEF SleepInv, WaitingPCs
  <2> QED BY <1>2, <2>1, <2>2, <2>3
<1>4. pc[p] # "s_wake" /\ ~InWindow(p) /\ OthersServe(p)
  BY <1>2, ServeSame DEF InWindow
<1> QED BY <1>2, <1>3, <1>4, CalmStep

\* The steps of wait_event in __ipc_receive keep WakeInv.
LEMMA ReceiveWaitWakes ==
    ASSUME IInv, WakeInv, NEW p \in Procs, ReceiveWait(p)
    PROVE  WakeInv'
<1>1. TypeOK /\ TaskInv(p) /\ SleepInv(p)
  BY DEF IInv, WakeInv
<1>2. /\ UNCHANGED <<epVars, reg, nodeVars, srvVars>>
      /\ OthersCall(p) /\ OthersWait(p) /\ call'[p] = call[p]
      /\ \/ pc[p] \in {"r_wait", "r_wait_check"} /\ pc'[p] = "r_first"
         \/ /\ pc[p] = "r_wait" /\ pc'[p] = "r_wait_check"
            /\ tstate'[p] = "UNINT" /\ queue'[p] = EpWait(call[p])
         \/ /\ pc[p] = "r_wait_check" /\ pc'[p] = "r_wait_sched" /\ state[call[p]] # "RUNNING"
            /\ tstate'[p] = tstate[p] /\ queue'[p] = queue[p]
         \/ /\ pc[p] = "r_wait_sched" /\ pc'[p] = "r_wait"
            /\ tstate[p] = "RUNNING" /\ tstate'[p] = "RUNNING"
  BY <1>1, ReceiveWaitFacts
<1>3. SleepInv(p)'
  <2>1. CASE pc'[p] = "r_first"
    BY <2>1, AwakeTask DEF WaitingPCs
  <2>2. state'[call'[p]] # "NONE"
    BY <1>1, <1>2 DEF SleepInv, WaitingPCs
  <2>3. CASE pc'[p] \in {"r_wait", "r_wait_check"}
    BY <1>2, <2>2, <2>3 DEF SleepInv, WaitingPCs
  <2>4. CASE pc'[p] = "r_wait_sched"
    BY <1>1, <1>2, <2>2, <2>4 DEF SleepInv, WaitingPCs
  <2> QED BY <1>2, <2>1, <2>3, <2>4
<1>4. pc[p] # "s_wake" /\ ~InWindow(p) /\ OthersServe(p)
  BY <1>2, ServeSame DEF InWindow
<1> QED BY <1>2, <1>3, <1>4, CalmStep

\* The other steps that touch no endpoint and no is_finish.
LEMMA QuietWakes ==
    ASSUME IInv, WakeInv, NEW p \in Procs,
           \/ SendAwaitServer(p) \/ SendTimeout(p) \/ SendCopy(p) \/ ReceiveFirst(p)
           \/ ReplyDec(p) \/ \E e \in Endpoints : Issue(p, e)
    PROVE  WakeInv'
<1>1. TypeOK /\ TaskInv(p)
  BY DEF IInv
<1> DEFINE Calm == /\ UNCHANGED <<state, list, finish>>
                   /\ OthersCall(p) /\ OthersServe(p) /\ OthersWait(p)
                   /\ pc[p] \notin {"s_wake", "p_copy", "p_wake"}
                   /\ pc'[p] \notin {"s_wait_check", "s_wait_sched"} \cup WaitingPCs
<1>2. CASE SendAwaitServer(p)
  <2>1. Calm
    BY <1>1, <1>2, SendAwaitServerFacts, ServeSame DEF WaitingPCs
  <2> QED BY <2>1, CalmStep, AwakeTask DEF InWindow
<1>3. CASE SendTimeout(p)
  <2>1. Calm
    BY <1>1, <1>3, SendTimeoutFacts, ServeSame DEF WaitingPCs
  <2> QED BY <2>1, CalmStep, AwakeTask DEF InWindow
<1>4. CASE SendCopy(p)
  <2>1. Calm
    BY <1>1, <1>4, SendCopyFacts, ServeSame DEF WaitingPCs, OthersWait
  <2> QED BY <2>1, CalmStep, AwakeTask DEF InWindow
<1>5. CASE ReceiveFirst(p)
  <2>1. Calm
    BY <1>1, <1>5, ReceiveFirstFacts DEF WaitingPCs, OthersWait
  <2> QED BY <2>1, CalmStep, AwakeTask DEF InWindow
<1>6. CASE ReplyDec(p)
  <2>1. Calm
    BY <1>1, <1>6, ReplyDecFacts DEF WaitingPCs, OthersWait
  <2> QED BY <2>1, CalmStep, AwakeTask DEF InWindow
<1>7. CASE \E e \in Endpoints : Issue(p, e)
  <2>1. PICK e \in Endpoints :
           \/ \E b \in BOOLEAN : Send(p, e, b)
           \/ Receive(p, e)
           \/ Reply(p, e)
    BY <1>7 DEF Issue
  <2>2. Calm
    <3>1. ASSUME NEW b \in BOOLEAN, Send(p, e, b) PROVE Calm
      BY <1>1, <3>1, SendFacts, ServeSame DEF WaitingPCs, OthersWait
    <3>2. ASSUME Receive(p, e) PROVE Calm
      BY <1>1, <3>2, ReceiveFacts, ServeSame DEF WaitingPCs, OthersWait
    <3>3. ASSUME Reply(p, e) PROVE Calm
      BY <1>1, <3>3, ReplyFacts, ServeSame DEF WaitingPCs, OthersWait
    <3> QED BY <2>1, <3>1, <3>2, <3>3
  <2> QED BY <2>2, CalmStep, AwakeTask DEF InWindow
<1> QED BY <1>2, <1>3, <1>4, <1>5, <1>6, <1>7

\* Allocating and freeing a node in __ipc_send keeps WakeInv.
LEMMA AllocFreeWakes ==
    ASSUME IInv, WakeInv, NEW p \in Procs, SendAlloc(p) \/ SendFree(p)
    PROVE  WakeInv'
<1>1. TypeOK /\ TaskInv(p) /\ NodeTypes
  BY TypeGroups DEF IInv
<1>2. /\ UNCHANGED <<state, list, waitVars>> /\ OthersCall(p) /\ OthersServe(p)
      /\ pc[p] \in {"s_alloc", "s_free"} /\ pc'[p] \in {"idle", "s_enqueue"}
      /\ \A n \in Nodes : finish'[n] => finish[n]
  <2>1. CASE SendAlloc(p)
    BY <1>1, <2>1, SendAllocFacts, ServeSame, SMT
  <2>2. CASE SendFree(p)
    BY <1>1, <2>2, SendFreeFacts, ServeSame
  <2> QED BY <2>1, <2>2
<1>3. SleepInv(p)' /\ \A e \in Endpoints : EmptyInv(e)'
  BY <1>2, AwakeTask DEF WakeInv, EmptyInv, WaitingPCs
<1> QED BY <1>2, <1>3, WakeFrame DEF InWindow

\* A sender that queues its request and then wakes the server keeps WakeInv.
LEMMA EnqueueWakes ==
    ASSUME IInv, WakeInv, NEW p \in Procs, SendEnqueue(p) \/ SendWake(p)
    PROVE  WakeInv'
<1>1. TypeOK /\ TaskInv(p) /\ EpTypes
  BY TypeGroups DEF IInv
<1>2. CASE SendEnqueue(p)
  <2>1. PICK c \in Endpoints : c = call[p]
    BY <1>1, <1>2, SendEnqueueFacts
  <2>2. /\ UNCHANGED <<nodeVars, waitVars>> /\ OthersCall(p) /\ OthersServe(p)
        /\ pc[p] = "s_enqueue" /\ pc'[p] \in {"s_wake", "s_wait", "idle"}
        /\ state'[c] # "WAITTING"
        /\ \A d \in Endpoints \ {c} : list'[d] = list[d] /\ state'[d] = state[d]
        /\ state[c] # "WAITTING" => state'[c] = state[c]
        /\ state[c] = "WAITTING" => pc'[p] = "s_wake" /\ call'[p] = c
    BY <1>1, <1>2, <2>1, SendEnqueueFacts, ServeSame
  <2>3. state[c] = "WAITTING" => state'[c] = "RUNNING"
    BY <1>1, <1>2, <2>1 DEF SendEnqueue, EpTypes
  <2>4. SleepInv(p)' /\ \A e \in Endpoints : EmptyInv(e)'
    BY <2>2, AwakeTask DEF WakeInv, EmptyInv, WaitingPCs
  <2>5. \A e \in Endpoints : \/ state'[e] = state[e]
                             \/ state'[e] = "RUNNING" /\ pc'[p] = "s_wake" /\ call'[p] = e
    BY <2>2, <2>3
  <2> QED BY <2>2, <2>4, <2>5, WakeFrame DEF InWindow
<1>3. CASE SendWake(p)
  <2>1. /\ UNCHANGED <<epVars, nodeVars>> /\ OthersCall(p) /\ OthersServe(p)
        /\ pc[p] = "s_wake" /\ pc'[p] \in {"s_wait", "idle"}
        /\ \A t \in Procs : queue[t] = EpWait(call[p]) => tstate'[t] = "RUNNING"
        /\ \A t \in Procs : queue[t] # EpWait(call[p]) =>
              tstate'[t] = tstate[t] /\ queue'[t] = queue[t]
    BY <1>1, <1>3, SendWakeFacts, ServeSame
  <2>2. SleepInv(p)' /\ \A e \in Endpoints : EmptyInv(e)'
    BY <2>1, AwakeTask DEF WakeInv, EmptyInv, WaitingPCs
  <2> QED BY <2>1, <2>2, WakeFrame DEF InWindow
<1> QED BY <1>2, <1>3

\* A server that looks at its list, or unlinks the head of it, keeps WakeInv.
LEMMA ServerWakes ==
    ASSUME IInv, WakeInv, NEW p \in Procs, ReceiveList(p) \/ ReplyDel(p)
    PROVE  WakeInv'
<1>1. TypeOK /\ TaskInv(p)
  BY DEF IInv
<1>2. CASE ReceiveList(p)
  <2>1. PICK c \in Endpoints : c = call[p] /\ Owner[c] = p
    BY <1>1, <1>2, ReceiveListFacts DEF TaskInv, ReceivePCs
  <2>2. /\ UNCHANGED <<list, nodeVars, waitVars>> /\ OthersCall(p) /\ OthersServe(p)
        /\ pc[p] = "r_list" /\ call'[p] = c
        /\ \/ pc'[p] = "r_first" /\ UNCHANGED state
           \/ /\ pc'[p] = "r_wait" /\ list[c] = <<>> /\ state'[c] = "WAITTING"
              /\ \A d \in Endpoints \ {c} : state'[d] = state[d]
    BY <1>1, <1>2, <2>1, ReceiveListFacts, ServeSame
  <2>3. \A e \in Endpoints : EmptyInv(e)'
    BY <2>2 DEF WakeInv, EmptyInv
  <2>4. SleepInv(p)'
    BY <2>2 DEF SleepInv, WaitingPCs
  <2>5. \A e \in Endpoints : Owner[e] # p => state'[e] = state[e]
    BY <2>1, <2>2
  <2> QED BY <2>2, <2>3, <2>4, <2>5, WakeFrame DEF InWindow
<1>3. CASE ReplyDel(p)
  <2>1. PICK c \in Endpoints : c = call[p]
    BY <1>3, ReplyDelFacts
  <2>2. /\ UNCHANGED <<state, nodeVars, waitVars>> /\ OthersCall(p) /\ OthersServe(p)
        /\ pc[p] = "p_del" /\ pc'[p] = "p_finish" /\ list[c] # <<>>
        /\ \A d \in Endpoints \ {c} : list'[d] = list[d]
    BY <1>3, <2>1, ReplyDelFacts
  <2>3. SleepInv(p)' /\ \A e \in Endpoints : EmptyInv(e)'
    BY <2>2, AwakeTask DEF WakeInv, EmptyInv, WaitingPCs
  <2> QED BY <2>2, <2>3, WakeFrame DEF InWindow
<1> QED BY <1>2, <1>3

\* The window of __ipc_reply, from is_finish to wake_up, keeps WakeInv.
LEMMA WindowWakes ==
    ASSUME IInv, WakeInv, NEW p \in Procs, ReplyFinish(p) \/ ReplyCopy(p) \/ ReplyWake(p)
    PROVE  WakeInv'
<1>1. TypeOK /\ TaskInv(p)
  BY DEF IInv
<1>2. /\ UNCHANGED <<epVars, srvVars>> /\ OthersCall(p) /\ OthersServe(p)
      /\ pc[p] \in {"p_finish", "p_copy", "p_wake"} /\ pc'[p] \in {"p_copy", "p_wake", "p_dec"}
  BY <1>1, ReplyFinishFacts, ReplyCopyFacts, ReplyWakeFacts, ServeSame
<1>3. SleepInv(p)' /\ \A e \in Endpoints : EmptyInv(e)'
  BY <1>2, AwakeTask DEF WakeInv, EmptyInv, WaitingPCs
<1>4. CASE ReplyFinish(p)
  <2>1. PICK n \in Nodes : n = rnode[p]
    BY <1>1, <1>4, ReplyFinishFacts
  <2>2. /\ UNCHANGED waitVars /\ pc[p] = "p_finish"
        /\ \A m \in Nodes \ {n} : finish'[m] = finish[m]
        /\ (pc'[p] = "p_dec" /\ ~finish'[n]) \/ pc'[p] = "p_copy"
    BY <1>1, <1>4, <2>1, ReplyFinishFacts
  <2>3. pc'[p] = "p_copy" => InReplyWindow(n)'
    BY <1>2, <2>1 DEF InReplyWindow
  <2>4. \A m \in Nodes : finish'[m] => finish[m] \/ InReplyWindow(m)'
    BY <2>2, <2>3
  <2> QED BY <1>2, <1>3, <2>2, <2>4, WakeFrame DEF InWindow
<1>5. CASE ReplyCopy(p)
  <2>1. UNCHANGED <<finish, waitVars>> /\ pc[p] = "p_copy" /\ pc'[p] = "p_wake"
    BY <1>1, <1>5, ReplyCopyFacts
  <2> QED BY <1>2, <1>3, <2>1, WakeFrame DEF InWindow
<1>6. CASE ReplyWake(p)
  <2>1. /\ UNCHANGED nodeVars /\ pc[p] = "p_wake"
        /\ \A t \in Procs : queue[t] = NodeWait(rnode[p]) => tstate'[t] = "RUNNING"
        /\ \A t \in Procs : queue[t] # NodeWait(rnode[p]) =>
              tstate'[t] = tstate[t] /\ queue'[t] = queue[t]
    BY <1>1, <1>6, ReplyWakeFacts
  <2> QED BY <1>2, <1>3, <2>1, WakeFrame DEF InWindow
<1> QED BY <1>4, <1>5, <1>6

\* The boot CPU changes the state of no endpoint whose server already waits.
LEMMA RegisterWakes ==
    ASSUME IInv, WakeInv, NEW e \in Endpoints, Register(e)
    PROVE  WakeInv'
<1>1. /\ UNCHANGED <<list, finish, pc, call, cur, rnode>>
      /\ \A d \in Endpoints \ {e} : state'[d] = state[d]
      /\ state'[e] = state[e] \/ (reg[e] # "done" /\ state'[e] = "RUNNING")
      /\ \A t \in Procs : \/ tstate'[t] = tstate[t] /\ queue'[t] = queue[t]
                          \/ tstate'[t] = "RUNNING"
  BY RegisterFacts DEF IInv
<1>2. ASSUME NEW d \in Endpoints PROVE EmptyInv(d)'
  BY <1>1 DEF WakeInv, EmptyInv
<1>3. ASSUME NEW q \in Procs PROVE SleepInv(q)'
  <2>1. SleepInv(q) /\ TaskInv(q)
    BY DEF WakeInv, IInv
  <2>2. pc[q] \in WaitingPCs => state'[call[q]] = state[call[q]]
    BY <1>1, <2>1 DEF TaskInv, WaitingPCs, ReceivePCs, Started
  <2>3. InReplyWindow(cur[q])' = InReplyWindow(cur[q])
    BY <1>1 DEF InReplyWindow
  <2> QED BY <1>1, <2>1, <2>2, <2>3 DEF SleepInv, WaitingPCs
<1> QED BY <1>2, <1>3 DEF WakeInv

\* Every step of a task keeps WakeInv.
LEMMA NextWakes == IInv /\ WakeInv /\ [Next]_vars => WakeInv'
<1> SUFFICES ASSUME IInv, WakeInv, [Next]_vars PROVE WakeInv'
  OBVIOUS
<1>1. CASE UNCHANGED vars
  <2>1. UNCHANGED <<state, list, finish, pc, call, cur, rnode, tstate, queue>>
    BY <1>1 DEF vars
  <2>2. ASSUME NEW q \in Procs PROVE SleepInv(q)'
    BY <2>1, SMT DEF WakeInv, SleepInv, InReplyWindow
  <2> QED BY <2>1, <2>2 DEF WakeInv, EmptyInv
<1>2. CASE \E e \in Endpoints : Register(e)
  BY <1>2, RegisterWakes
<1>3. ASSUME NEW p \in Procs, Step(p) \/ \E e \in Endpoints : Issue(p, e)
      PROVE  WakeInv'
  BY <1>3, AwaitReplyWakes, ReceiveWaitWakes, QuietWakes, AllocFreeWakes, EnqueueWakes,
     ServerWakes, WindowWakes DEF Step, SendStep, ReceiveStep, ReplyStep
<1> QED BY <1>1, <1>2, <1>3 DEF Next

\* Nobody sleeps after ipc_init.
LEMMA InitWakes == Init => WakeInv
BY SMT DEF Init, WakeInv, SleepInv, EmptyInv, WaitingPCs

\* A sleeping server is the owner of one endpoint only, the one it waits for.
LEMMA WakeInvFacts == IInv /\ WakeInv => NoLostWakeup
<1> SUFFICES ASSUME IInv, WakeInv PROVE NoLostWakeup
  OBVIOUS
<1>1. NoLostReply
  BY DEF WakeInv, SleepInv, NoLostReply
<1>2. ASSUME NEW e \in Endpoints, NEW s \in Procs, s = Owner[e],
             pc[s] = "r_wait_sched", tstate[s] = "UNINT", list[e] # <<>>
      PROVE  \E p \in Procs : pc[p] = "s_wake" /\ call[p] = e
  <2>1. SleepInv(s) /\ TaskInv(s) /\ EmptyInv(e) /\ EpTypes
    BY TypeGroups DEF WakeInv, IInv
  <2>2. call[s] = e
    BY <1>2, <2>1, IpcAssumption DEF TaskInv, ReceivePCs
  <2>3. state[e] = "RUNNING"
    BY <1>2, <2>1, <2>2 DEF SleepInv, EmptyInv, WaitingPCs, EpTypes, States
  <2> QED BY <1>2, <2>1, <2>2, <2>3 DEF SleepInv
<1>3. \A e \in Endpoints : Owner[e] \in Procs
  BY IpcAssumption
<1> QED BY <1>1, <1>2, <1>3 DEF NoLostWakeup, NoLostRequest

\* wait_event() and wake_up() as __ipc_send, __ipc_receive and __ipc_reply use
\* them lose no wake-up, neither that of a sender whose request is answered nor
\* that of a server that has a request.
THEOREM WakeupSafe == Spec => []NoLostWakeup
BY InitIInv, NextIInv, InitWakes, NextWakes, WakeInvFacts, PTL DEF Spec
=============================================================================
