-------------------------------- MODULE MCIpc --------------------------------
(***************************************************************************)
(* The tasks of a running system on top of Ipc: servers that loop over     *)
(* receive, handle, reply (system_thread, and main() of pm, vfs and i2c),  *)
(* and clients that send.  While it handles a request a server may itself  *)
(* send to another endpoint: vfs asks the system task to copy memory of    *)
(* the client or to replace its image.                                     *)
(*                                                                         *)
(* Two small systems.                                                      *)
(*   One server, two clients, two heap nodes (MCIpc.cfg): the smallest     *)
(*   instance in which a freed node is reused while the server still       *)
(*   answers its first owner.                                              *)
(*   Server loops (MCIpcServers.cfg): vfs forwards to the system task, so  *)
(*   that a server is also a sender, while a client calls vfs.             *)
(***************************************************************************)
EXTENDS Ipc, TLC

CONSTANTS
    Forward,   \* <<e, d>>: the server of e sends to d while it handles a request
    BootOrder  \* the endpoints in the order in which rest_init starts their servers

ASSUME ServersAssumption ==
    /\ Forward \subseteq Endpoints \X Endpoints
    /\ BootOrder \in Seq(Endpoints)

VARIABLE loop     \* where the server of each endpoint is in its loop

svars == <<vars, loop>>

\* The tasks that send: clients, and servers that forward.
Senders ==
    {p \in Procs : \/ \E e \in Endpoints : <<p, "send", e>> \in Calls \/ <<p, "notify", e>> \in Calls
                   \/ \E f \in Forward : Owner[f[1]] = p}

ServersInit == Init /\ loop = [e \in Endpoints |-> "receive"]

\* ret = ipc_receive(...); a failure is a BUG_ON or a panic.
LoopReceive(e) ==
    /\ loop[e] = "receive"
    /\ Receive(Owner[e], e)
    /\ loop' = [loop EXCEPT ![e] = "handle"]

\* One call to another server from the handler of the request.
LoopForward(e, d) ==
    /\ loop[e] = "handle" /\ <<e, d>> \in Forward
    /\ Send(Owner[e], d, FALSE)
    /\ loop' = [loop EXCEPT ![e] = "reply"]

\* ret = ipc_reply(...); a failure is a BUG_ON or a panic.
LoopReply(e) ==
    /\ loop[e] \in {"handle", "reply"}
    /\ Reply(Owner[e], e)
    /\ loop' = [loop EXCEPT ![e] = "receive"]

LoopNext(e) == LoopReceive(e) \/ LoopReply(e) \/ \E d \in Endpoints : LoopForward(e, d)

ClientIssue(p) == \E e \in Endpoints : Issue(p, e) /\ UNCHANGED loop

TaskStep(p) == Step(p) /\ UNCHANGED loop

\* rest_init starts init first, then the servers one after the other.
BootStep(e) ==
    /\ \E i \in DOMAIN BootOrder : /\ BootOrder[i] = e
                                  /\ \A j \in 1 .. i - 1 : reg[BootOrder[j]] = "done"
    /\ Register(e)
    /\ UNCHANGED loop

ServersNext ==
    \/ \E e \in Endpoints : BootStep(e) \/ LoopNext(e)
    \/ \E p \in Procs : TaskStep(p) \/ ClientIssue(p)

(***************************************************************************)
(* Fairness: the boot CPU goes on registering, every runnable task is      *)
(* scheduled, timers expire, servers never stop looping.  Nothing is       *)
(* assumed of the clients: they need not call at all.  The timeout of the  *)
(* wait for a registration needs strong fairness: each round of            *)
(* wait_event_timeout sleeps for what the earlier rounds left of it, so a  *)
(* task that is woken again and again still runs out of time.              *)
(***************************************************************************)
ServersSpec ==
    /\ ServersInit /\ [][ServersNext]_svars
    /\ \A e \in Endpoints : WF_svars(BootStep(e)) /\ WF_svars(LoopNext(e))
    /\ \A p \in Procs : WF_svars(TaskStep(p))
    /\ \A p \in Senders : SF_svars(SendTimeout(p) /\ UNCHANGED loop)

-----------------------------------------------------------------------------
(* The two systems.                                                        *)

CONSTANTS c1, c2, sys, vfs, SYSTEM, VFS, n1, n2

TwoClients == {c1, c2, vfs}
OneEndpoint == {VFS}
OneOwner == VFS :> vfs
MixedCalls ==
    ({c1} \X {"send", "notify"} \X {VFS})
    \cup ({c2} \X {"send", "receive"} \X {VFS})
    \cup ({vfs} \X {"receive", "reply"} \X {VFS})
NoForward == {}
OneBoot == <<VFS>>

OneClient == {c1, sys, vfs}
TwoEndpoints == {SYSTEM, VFS}
TwoOwners == SYSTEM :> sys @@ VFS :> vfs
ClientCalls == {<<c1, "send", VFS>>}
VfsForwards == {<<VFS, SYSTEM>>}
TwoBoot == <<SYSTEM, VFS>>

\* Any task issues any of its calls: no server loop.
CallsSpec == ServersInit /\ [][Next /\ UNCHANGED loop]_svars

-----------------------------------------------------------------------------
\* The receive and the reply of a server loop are always accepted, so that its
\* BUG_ON(ret) or panic() is never reached: the request counter agrees with
\* the position of the loop, whatever was forwarded in between.
ServerCallsAccepted ==
    \A e \in Endpoints :
        pc[Owner[e]] = "idle" /\ Started(Owner[e]) =>
            /\ tsk[e] = Owner[e]
            /\ count[e] = IF loop[e] = "receive" THEN 0 ELSE 1

\* Every system call returns: a send to a server that is not up gives up or
\* is served, and a queued request is answered even if its server has to wait
\* for another server first (wait_event in __ipc_send has no timeout).
SendReturns ==
    \A p \in Senders : pc[p] \in SendPCs ~> pc[p] = "idle"

\* The servers keep answering: the receive and the reply of a server loop are
\* always accepted, and every send returns, although a server waits for another
\* one while it handles a request.
ServersAnswer == []ServerCallsAccepted /\ SendReturns
=============================================================================
