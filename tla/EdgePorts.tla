------------------------------- MODULE EdgePorts -------------------------------
(***************************************************************************)
(* Ports between edge connections (lib/network/edge_v2.ex).  The device of *)
(* one connection opens a port to the device of another; each connection   *)
(* is a GenServer with a table of ports, and knows its peers by process.   *)
(* Requests a device sends are answered by linked tasks, which call their  *)
(* server back, so the servers, the tasks, the devices, the 15 second      *)
(* timeout of an open call and the loss of connections interleave.         *)
(*                                                                         *)
(* An open attempt is named by the random reference it draws.  A port      *)
(* holds its clients; a client is named by the attempt that made it, whose *)
(* monitor it holds.  All ports have the same port name.  A device follows *)
(* the protocol: it answers an open request once, and sends to or closes a *)
(* port it holds for open.  What a server sends, its device sees at once;  *)
(* what the device sends waits in the mailbox of the server.               *)
(*                                                                         *)
(* The operators named Bad... are faulty variants of the operator they     *)
(* precede; no action uses them.  They show that the properties can fail.  *)
(***************************************************************************)
EXTENDS FiniteSets, SequencesExt

CONSTANTS
    Conns,          \* connections, each of a device of its own
    Refs,           \* open attempts
    Rights,         \* the flags each device asks for: sets of "r", "w" and "s"
    NoConn, NoRef,
    MaxLosses,      \* bound: connections lost
    MaxInbox        \* bound: messages in a mailbox when a device sends one

ASSUME EdgePortsAssumption ==
    /\ IsFiniteSet(Refs)
    /\ NoConn \notin Conns
    /\ NoRef \notin Refs
    /\ Rights \in [Conns -> SUBSET SUBSET {"r", "w", "s"}]
    /\ MaxLosses \in Nat /\ MaxInbox \in Nat

VARIABLES
    up,         \* the connection's process is alive
    inbox,      \* its mailbox
    ports,      \* its PortCollection
    monitors,   \* its monitors, by attempt
    jobs,       \* tasks of device messages that have not called back yet
    attempt,    \* the open attempts: where do_portopen is, and its arguments
    device,     \* what the device knows of a reference
    sent,       \* history: <<connection, attempt>> data was sent to
    losses

vars == <<up, inbox, ports, monitors, jobs, attempt, device, sent, losses>>

-----------------------------------------------------------------------------
NoPort == [state |-> "none", clients |-> {}]
NoPorts == [r \in Refs |-> NoPort]
Unknown == [r \in Refs |-> "none"]
Unused == [pc |-> "idle", from |-> NoConn, to |-> NoConn, rights |-> {}, cref |-> NoRef]

Init ==
    /\ up = [c \in Conns |-> TRUE]
    /\ inbox = [c \in Conns |-> <<>>]
    /\ ports = [c \in Conns |-> NoPorts]
    /\ monitors = [c \in Conns |-> {}]
    /\ jobs = {}
    /\ attempt = [r \in Refs |-> Unused]
    /\ device = [c \in Conns |-> Unknown]
    /\ sent = {}
    /\ losses = 0

Msg(op, r) == [op |-> op, ref |-> r, clients |-> {}]
CloseMsg(r, clients) == [op |-> "close_call", ref |-> r, clients |-> clients]

(* Client m in the table of connection c: the connection it stands for, the *)
(* reference it is known by there, and whether it may be written to.        *)
IsOpener(c, m) == attempt[m].from = c
Peer(c, m) == IF IsOpener(c, m) THEN attempt[m].to ELSE attempt[m].from
ClientRef(c, m) == IF IsOpener(c, m) THEN attempt[m].cref ELSE m
MayWrite(c, m) == (IF IsOpener(c, m) THEN "w" ELSE "r") \in attempt[m].rights

Shared(c, r) == \E m \in ports[c][r].clients : "s" \in attempt[m].rights /\ ~IsOpener(c, m)

(* Process.demonitor(mon, [:flush])                                         *)
BadFlush(box, ms) == SelectSeq(box, LAMBDA x : x.op # "DOWN")
Flush(box, ms) ==
    FoldLeft(LAMBDA kept, x : IF x.op = "DOWN" /\ x.ref \in ms THEN kept ELSE Append(kept, x),
             <<>>, box)

(* The connections of a lost process: every monitor of it fires.            *)
Fired(c, d) == {m \in monitors[d] : Peer(d, m) = c}
Downs(ms) == SetToSeq({Msg("DOWN", m) : m \in ms})

(* The process of c is gone, with its mailbox and its ports; so are its     *)
(* tasks, which are linked to it or about to call it, but those in `left'.  *)
Down(c, left) ==
    /\ up' = [up EXCEPT ![c] = FALSE]
    /\ inbox' = [d \in Conns |-> IF d = c THEN <<>>
                                 ELSE IF up[d] THEN inbox[d] \o Downs(Fired(c, d)) ELSE <<>>]
    /\ monitors' = [d \in Conns |-> IF d = c THEN {} ELSE monitors[d] \ Fired(c, d)]
    /\ ports' = [ports EXCEPT ![c] = NoPorts]
    /\ jobs' = {j \in jobs : j.conn # c}
    /\ attempt' = [r \in Refs |->
           IF attempt[r].from = c /\ attempt[r].pc \notin left
           THEN [attempt[r] EXCEPT !.pc = "dead"] ELSE attempt[r]]
    /\ device' = [device EXCEPT ![c] = Unknown]
    /\ UNCHANGED sent

-----------------------------------------------------------------------------
(* The devices.                                                            *)

Idle(c) == up[c] /\ Len(inbox[c]) < MaxInbox
ToServer(c, m) == inbox' = [inbox EXCEPT ![c] = Append(@, m)]

(* ["portopen", device_id, port, flags]: do_portopen starts to monitor.     *)
(* The random reference is one that was not drawn before.                   *)
Fresh(r) == r = CHOOSE x \in Refs : attempt[x] = Unused

DeviceOpens(c, d, r, f) ==
    /\ c # d /\ up[d] /\ Idle(c)
    /\ attempt[r] = Unused /\ Fresh(r)
    /\ attempt' = [attempt EXCEPT ![r] =
           [pc |-> "monitor", from |-> c, to |-> d, rights |-> f, cref |-> NoRef]]
    /\ ToServer(c, Msg("monitor", r))
    /\ UNCHANGED <<up, ports, monitors, jobs, device, sent, losses>>

DeviceAccepts(c, r) ==
    /\ Idle(c) /\ device[c][r] = "asked"
    /\ device' = [device EXCEPT ![c][r] = "open"]
    /\ ToServer(c, Msg("ok", r))
    /\ UNCHANGED <<up, ports, monitors, jobs, attempt, sent, losses>>

DeviceRefuses(c, r) ==
    /\ Idle(c) /\ device[c][r] = "asked"
    /\ device' = [device EXCEPT ![c][r] = "closed"]
    /\ ToServer(c, Msg("error", r))
    /\ UNCHANGED <<up, ports, monitors, jobs, attempt, sent, losses>>

DeviceSends(c, r) ==
    /\ Idle(c) /\ device[c][r] = "open"
    /\ \A i \in DOMAIN inbox[c] : inbox[c][i] # Msg("portsend", r)
    /\ ToServer(c, Msg("portsend", r))
    /\ UNCHANGED <<up, ports, monitors, jobs, attempt, device, sent, losses>>

DeviceCloses(c, r) ==
    /\ Idle(c) /\ device[c][r] = "open"
    /\ device' = [device EXCEPT ![c][r] = "closed"]
    /\ ToServer(c, Msg("portclose", r))
    /\ UNCHANGED <<up, ports, monitors, jobs, attempt, sent, losses>>

(* The process stops as :normal, which its linked tasks survive.            *)
Lose(c) ==
    /\ up[c] /\ losses < MaxLosses
    /\ losses' = losses + 1
    /\ Down(c, {"call"})

-----------------------------------------------------------------------------
(* The task of an open attempt: do_portopen.                                *)

Opener(r) == attempt[r].from
At(r, pc) == attempt[r].pc = pc
Goes(r, pc) == attempt' = [attempt EXCEPT ![r].pc = pc]

CallPeer(r) ==
    /\ At(r, "call")
    /\ IF up[attempt[r].to]
       THEN /\ Goes(r, IF up[Opener(r)] THEN "wait" ELSE "dead")
            /\ ToServer(attempt[r].to, Msg("portopen", r))
       ELSE Goes(r, "failed") /\ UNCHANGED inbox
    /\ UNCHANGED <<up, ports, monitors, jobs, device, sent, losses>>

CallExits(r) ==
    /\ At(r, "wait") /\ ~up[attempt[r].to]
    /\ Goes(r, "failed")
    /\ UNCHANGED <<up, inbox, ports, monitors, jobs, device, sent, losses>>

(* After 15 seconds.  The demonitor of the task is of no effect: a monitor  *)
(* can be removed only by the process it belongs to.                        *)
BadCallTimesOut(r) ==
    /\ At(r, "wait") /\ ~up[attempt[r].to]
    /\ Goes(r, "late")
    /\ UNCHANGED <<up, inbox, ports, monitors, jobs, device, sent, losses>>

CallTimesOut(r) ==
    /\ At(r, "wait")
    /\ Goes(r, "late")
    /\ UNCHANGED <<up, inbox, ports, monitors, jobs, device, sent, losses>>

CallSelf(r) ==
    /\ At(r, "replied")
    /\ Goes(r, "put")
    /\ ToServer(Opener(r), Msg("put", r))
    /\ UNCHANGED <<up, ports, monitors, jobs, device, sent, losses>>

Respond(r) ==
    /\ At(r, "respond")
    /\ Goes(r, "done")
    /\ ToServer(Opener(r), Msg("answer", r))
    /\ UNCHANGED <<up, ports, monitors, jobs, device, sent, losses>>

-----------------------------------------------------------------------------
(* The server: handlers of the message at the head of its mailbox.          *)

Handles(c, op, r) == up[c] /\ inbox[c] # <<>> /\ Head(inbox[c]).op = op /\ Head(inbox[c]).ref = r
Rest(c) == Tail(inbox[c])
Drop(c) == inbox' = [inbox EXCEPT ![c] = Rest(c)]

(* Process.monitor: of a process that is gone it fires at once.             *)
BadMonitored(c, m) ==
    /\ Drop(c)
    /\ monitors' = [monitors EXCEPT ![c] = IF up[Peer(c, m)] THEN @ \cup {m} ELSE @]

Monitored(c, m) ==
    IF up[Peer(c, m)]
    THEN Drop(c) /\ monitors' = [monitors EXCEPT ![c] = @ \cup {m}]
    ELSE inbox' = [inbox EXCEPT ![c] = Append(Rest(c), Msg("DOWN", m))] /\ UNCHANGED monitors

HandleMonitor(c, r) ==
    /\ Handles(c, "monitor", r)
    /\ Monitored(c, r)
    /\ Goes(r, "call")
    /\ UNCHANGED <<up, ports, jobs, device, sent, losses>>

(* GenServer.reply reaches the task as long as it waits.                    *)
Replied(r, cref) ==
    attempt' = IF At(r, "wait")
               THEN [attempt EXCEPT ![r].pc = "replied", ![r].cref = cref]
               ELSE attempt

BadSharedPorts(c, r) ==
    {x \in Refs : "s" \in attempt[r].rights /\ Shared(c, x)}

SharedPorts(c, r) ==
    {x \in Refs : "s" \in attempt[r].rights /\ ports[c][x].state = "open" /\ Shared(c, x)}

(* {:portopen, ...}: join an open shared port, or ask the device.           *)
HandlePortopen(c, r) ==
    /\ Handles(c, "portopen", r)
    /\ Monitored(c, r)
    /\ IF SharedPorts(c, r) = {}
       THEN /\ ports' = [ports EXCEPT ![c][r] = [state |-> "pre_open", clients |-> {r}]]
            /\ device' = [device EXCEPT ![c][r] = "asked"]
            /\ UNCHANGED attempt
       ELSE \E x \in SharedPorts(c, r) :
                /\ ports' = [ports EXCEPT ![c][x].clients = @ \cup {r}]
                /\ Replied(r, x)
                /\ UNCHANGED device
    /\ UNCHANGED <<up, jobs, sent, losses>>

HandlePut(c, r) ==
    /\ Handles(c, "put", r)
    /\ Drop(c)
    /\ ports' = [ports EXCEPT ![c][r] = [state |-> "open", clients |-> {r}]]
    /\ Goes(r, "respond")
    /\ UNCHANGED <<up, monitors, jobs, device, sent, losses>>

(* The response ["ok", ref] to the device that asked.                       *)
HandleAnswer(c, r) ==
    /\ Handles(c, "answer", r)
    /\ Drop(c)
    /\ device' = [device EXCEPT ![c][r] = "open"]
    /\ UNCHANGED <<up, ports, monitors, jobs, attempt, sent, losses>>

Spawn(c, m) == jobs' = jobs \cup {[conn |-> c, msg |-> m]}

(* ["response", ref, "ok"] is handled by a task, which calls its server.    *)
HandleOk(c, r) ==
    /\ Handles(c, "ok", r)
    /\ Drop(c)
    /\ Spawn(c, Msg("ok_call", r))
    /\ UNCHANGED <<up, ports, monitors, attempt, device, sent, losses>>

HandleOkCall(c, r) ==
    /\ Handles(c, "ok_call", r)
    /\ ports[c][r].state = "pre_open"
    /\ Drop(c)
    /\ ports' = [ports EXCEPT ![c][r].state = "open"]
    /\ Replied(r, r)
    /\ UNCHANGED <<up, monitors, jobs, device, sent, losses>>

(* ["error", ref, reason]: the task replies, then calls its server.         *)
HandleError(c, r) ==
    /\ Handles(c, "error", r)
    /\ ports[c][r].state = "pre_open"
    /\ Drop(c)
    /\ IF At(r, "wait") THEN Goes(r, "failed") ELSE UNCHANGED attempt
    /\ Spawn(c, CloseMsg(r, ports[c][r].clients))
    /\ UNCHANGED <<up, ports, monitors, device, sent, losses>>

(* ["portclose", ref] of the device, with the port its task saw.            *)
HandleDeviceClose(c, r) ==
    /\ Handles(c, "portclose", r)
    /\ ports[c][r].state # "pre_open"
    /\ Drop(c)
    /\ IF ports[c][r].state = "open"
       THEN Spawn(c, CloseMsg(r, ports[c][r].clients))
       ELSE UNCHANGED jobs
    /\ UNCHANGED <<up, ports, monitors, attempt, device, sent, losses>>

CallBack(j) ==
    /\ j \in jobs
    /\ jobs' = jobs \ {j}
    /\ ToServer(j.conn, j.msg)
    /\ UNCHANGED <<up, ports, monitors, attempt, device, sent, losses>>

(* portclose(state, port, false): every client the task saw is told.        *)
BadHandleCloseCall(c, r) ==
    /\ Handles(c, "close_call", r)
    /\ inbox' = [inbox EXCEPT ![c] = Flush(Rest(c), Head(inbox[c]).clients)]
    /\ monitors' = [monitors EXCEPT ![c] = @ \ Head(inbox[c]).clients]
    /\ ports' = [ports EXCEPT ![c][r] = NoPort]
    /\ UNCHANGED <<up, jobs, attempt, device, sent, losses>>

HandleCloseCall(c, r) ==
    /\ Handles(c, "close_call", r)
    /\ LET clients == Head(inbox[c]).clients
           told(d) == [i \in 1 .. Cardinality({m \in clients : Peer(c, m) = d}) |->
                          Msg("close_cast", r)]
       IN  /\ inbox' = [d \in Conns |->
                  IF d = c THEN Flush(Rest(c), clients)
                  ELSE IF up[d] THEN inbox[d] \o told(d) ELSE <<>>]
           /\ monitors' = [monitors EXCEPT ![c] = @ \ clients]
    /\ ports' = [ports EXCEPT ![c][r] = NoPort]
    /\ UNCHANGED <<up, jobs, attempt, device, sent, losses>>

(* do_portclose: one client goes, and the port with its last client.        *)
RemoveClient(c, r, m) ==
    /\ inbox' = [inbox EXCEPT ![c] = Flush(Rest(c), {m})]
    /\ monitors' = [monitors EXCEPT ![c] = @ \ {m}]
    /\ IF ports[c][r].clients = {m}
       THEN /\ ports' = [ports EXCEPT ![c][r] = NoPort]
            /\ device' = [device EXCEPT ![c][r] = "closed"]
       ELSE /\ ports' = [ports EXCEPT ![c][r].clients = @ \ {m}]
            /\ UNCHANGED device

(* {:portclose, ref}: get_clientref looks for a client known by ref.        *)
HandleCloseCast(c, x) ==
    /\ Handles(c, "close_cast", x)
    /\ LET found == {p \in Refs \X Refs : p[2] \in ports[c][p[1]].clients /\ ClientRef(c, p[2]) = x}
       IN  IF found = {}
           THEN Drop(c) /\ UNCHANGED <<ports, monitors, device>>
           ELSE \E p \in found : RemoveClient(c, p[1], p[2])
    /\ UNCHANGED <<up, jobs, attempt, sent, losses>>

HandleDown(c, m) ==
    /\ Handles(c, "DOWN", m)
    /\ IF \E r \in Refs : m \in ports[c][r].clients
       THEN \E r \in Refs : m \in ports[c][r].clients /\ RemoveClient(c, r, m)
       ELSE Drop(c) /\ UNCHANGED <<ports, monitors, device>>
    /\ UNCHANGED <<up, jobs, attempt, sent, losses>>

(* ["portsend", ref, data]: on to every client that may be written to.      *)
HandlePortsend(c, r) ==
    /\ Handles(c, "portsend", r)
    /\ ports[c][r].state # "pre_open"
    /\ Drop(c)
    /\ sent' = sent \cup {<<Peer(c, m), m>> : m \in {n \in ports[c][r].clients : MayWrite(c, n)}}
    /\ UNCHANGED <<up, ports, monitors, jobs, attempt, device, losses>>

(* A match that fails: portsend and portclose have no clause for a port     *)
(* that is :pre_open, and the two responses match on nothing else.          *)
HandlerCrashes(c, r) ==
    /\ \/ ports[c][r].state = "pre_open" /\ (Handles(c, "portsend", r) \/ Handles(c, "portclose", r))
       \/ ports[c][r].state # "pre_open" /\ (Handles(c, "ok_call", r) \/ Handles(c, "error", r))
    /\ Down(c, {})
    /\ UNCHANGED losses

-----------------------------------------------------------------------------
Task(r) == CallPeer(r) \/ CallExits(r) \/ CallSelf(r) \/ Respond(r)

Serve(c) ==
    \E r \in Refs :
        \/ HandleMonitor(c, r)
        \/ HandlePortopen(c, r)
        \/ HandlePut(c, r)
        \/ HandleAnswer(c, r)
        \/ HandleOk(c, r)
        \/ HandleOkCall(c, r)
        \/ HandleError(c, r)
        \/ HandleDeviceClose(c, r)
        \/ HandleCloseCall(c, r)
        \/ HandleCloseCast(c, r)
        \/ HandleDown(c, r)
        \/ HandlePortsend(c, r)
        \/ HandlerCrashes(c, r)

Device(c, r) ==
    \/ \E d \in Conns, f \in Rights[c] : DeviceOpens(c, d, r, f)
    \/ DeviceAccepts(c, r)
    \/ DeviceRefuses(c, r)
    \/ DeviceSends(c, r)
    \/ DeviceCloses(c, r)

Next ==
    \/ \E c \in Conns, r \in Refs : Device(c, r)
    \/ \E c \in Conns : Lose(c)
    \/ \E r \in Refs : Task(r)
    \/ \E r \in Refs : CallTimesOut(r)
    \/ \E j \in jobs : CallBack(j)
    \/ \E c \in Conns : Serve(c)

(* Servers and tasks are scheduled, and the timer of a call expires; what   *)
(* the devices and the network do is their own choice.                      *)
Fairness ==
    /\ \A c \in Conns : WF_vars(Serve(c))
    /\ \A r \in Refs : WF_vars(Task(r)) /\ WF_vars(CallTimesOut(r))
    /\ WF_vars(\E j \in jobs : CallBack(j))

Spec == Init /\ [][Next]_vars /\ Fairness

-----------------------------------------------------------------------------
(* Properties.                                                             *)

Ops == {"monitor", "portopen", "put", "answer", "ok", "ok_call", "error", "portclose",
        "close_call", "close_cast", "DOWN", "portsend"}
Progress == {"idle", "monitor", "call", "wait", "replied", "put", "respond", "done",
             "failed", "late", "dead"}

(* The types of the servers' states; a port has clients, and one that waits *)
(* for its device has exactly the one that opened it.                       *)
TypeOK ==
    /\ up \in [Conns -> BOOLEAN]
    /\ \A c \in Conns : \A i \in DOMAIN inbox[c] :
           inbox[c][i] \in [op : Ops, ref : Refs, clients : SUBSET Refs]
    /\ ports \in [Conns -> [Refs -> [state : {"none", "pre_open", "open"},
                                     clients : SUBSET Refs]]]
    /\ \A c \in Conns, r \in Refs :
           /\ ports[c][r].state = "pre_open" => ports[c][r].clients = {r}
           /\ ports[c][r].state = "none" <=> ports[c][r].clients = {}
    /\ monitors \in [Conns -> SUBSET Refs]
    /\ \A r \in Refs :
           /\ attempt[r].pc \in Progress
           /\ attempt[r] # Unused => attempt[r].rights \in Rights[Opener(r)]
    /\ device \in [Conns -> [Refs -> {"none", "asked", "open", "closed"}]]
    /\ losses \in 0 .. MaxLosses

In(c, m) == \E i \in DOMAIN inbox[c] : inbox[c][i] = m
Clients(c) == UNION {ports[c][r].clients : r \in Refs}

(* The side that was asked notices the loss of every client: its process is *)
(* monitored, or the DOWN message is in the mailbox.                        *)
LossIsNoticed ==
    \A c \in Conns : \A m \in Clients(c) :
        ~IsOpener(c, m) =>
            IF up[Peer(c, m)] THEN m \in monitors[c] ELSE In(c, Msg("DOWN", m))

(* The two ends agree, seen from the side that was asked: a client of an    *)
(* open port is an attempt that is under way or timed out, or has its port  *)
(* at the opener, or is being closed.  Seen from the opener they need not:  *)
(* a close or a DOWN handled there before the put finds no client and the   *)
(* put stores a port nobody ends, and a client that joins a shared port     *)
(* while it is being closed is not told.                                    *)
EndsAgree ==
    \A c \in Conns, r \in Refs : \A m \in ports[c][r].clients :
        /\ ports[c][r].state = "open" /\ ~IsOpener(c, m) /\ up[Peer(c, m)]
        =>  \/ attempt[m].pc \in {"wait", "replied", "put", "late"}
            \/ ports[Opener(m)][m] # NoPort
            \/ In(c, Msg("close_cast", m))

(* No device gets data on a port before it has answered the open request    *)
(* for it, also when the sender joined a port another attempt had asked     *)
(* for: the ok of the device, of its task and of the opener's task come     *)
(* before the first portsend.                                               *)
DataIsInvited ==
    \A p \in sent :
        up[p[1]] /\ p[1] = attempt[p[2]].to
        => device[p[1]][attempt[p[2]].cref] \in {"open", "closed"}

(***************************************************************************)
(* The part of the inductive invariant on attempts and ports alone: the two *)
(* ends and the flags of an attempt are fixed when it is opened, between    *)
(* two connections.                                                         *)
(***************************************************************************)
AttemptsOK ==
    /\ attempt \in [Refs -> [pc : Progress, from : Conns \cup {NoConn}, to : Conns \cup {NoConn},
                             rights : SUBSET {"r", "w", "s"}, cref : Refs \cup {NoRef}]]
    /\ \A r \in Refs : attempt[r].rights # {} => attempt[r].from # attempt[r].to
PortsOK == ports \in [Conns -> [Refs -> [state : {"none", "pre_open", "open"}, clients : SUBSET Refs]]]
TablesOK == AttemptsOK /\ PortsOK

(* Every open request is answered, or its connection is gone.               *)
OpenIsAnswered ==
    \A r \in Refs : (attempt[r].pc = "monitor") ~> (attempt[r].pc \in {"done", "failed", "late", "dead"})

(* When the opener's end of a port is gone, by a close or by the loss of    *)
(* its connection, the other end forgets the client.                        *)
EndedPortIsForgotten ==
    \A m \in Refs :
        (\/ attempt[m].pc = "dead"
         \/ attempt[m].pc = "done" /\ ports[Opener(m)][m] = NoPort)
        ~> (\A c \in Conns : IsOpener(c, m) \/ m \notin Clients(c))

(* A claim of the repository that the code does not keep: docs/portopen.wsd *)
(* lets a device send data on a port once it accepted it, and has the data  *)
(* answered with ok.  The port becomes open only when the task of the       *)
(* device's ok calls its server; data handled before that crashes it.       *)
DataIsAnswered ==
    [][\A c \in Conns, r \in Refs :
           Handles(c, "portsend", r) => up'[c] \/ losses' # losses]_vars

==============================================================================
