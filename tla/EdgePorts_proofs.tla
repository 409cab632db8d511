---------------------------- MODULE EdgePorts_proofs ----------------------------
(***************************************************************************)
(* Proofs about EdgePorts for every set of connections, attempts and flags: *)
(* the side that was asked notices the loss of a client, no client of it    *)
(* has lost its end at the opener without being told, and no device gets    *)
(* data on a port it has not answered for.                                  *)
(***************************************************************************)
EXTENDS EdgePorts, FoldLemmas, FiniteSetTheorems, SequenceTheorems, TLAPS

SameArguments ==
    \A r \in Refs : /\ attempt'[r].from = attempt[r].from
                    /\ attempt'[r].to = attempt[r].to
                    /\ attempt'[r].rights = attempt[r].rights

(* No attempt is opened.                                                    *)
LEMMA QuietStep ==
    ASSUME TablesOK, attempt' \in [Refs -> [pc : Progress, from : Conns \cup {NoConn},
               to : Conns \cup {NoConn}, rights : SUBSET {"r", "w", "s"}, cref : Refs \cup {NoRef}]],
           SameArguments, PortsOK'
    PROVE  TablesOK'
    BY DEF TablesOK, AttemptsOK, SameArguments

LEMMA UnchangedStep ==
    ASSUME TablesOK, UNCHANGED attempt, PortsOK'
    PROVE  TablesOK'
    BY QuietStep DEF TablesOK, AttemptsOK, SameArguments

(* An attempt goes on.                                                      *)
LEMMA GoesStep ==
    ASSUME TablesOK, NEW r \in Refs, NEW pc \in Progress, Goes(r, pc), PortsOK'
    PROVE  TablesOK'
<1>1. attempt' = [attempt EXCEPT ![r].pc = pc]
    BY DEF Goes
<1>2. /\ attempt' \in [Refs -> [pc : Progress, from : Conns \cup {NoConn},
               to : Conns \cup {NoConn}, rights : SUBSET {"r", "w", "s"}, cref : Refs \cup {NoRef}]]
      /\ SameArguments
    BY <1>1 DEF TablesOK, AttemptsOK, SameArguments
<1> QED
    BY <1>2, QuietStep

LEMMA RepliedStep ==
    ASSUME TablesOK, NEW r \in Refs, NEW x \in Refs, Replied(r, x), PortsOK'
    PROVE  TablesOK'
<1>1. CASE attempt' = [attempt EXCEPT ![r].pc = "replied", ![r].cref = x]
    <2> DEFINE old == attempt[r]
               new == [pc |-> "replied", from |-> old.from, to |-> old.to,
                       rights |-> old.rights, cref |-> x]
    <2>1. /\ old \in [pc : Progress, from : Conns \cup {NoConn}, to : Conns \cup {NoConn},
                      rights : SUBSET {"r", "w", "s"}, cref : Refs \cup {NoRef}]
          /\ DOMAIN attempt = Refs
        BY DEF TablesOK, AttemptsOK
    <2>2. new \in [pc : Progress, from : Conns \cup {NoConn}, to : Conns \cup {NoConn},
                   rights : SUBSET {"r", "w", "s"}, cref : Refs \cup {NoRef}]
        BY <2>1 DEF Progress
    <2>3. [[old EXCEPT !.pc = "replied"] EXCEPT !.cref = x] = new
        <3> DEFINE mid == [old EXCEPT !.pc = "replied"]
        <3>1. mid = [pc |-> "replied", from |-> old.from, to |-> old.to,
                     rights |-> old.rights, cref |-> old.cref]
            BY <2>1
        <3> HIDE DEF mid, old
        <3>2. [mid EXCEPT !.cref = x] = new
            BY <3>1
        <3> QED
            BY <3>2 DEF mid
    <2>4. attempt' = [attempt EXCEPT ![r] = new]
        BY <1>1, <2>1, <2>3
    <2>5. new.from = old.from /\ new.to = old.to /\ new.rights = old.rights
        OBVIOUS
    <2> HIDE DEF new
    <2>6. /\ attempt' \in [Refs -> [pc : Progress, from : Conns \cup {NoConn},
               to : Conns \cup {NoConn}, rights : SUBSET {"r", "w", "s"}, cref : Refs \cup {NoRef}]]
          /\ SameArguments
        BY <2>2, <2>4, <2>5 DEF TablesOK, AttemptsOK, SameArguments
    <2> QED
        BY <2>6, QuietStep
<1>2. CASE attempt' = attempt
    BY <1>2, UnchangedStep
<1> QED
    BY <1>1, <1>2 DEF Replied

LEMMA DownStep ==
    ASSUME TablesOK, NEW c \in Conns, NEW left, Down(c, left)
    PROVE  TablesOK'
<1>1. attempt' = [r \in Refs |->
           IF attempt[r].from = c /\ attempt[r].pc \notin left
           THEN [attempt[r] EXCEPT !.pc = "dead"] ELSE attempt[r]]
    BY DEF Down
<1>2. /\ attempt' \in [Refs -> [pc : Progress, from : Conns \cup {NoConn},
               to : Conns \cup {NoConn}, rights : SUBSET {"r", "w", "s"}, cref : Refs \cup {NoRef}]]
      /\ SameArguments
    BY <1>1 DEF TablesOK, AttemptsOK, SameArguments, Progress
<1>3. PortsOK'
    BY DEF Down, TablesOK, PortsOK, NoPorts, NoPort
<1> QED
    BY <1>2, <1>3, QuietStep DEF Down

-----------------------------------------------------------------------------
(* The tables of the servers.                                              *)

LEMMA SetPort ==
    ASSUME PortsOK, NEW c \in Conns, NEW r \in Refs,
           NEW p \in [state : {"none", "pre_open", "open"}, clients : SUBSET Refs],
           ports' = [ports EXCEPT ![c][r] = p]
    PROVE  PortsOK'
    BY DEF PortsOK

LEMMA SetClients ==
    ASSUME PortsOK, NEW c \in Conns, NEW r \in Refs, NEW S \in SUBSET Refs,
           ports' = [ports EXCEPT ![c][r].clients = S]
    PROVE  PortsOK'
    BY DEF PortsOK

LEMMA SetState ==
    ASSUME PortsOK, NEW c \in Conns, NEW r \in Refs, NEW s \in {"none", "pre_open", "open"},
           ports' = [ports EXCEPT ![c][r].state = s]
    PROVE  PortsOK'
<1> DEFINE old == ports[c][r]
           p == [old EXCEPT !.state = s]
<1>1. old \in [state : {"none", "pre_open", "open"}, clients : SUBSET Refs]
    BY DEF PortsOK
<1>2. ports' = [ports EXCEPT ![c][r] = p]
    OBVIOUS
<1> HIDE DEF old
<1>3. p \in [state : {"none", "pre_open", "open"}, clients : SUBSET Refs]
    BY <1>1
<1> HIDE DEF p
<1> QED
    BY <1>2, <1>3, SetPort

LEMMA RemoveClientStep ==
    ASSUME PortsOK, NEW c \in Conns, NEW r \in Refs, NEW m, RemoveClient(c, r, m)
    PROVE  PortsOK'
<1>1. CASE ports' = [ports EXCEPT ![c][r] = NoPort]
    BY <1>1, SetPort DEF NoPort
<1>2. CASE ports' = [ports EXCEPT ![c][r].clients = @ \ {m}]
    <2> DEFINE S == ports[c][r].clients \ {m}
    <2>1. S \in SUBSET Refs
        BY DEF PortsOK
    <2>2. ports' = [ports EXCEPT ![c][r].clients = S]
        BY <1>2
    <2> HIDE DEF S
    <2> QED
        BY <2>1, <2>2, SetClients
<1> QED
    BY <1>1, <1>2 DEF RemoveClient

-----------------------------------------------------------------------------
(* TablesOK is inductive.                                                  *)

LEMMA TablesInit == Init => TablesOK
<1> SUFFICES ASSUME Init PROVE TablesOK
    OBVIOUS
<1>1. Unused \in [pc : Progress, from : Conns \cup {NoConn}, to : Conns \cup {NoConn},
                  rights : SUBSET {"r", "w", "s"}, cref : Refs \cup {NoRef}]
    BY DEF Unused, Progress
<1>2. AttemptsOK
    <2>1. Unused.rights = {}
        BY DEF Unused
    <2> QED
        BY <1>1, <2>1 DEF Init, AttemptsOK
<1>3. PortsOK
    BY DEF Init, PortsOK, NoPorts, NoPort
<1> QED
    BY <1>2, <1>3 DEF TablesOK

LEMMA OpensStep ==
    ASSUME TablesOK, NEW c \in Conns, NEW d \in Conns, NEW r \in Refs, NEW f \in Rights[c],
           DeviceOpens(c, d, r, f)
    PROVE  TablesOK'
<1> DEFINE new == [pc |-> "monitor", from |-> c, to |-> d, rights |-> f, cref |-> NoRef]
<1>1. /\ c # d /\ attempt[r] = Unused /\ attempt' = [attempt EXCEPT ![r] = new]
      /\ UNCHANGED ports
    BY DEF DeviceOpens
<1>2. f \in SUBSET {"r", "w", "s"}
    BY EdgePortsAssumption
<1>3. /\ new \in [pc : Progress, from : Conns \cup {NoConn}, to : Conns \cup {NoConn},
                   rights : SUBSET {"r", "w", "s"}, cref : Refs \cup {NoRef}]
      /\ new.from = c /\ new.to = d
    BY <1>2 DEF Progress
<1> HIDE DEF new
<1>4. AttemptsOK'
    BY <1>1, <1>3 DEF TablesOK, AttemptsOK
<1> QED
    BY <1>1, <1>4 DEF TablesOK, PortsOK

LEMMA DeviceStep ==
    ASSUME TablesOK, NEW c \in Conns, NEW r \in Refs, Device(c, r)
    PROVE  TablesOK'
<1>1. CASE DeviceAccepts(c, r) \/ DeviceRefuses(c, r) \/ DeviceSends(c, r) \/ DeviceCloses(c, r)
    <2>1. UNCHANGED <<ports, attempt>>
        BY <1>1 DEF DeviceAccepts, DeviceRefuses, DeviceSends, DeviceCloses
    <2> QED
        BY <2>1, UnchangedStep DEF TablesOK, PortsOK
<1> QED
    BY <1>1, OpensStep DEF Device

LEMMA TaskStep ==
    ASSUME TablesOK, NEW r \in Refs, Task(r) \/ CallTimesOut(r)
    PROVE  TablesOK'
<1>1. UNCHANGED ports
    BY DEF Task, CallPeer, CallExits, CallSelf, Respond, CallTimesOut
<1>2. PICK pc \in Progress : Goes(r, pc)
    BY DEF Task, CallPeer, CallExits, CallSelf, Respond, CallTimesOut, Progress
<1> QED
    BY <1>1, <1>2, GoesStep DEF TablesOK, PortsOK

LEMMA PortopenStep ==
    ASSUME TablesOK, NEW c \in Conns, NEW r \in Refs, HandlePortopen(c, r)
    PROVE  TablesOK'
<1>1. PortsOK
    BY DEF TablesOK
<1>2. CASE SharedPorts(c, r) = {}
    <2>1. UNCHANGED attempt /\ ports' = [ports EXCEPT ![c][r] = [state |-> "pre_open", clients |-> {r}]]
        BY <1>2 DEF HandlePortopen
    <2>2. PortsOK'
        BY <1>1, <2>1, SetPort
    <2> QED
        BY <1>1, <2>1, <2>2, UnchangedStep
<1>3. CASE SharedPorts(c, r) # {}
    <2>1. PICK x \in SharedPorts(c, r) : /\ ports' = [ports EXCEPT ![c][x].clients = @ \cup {r}]
                                        /\ Replied(r, x)
        BY <1>3 DEF HandlePortopen
    <2>2. x \in Refs
        BY DEF SharedPorts
    <2> DEFINE S == ports[c][x].clients \cup {r}
    <2>3. S \in SUBSET Refs
        BY <1>1, <2>2 DEF PortsOK
    <2>4. ports' = [ports EXCEPT ![c][x].clients = S]
        BY <2>1
    <2> HIDE DEF S
    <2>5. PortsOK'
        BY <1>1, <2>2, <2>3, <2>4, SetClients
    <2> QED
        BY <1>1, <2>1, <2>2, <2>5, RepliedStep
<1> QED
    BY <1>2, <1>3

LEMMA ServeStep ==
    ASSUME TablesOK, NEW c \in Conns, Serve(c)
    PROVE  TablesOK'
<1>1. PICK r \in Refs :
        \/ HandleMonitor(c, r) \/ HandlePortopen(c, r) \/ HandlePut(c, r) \/ HandleAnswer(c, r)
        \/ HandleOk(c, r) \/ HandleOkCall(c, r) \/ HandleError(c, r) \/ HandleDeviceClose(c, r)
        \/ HandleCloseCall(c, r) \/ HandleCloseCast(c, r) \/ HandleDown(c, r)
        \/ HandlePortsend(c, r) \/ HandlerCrashes(c, r)
    BY DEF Serve
<1>2. PortsOK
    BY DEF TablesOK
<1>3. CASE HandleMonitor(c, r)
    <2>1. UNCHANGED ports /\ Goes(r, "call")
        BY <1>3 DEF HandleMonitor
    <2> QED
        BY <1>2, <2>1, GoesStep DEF PortsOK, Progress
<1>4. CASE HandlePut(c, r)
    <2>1. /\ ports' = [ports EXCEPT ![c][r] = [state |-> "open", clients |-> {r}]]
          /\ Goes(r, "respond")
        BY <1>4 DEF HandlePut
    <2>2. PortsOK'
        BY <1>2, <2>1, SetPort
    <2> QED
        BY <2>1, <2>2, GoesStep DEF Progress
<1>5. CASE HandleAnswer(c, r) \/ HandleOk(c, r) \/ HandleDeviceClose(c, r) \/ HandlePortsend(c, r)
    <2>1. UNCHANGED <<ports, attempt>>
        BY <1>5 DEF HandleAnswer, HandleOk, HandleDeviceClose, HandlePortsend
    <2> QED
        BY <1>2, <2>1, UnchangedStep DEF PortsOK
<1>6. CASE HandleOkCall(c, r)
    <2>1. ports' = [ports EXCEPT ![c][r].state = "open"] /\ Replied(r, r)
        BY <1>6 DEF HandleOkCall
    <2> DEFINE open == "open"
    <2>2. open \in {"none", "pre_open", "open"} /\ ports' = [ports EXCEPT ![c][r].state = open]
        BY <2>1
    <2> HIDE DEF open
    <2>3. PortsOK'
        BY <1>2, <2>2, SetState
    <2> QED
        BY <2>1, <2>3, RepliedStep
<1>7. CASE HandleError(c, r)
    <2>1. UNCHANGED ports /\ (Goes(r, "failed") \/ UNCHANGED attempt)
        BY <1>7 DEF HandleError
    <2> QED
        BY <1>2, <2>1, GoesStep, UnchangedStep DEF PortsOK, Progress
<1>8. CASE HandleCloseCall(c, r)
    <2>1. ports' = [ports EXCEPT ![c][r] = NoPort] /\ UNCHANGED attempt
        BY <1>8 DEF HandleCloseCall
    <2>2. PortsOK'
        BY <1>2, <2>1, SetPort DEF NoPort
    <2> QED
        BY <2>1, <2>2, UnchangedStep
<1>9. CASE HandleCloseCast(c, r) \/ HandleDown(c, r)
    <2>1. UNCHANGED attempt
        BY <1>9 DEF HandleCloseCast, HandleDown
    <2>2. ports' = ports \/ \E x \in Refs, m \in Refs : RemoveClient(c, x, m)
        BY <1>9 DEF HandleCloseCast, HandleDown
    <2>3. PortsOK'
        BY <1>2, <2>2, RemoveClientStep DEF PortsOK
    <2> QED
        BY <2>1, <2>3, UnchangedStep
<1>10. CASE HandlerCrashes(c, r)
    BY <1>10, DownStep DEF HandlerCrashes
<1> QED
    BY <1>1, <1>3, <1>4, <1>5, <1>6, <1>7, <1>8, <1>9, <1>10, PortopenStep

LEMMA TablesStep == TablesOK /\ [Next]_vars => TablesOK'
<1> SUFFICES ASSUME TablesOK, [Next]_vars PROVE TablesOK'
    OBVIOUS
<1>1. ASSUME NEW c \in Conns, Lose(c) PROVE TablesOK'
    BY <1>1, DownStep DEF Lose
<1>2. ASSUME NEW j \in jobs, CallBack(j) PROVE TablesOK'
    BY <1>2, UnchangedStep DEF CallBack, TablesOK, PortsOK
<1>3. CASE UNCHANGED vars
    BY <1>3, UnchangedStep DEF vars, TablesOK, PortsOK
<1> QED
    BY <1>1, <1>2, <1>3, DeviceStep, TaskStep, ServeStep DEF Next

-----------------------------------------------------------------------------
(* The invariant behind LossIsNoticed and EndsAgree.                        *)

Messages == [op : Ops, ref : Refs, clients : SUBSET Refs]
Jobs == [conn : Conns, msg : [op : {"ok_call", "close_call"}, ref : Refs, clients : SUBSET Refs]]

Held ==
    /\ up \in [Conns -> BOOLEAN]
    /\ inbox \in [Conns -> Seq(Messages)]
    /\ jobs \subseteq Jobs
    /\ monitors \in [Conns -> SUBSET Refs]
    /\ device \in [Conns -> [Refs -> {"none", "asked", "open", "closed"}]]
    /\ losses \in 0 .. MaxLosses

(* The messages that wait for a server, and those its tasks will send it.   *)
Box(c) == ToSet(inbox[c])
Calls(c) == {j.msg : j \in {k \in jobs : k.conn = c}}
Due(c) == Box(c) \cup Calls(c)
Has(S, ops, r) == \E x \in S : x.op \in ops /\ x.ref = r

(* The open request of r was handled, or will never be sent.                *)
Arrived(r) ==
    /\ attempt[r].pc \notin {"idle", "monitor", "call"}
    /\ ~Has(Box(attempt[r].to), {"portopen"}, r)

(* An attempt is of two connections; its task lives as long as the opener;  *)
(* it learns the port it joined with the reply to its request.              *)
Stage(r) ==
    LET a == attempt[r] IN
    /\ a.pc = "idle" => a = Unused
    /\ a.pc # "idle" => a.from \in Conns /\ a.to \in Conns /\ a.from # a.to /\ a.rights \in Rights[a.from]
    /\ a.pc \in {"monitor", "wait", "replied", "put", "respond", "done", "late"} => up[a.from]
    /\ a.pc = "dead" => ~up[a.from]
    /\ a.cref # NoRef => Arrived(r) /\ attempt[a.cref].to = a.to

(* What a message on its way to c says of the attempts.                     *)
Rule(c, x) ==
    LET a == attempt[x.ref] IN
    /\ x.op = "monitor" => a.from = c /\ a.pc = "monitor"
    /\ x.op = "portopen" => a.to = c /\ a.pc \in {"wait", "late", "dead"}
    /\ x.op = "put" => a.from = c /\ a.pc \in {"put", "respond", "done"}
    /\ x.op = "answer" => a.from = c
    /\ x.op \in {"ok", "ok_call", "error"} => a.to = c /\ Arrived(x.ref)
    /\ x.op = "close_call" =>
          /\ \/ a.from = c /\ x.clients = {x.ref}
             \/ a.to = c /\ Arrived(x.ref) /\ \A m \in x.clients : attempt[m].to = c /\ Arrived(m)
          /\ \A m \in x.clients, q \in Refs : m \in ports[c][q].clients => q = x.ref
    /\ x.op = "close_cast" /\ a.to # c => a.to \in Conns /\ Arrived(x.ref) /\ ports[a.to][x.ref] = NoPort
    /\ x.op = "DOWN" => Peer(c, x.ref) \in Conns /\ ~up[Peer(c, x.ref)]

(* A client is a client of one port: the opener of its own, the side that   *)
(* was asked of one that was opened there.                                  *)
Alone(c, r, m) == \A q \in Refs : m \in ports[c][q].clients => q = r

Belongs(c, r, m) ==
    LET a == attempt[m] IN
    /\ a.from = c => r = m
    /\ a.from # c =>
          /\ a.to = c /\ attempt[r].to = c /\ Arrived(m) /\ Arrived(r)
          /\ a.cref # NoRef => a.cref = r

(* The loss of its opener is noticed, and so is the end of its port.        *)
Watched(c, m) ==
    attempt[m].from # c =>
        IF up[attempt[m].from] THEN m \in monitors[c] ELSE Msg("DOWN", m) \in Box(c)

Linked(c, r, m) ==
    LET a == attempt[m] IN
    a.from # c =>
        /\ a.pc = "failed" => ports[c][r].state = "pre_open"
        /\ a.pc \in {"respond", "done"} => ports[a.from][m] # NoPort \/ Msg("close_cast", m) \in Box(c)

Client(c, r, m) == Alone(c, r, m) /\ Belongs(c, r, m) /\ Watched(c, m) /\ Linked(c, r, m)

PortShape(c, r) ==
    /\ ports[c][r].state = "none" <=> ports[c][r].clients = {}
    /\ ports[c][r].state = "pre_open" =>
          /\ ports[c][r].clients = {r} /\ attempt[r].to = c
          /\ attempt[r].pc \in {"wait", "late", "dead", "failed"}

(* A device answers an open request once.                                  *)
Answers(c, r) ==
    /\ device[c][r] = "asked" =>
          attempt[r].to = c /\ Arrived(r) /\ ~Has(Due(c), {"ok", "ok_call", "error"}, r)
    /\ Has(Due(c), {"error"}, r) \/ (ports[c][r].state = "pre_open" /\ attempt[r].pc = "failed") =>
          device[c][r] = "closed" /\ ~Has(Due(c), {"ok", "ok_call"}, r)

Gone(c) == ~up[c] => inbox[c] = <<>> /\ ports[c] = NoPorts /\ \A j \in jobs : j.conn # c

(* One task sends one open request, and one request to monitor.             *)
Single(box) ==
    \A i, j \in 1 .. Len(box) :
        /\ box[i].op \in {"monitor", "portopen"}
        /\ box[i].op = box[j].op /\ box[i].ref = box[j].ref
        => i = j

EdgeInv ==
    /\ TablesOK /\ Held
    /\ \A r \in Refs : Stage(r)
    /\ \A c \in Conns :
          /\ Gone(c) /\ Single(inbox[c])
          /\ \A x \in Due(c) : Rule(c, x)
          /\ \A r \in Refs :
                /\ PortShape(c, r) /\ Answers(c, r)
                /\ \A m \in ports[c][r].clients : Client(c, r, m)

-----------------------------------------------------------------------------
(* Mailboxes.                                                              *)

LEMMA BoxAppend ==
    ASSUME NEW s \in Seq(Messages), NEW m \in Messages
    PROVE  /\ Append(s, m) \in Seq(Messages)
           /\ ToSet(Append(s, m)) = ToSet(s) \cup {m}
           /\ /\ Single(s)
              /\ m.op \in {"monitor", "portopen"} => ~Has(ToSet(s), {m.op}, m.ref)
              => Single(Append(s, m))
<1> DEFINE t == Append(s, m)
<1>1. /\ t \in Seq(Messages) /\ Len(t) = Len(s) + 1 /\ Len(s) \in Nat
      /\ \A i \in 1 .. Len(s) : t[i] = s[i]
      /\ t[Len(s) + 1] = m
    OBVIOUS
<1> HIDE DEF t
<1>2. ToSet(t) = ToSet(s) \cup {m}
    <2>1. DOMAIN t = 1 .. Len(s) + 1 /\ DOMAIN s = 1 .. Len(s)
        BY <1>1
    <2>2. DOMAIN t = DOMAIN s \cup {Len(s) + 1}
        BY <2>1, <1>1
    <2> QED
        BY <2>1, <2>2, <1>1 DEF ToSet
<1>3. ASSUME Single(s), m.op \in {"monitor", "portopen"} => ~Has(ToSet(s), {m.op}, m.ref)
      PROVE  Single(t)
    <2>1. \A i \in 1 .. Len(s) : s[i] \in ToSet(s)
        BY DEF ToSet
    <2>2. \A i \in 1 .. Len(s) :
              ~ (m.op \in {"monitor", "portopen"} /\ s[i].op = m.op /\ s[i].ref = m.ref)
        BY <1>3, <2>1 DEF Has
    <2> SUFFICES ASSUME NEW i \in 1 .. Len(t), NEW j \in 1 .. Len(t),
                        t[i].op \in {"monitor", "portopen"}, t[i].op = t[j].op, t[i].ref = t[j].ref
                 PROVE  i = j
        BY DEF Single
    <2>3. (i \in 1 .. Len(s) \/ i = Len(s) + 1) /\ (j \in 1 .. Len(s) \/ j = Len(s) + 1)
        BY <1>1
    <2>4. CASE i \in 1 .. Len(s) /\ j \in 1 .. Len(s)
        BY <2>4, <1>1, <1>3 DEF Single
    <2>5. CASE i \in 1 .. Len(s) /\ j = Len(s) + 1
        BY <2>5, <1>1, <2>2
    <2>6. CASE j \in 1 .. Len(s) /\ i = Len(s) + 1
        BY <2>6, <1>1, <2>2
    <2> QED
        BY <2>3, <2>4, <2>5, <2>6
<1> QED
    BY <1>1, <1>2, <1>3 DEF t

LEMMA BoxTail ==
    ASSUME NEW s \in Seq(Messages), s # <<>>
    PROVE  /\ Tail(s) \in Seq(Messages) /\ Head(s) \in Messages
           /\ ToSet(s) = ToSet(Tail(s)) \cup {Head(s)}
           /\ Single(s) =>
                 /\ Single(Tail(s))
                 /\ Head(s).op \in {"monitor", "portopen"} =>
                       ~Has(ToSet(Tail(s)), {Head(s).op}, Head(s).ref)
<1> DEFINE t == Tail(s)
<1>1. /\ t \in Seq(Messages) /\ Len(s) \in Nat /\ Len(s) > 0 /\ Len(t) = Len(s) - 1
      /\ \A i \in 1 .. Len(t) : t[i] = s[i + 1]
      /\ Head(s) = s[1] /\ s[1] \in Messages
    BY HeadTailProperties
<1> HIDE DEF t
<1>2. ToSet(s) = ToSet(t) \cup {s[1]}
    <2>1. DOMAIN t = 1 .. Len(t) /\ DOMAIN s = 1 .. Len(s)
        BY <1>1
    <2>2. \A i \in DOMAIN t : i + 1 \in DOMAIN s /\ t[i] = s[i + 1]
        BY <2>1, <1>1
    <2>3. \A i \in DOMAIN s : i = 1 \/ (i - 1 \in DOMAIN t /\ t[i - 1] = s[i])
        <3> TAKE i \in DOMAIN s
        <3>1. CASE i # 1
            <4>1. i - 1 \in 1 .. Len(t) /\ (i - 1) + 1 = i
                BY <3>1, <2>1, <1>1
            <4> QED
                BY <4>1, <2>1, <1>1
        <3> QED
            BY <3>1
    <2>4. 1 \in DOMAIN s
        BY <2>1, <1>1
    <2>5. ASSUME NEW x \in ToSet(s) PROVE x \in ToSet(t) \cup {s[1]}
        BY <2>3 DEF ToSet
    <2>6. ASSUME NEW x \in ToSet(t) PROVE x \in ToSet(s)
        BY <2>2 DEF ToSet
    <2>7. s[1] \in ToSet(s)
        BY <2>4 DEF ToSet
    <2> QED
        BY <2>5, <2>6, <2>7
<1>3. ASSUME Single(s)
      PROVE  /\ Single(t)
             /\ s[1].op \in {"monitor", "portopen"} => ~Has(ToSet(t), {s[1].op}, s[1].ref)
    <2>1. Single(t)
        <3> SUFFICES ASSUME NEW i \in 1 .. Len(t), NEW j \in 1 .. Len(t),
                            t[i].op \in {"monitor", "portopen"}, t[i].op = t[j].op, t[i].ref = t[j].ref
                     PROVE  i = j
            BY DEF Single
        <3>1. /\ i + 1 \in 1 .. Len(s) /\ j + 1 \in 1 .. Len(s)
              /\ t[i] = s[i + 1] /\ t[j] = s[j + 1]
            BY <1>1
        <3>2. i + 1 = j + 1
            BY <3>1, <1>3 DEF Single
        <3> QED
            BY <3>2, <1>1
    <2>2. ASSUME s[1].op \in {"monitor", "portopen"}, Has(ToSet(t), {s[1].op}, s[1].ref)
          PROVE  FALSE
        <3>1. DOMAIN t = 1 .. Len(t)
            BY <1>1
        <3>2. PICK i \in 1 .. Len(t) : t[i].op = s[1].op /\ t[i].ref = s[1].ref
            BY <2>2, <3>1 DEF Has, ToSet
        <3>3. i + 1 \in 1 .. Len(s) /\ 1 \in 1 .. Len(s) /\ s[i + 1].op = s[1].op /\ s[i + 1].ref = s[1].ref
            BY <3>2, <1>1
        <3>4. i + 1 = 1
            BY <3>3, <2>2, <1>3 DEF Single
        <3> QED
            BY <3>4, <1>1
    <2> QED
        BY <2>1, <2>2
<1> QED
    BY <1>1, <1>2, <1>3 DEF t

(* Messages of a kind that may come more than once are added.               *)
LEMMA BoxConcat ==
    ASSUME NEW s \in Seq(Messages), NEW t \in Seq(Messages)
    PROVE  /\ s \o t \in Seq(Messages)
           /\ ToSet(s \o t) = ToSet(s) \cup ToSet(t)
           /\ Single(s) /\ (\A x \in ToSet(t) : x.op \notin {"monitor", "portopen"}) => Single(s \o t)
<1> DEFINE u == s \o t
<1>1. /\ u \in Seq(Messages) /\ Len(u) = Len(s) + Len(t) /\ Len(s) \in Nat /\ Len(t) \in Nat
      /\ \A i \in 1 .. Len(s) : u[i] = s[i]
      /\ \A i \in 1 .. Len(t) : u[Len(s) + i] = t[i]
    <2>1. Len(s) \in Nat /\ Len(t) \in Nat
        OBVIOUS
    <2> QED
        BY <2>1, ConcatProperties
<1> HIDE DEF u
<1>2. DOMAIN u = 1 .. Len(u) /\ DOMAIN s = 1 .. Len(s) /\ DOMAIN t = 1 .. Len(t)
    BY <1>1
<1>3. \A i \in DOMAIN u : i \in DOMAIN s \/ (i - Len(s) \in DOMAIN t /\ u[i] = t[i - Len(s)])
    <2> TAKE i \in DOMAIN u
    <2>1. CASE i \notin DOMAIN s
        <3>1. i - Len(s) \in 1 .. Len(t) /\ Len(s) + (i - Len(s)) = i
            BY <2>1, <1>1, <1>2
        <3> QED
            BY <3>1, <1>1, <1>2
    <2> QED
        BY <2>1
<1>4. \A i \in DOMAIN s : i \in DOMAIN u /\ u[i] = s[i]
    BY <1>1, <1>2
<1>5. \A i \in DOMAIN t : Len(s) + i \in DOMAIN u /\ u[Len(s) + i] = t[i]
    BY <1>1, <1>2
<1>6. ToSet(u) = ToSet(s) \cup ToSet(t)
    <2>1. ASSUME NEW x \in ToSet(u) PROVE x \in ToSet(s) \cup ToSet(t)
        BY <1>3, <1>4 DEF ToSet
    <2>2. ASSUME NEW x \in ToSet(s) PROVE x \in ToSet(u)
        BY <1>4 DEF ToSet
    <2>3. ASSUME NEW x \in ToSet(t) PROVE x \in ToSet(u)
        BY <1>5 DEF ToSet
    <2> QED
        BY <2>1, <2>2, <2>3
<1>7. ASSUME Single(s), \A x \in ToSet(t) : x.op \notin {"monitor", "portopen"}
      PROVE  Single(u)
    <2>1. \A i \in DOMAIN u : u[i].op \in {"monitor", "portopen"} => i \in DOMAIN s
        <3> TAKE i \in DOMAIN u
        <3>1. CASE i \notin DOMAIN s
            <4>1. u[i] \in ToSet(t)
                BY <3>1, <1>3 DEF ToSet
            <4> QED
                BY <4>1, <1>7
        <3> QED
            BY <3>1
    <2>2. \A i, j \in DOMAIN s :
              /\ s[i].op \in {"monitor", "portopen"}
              /\ s[i].op = s[j].op /\ s[i].ref = s[j].ref
              => i = j
        BY <1>2, <1>7 DEF Single
    <2>3. ASSUME NEW i \in DOMAIN u, NEW j \in DOMAIN u,
                 u[i].op \in {"monitor", "portopen"}, u[i].op = u[j].op, u[i].ref = u[j].ref
          PROVE  i = j
        BY <2>1, <2>2, <2>3, <1>4
    <2> QED
        BY <2>3, <1>2 DEF Single
<1> QED
    BY <1>1, <1>6, <1>7 DEF u

(* Flush keeps the messages that are not the DOWN of a monitor in ms.       *)
LEMMA BoxFlush ==
    ASSUME NEW s \in Seq(Messages), NEW ms \in SUBSET Refs
    PROVE  /\ Flush(s, ms) \in Seq(Messages)
           /\ ToSet(Flush(s, ms)) = {x \in ToSet(s) : ~(x.op = "DOWN" /\ x.ref \in ms)}
           /\ Single(s) => Single(Flush(s, ms))
<1> DEFINE A == Seq(Messages)
           Goes2(x) == x.op = "DOWN" /\ x.ref \in ms
           Op(kept, x) == IF Goes2(x) THEN kept ELSE Append(kept, x)
           G == [p \in A \X Messages |-> Op(p[1], p[2])]
           N == Len(s)
           Rec(f) == [S \in SUBSET DOMAIN s |->
                         IF S = {} THEN <<>> ELSE Op(f[S \ {Max(S)}], s[Max(S)])]
           it == CHOOSE f : f = Rec(f)
<1>1. Flush(s, ms) = it[DOMAIN s]
    BY DEF Flush, FoldLeft, MapThenFoldSet
<1>2. \A t \in A, x \in Messages : Op(t, x) \in A
    OBVIOUS
<1>3. \A t \in A, x \in Messages : (Goes2(x) => Op(t, x) = t) /\ (~Goes2(x) => Op(t, x) = Append(t, x))
    OBVIOUS
<1>0. \A x \in Messages : Goes2(x) <=> x.op = "DOWN" /\ x.ref \in ms
    OBVIOUS
<1> HIDE DEF Op
<1>4. DOMAIN s = 1 .. N /\ N \in Nat
    OBVIOUS
<1>5. G \in [A \X Messages -> A]
    BY <1>2
<1>6. PICK f : Folds(f, A, G, <<>>, s)
    <2>1. <<>> \in A
        OBVIOUS
    <2> HIDE DEF G, A
    <2> QED BY <1>5, <2>1, FoldExists
<1>7. f = Rec(f)
    <2>1. f \in [SUBSET (1 .. N) -> A] /\ f[{}] = <<>>
        BY <1>6 DEF Folds
    <2>2. ASSUME NEW S \in SUBSET (1 .. N), S # {}
          PROVE  f[S] = Op(f[S \ {Max(S)}], s[Max(S)])
        <3>1. /\ f[S] = G[<<f[S \ {Max(S)}], s[Max(S)]>>]
              /\ f[S \ {Max(S)}] \in A /\ s[Max(S)] \in Messages
            <4> HIDE DEF G, A
            <4> QED BY <1>6, <2>2, FoldStep
        <3> QED
            BY <3>1
    <2> HIDE DEF G, A
    <2> QED
        BY <1>4, <2>1, <2>2
<1>8. it = Rec(it)
    <2> HIDE DEF Rec
    <2> QED BY <1>7
<1> HIDE DEF it
<1> DEFINE Kept(n) == {x \in {s[i] : i \in 1 .. n} : ~Goes2(x)}
           Good(n) == /\ it[1 .. n] \in Seq(Messages)
                      /\ ToSet(it[1 .. n]) = Kept(n)
                      /\ Single(s) => Single(it[1 .. n])
           All == {n \in Nat : n <= N => Good(n)}
<1>9. 0 \in All
    <2>1. 1 .. 0 = {} /\ it[{}] = <<>>
        BY <1>8
    <2>2. ToSet(<<>>) = {} /\ Single(<<>>)
        BY DEF ToSet, Single
    <2>3. Kept(0) = {}
        BY <2>1
    <2> HIDE DEF Kept
    <2>5. it[1 .. 0] = <<>> /\ <<>> \in Seq(Messages)
        BY <2>1
    <2>4. Good(0)
        BY <2>2, <2>3, <2>5
    <2> QED
        BY <2>4
<1>10. ASSUME NEW n \in All PROVE n + 1 \in All
    <2> SUFFICES ASSUME n + 1 <= N PROVE Good(n + 1)
        OBVIOUS
    <2> DEFINE t == it[1 .. n]
               x == s[n + 1]
    <2>1. t \in Seq(Messages) /\ ToSet(t) = Kept(n) /\ (Single(s) => Single(t))
        OBVIOUS
    <2>2. x \in Messages /\ n + 1 \in 1 .. N /\ n \in Nat
        OBVIOUS
    <2>3. it[1 .. n + 1] = Op(t, x)
        <3>1. (1 .. n + 1) \ {n + 1} = 1 .. n
            OBVIOUS
        <3>2. (1 .. n + 1) \in SUBSET (1 .. N) /\ n + 1 \in 1 .. n + 1 /\ n + 1 \in Nat
            OBVIOUS
        <3>3. Max(1 .. n + 1) = n + 1
            BY <3>2, MaxOf
        <3> QED
            BY <3>1, <3>2, <3>3, <1>4, <1>8
    <2>4. {s[i] : i \in 1 .. n + 1} = {s[i] : i \in 1 .. n} \cup {x}
        <3>1. 1 .. n + 1 = (1 .. n) \cup {n + 1}
            OBVIOUS
        <3> QED BY <3>1
    <2> HIDE DEF Good, All, t
    <2>5. CASE Goes2(x)
        <3>1. it[1 .. n + 1] = t
            BY <2>1, <2>2, <2>3, <2>5, <1>3
        <3>2. Kept(n + 1) = Kept(n)
            BY <2>4, <2>5
        <3> QED
            BY <2>1, <3>1, <3>2 DEF Good
    <2>6. CASE ~Goes2(x)
        <3>1. it[1 .. n + 1] = Append(t, x)
            BY <2>1, <2>2, <2>3, <2>6, <1>3
        <3>2. Kept(n + 1) = Kept(n) \cup {x}
            BY <2>4, <2>6
        <3>3. ASSUME Single(s), x.op \in {"monitor", "portopen"}
              PROVE  ~Has(ToSet(t), {x.op}, x.ref)
            <4> SUFFICES ASSUME Has(ToSet(t), {x.op}, x.ref) PROVE FALSE
                OBVIOUS
            <4>1. PICK i \in 1 .. n : s[i].op = x.op /\ s[i].ref = x.ref
                BY <2>1 DEF Has
            <4>2. i \in 1 .. Len(s) /\ n + 1 \in 1 .. Len(s) /\ i # n + 1
                BY <2>2
            <4> QED
                BY <3>3, <4>1, <4>2 DEF Single
        <3> HIDE DEF x
        <3>4. /\ Append(t, x) \in Seq(Messages) /\ ToSet(Append(t, x)) = ToSet(t) \cup {x}
              /\ Single(s) => Single(Append(t, x))
            BY <2>1, <2>2, <3>3, BoxAppend
        <3> QED
            BY <2>1, <3>1, <3>2, <3>4 DEF Good
    <2> QED
        BY <2>5, <2>6
<1>11. All = Nat
    <2>1. All \in SUBSET Nat
        OBVIOUS
    <2> HIDE DEF All
    <2> QED BY <1>9, <1>10, <2>1, NatSetInduction
<1>12. Good(N)
    <2> HIDE DEF Good
    <2> QED BY <1>4, <1>11
<1> QED
    BY <1>1, <1>4, <1>12 DEF ToSet

(* The messages of the monitors that fire.                                  *)
LEMMA BoxDowns ==
    ASSUME NEW ms \in SUBSET Refs
    PROVE  Downs(ms) \in Seq(Messages) /\ ToSet(Downs(ms)) = {Msg("DOWN", m) : m \in ms}
<1> DEFINE D == {Msg("DOWN", m) : m \in ms}
<1>1. IsFiniteSet(D)
    <2>1. IsFiniteSet(ms)
        BY EdgePortsAssumption, FS_Subset
    <2> DEFINE f == [m \in ms |-> Msg("DOWN", m)]
    <2>2. f \in Surjection(ms, D)
        BY DEF Surjection
    <2> HIDE DEF f, D
    <2> QED BY <2>1, <2>2, FS_Surjection
<1>2. D \in SUBSET Messages
    BY DEF Messages, Msg, Ops
<1>0. Downs(ms) = SetToSeq(D)
    BY DEF Downs
<1> HIDE DEF D
<1>3. \E f : f \in Bijection(1 .. Cardinality(D), D) /\ Cardinality(D) \in Nat
    BY <1>1, FS_CardinalityType DEF ExistsBijection
<1>4. \E f \in [1 .. Cardinality(D) -> D] : IsInjective(f)
    BY <1>3 DEF Bijection, Injection, Surjection, IsInjective
<1>5. SetToSeq(D) \in [1 .. Cardinality(D) -> D] /\ IsInjective(SetToSeq(D))
    BY <1>4 DEF SetToSeq
<1> DEFINE q == SetToSeq(D)
<1>6. q \in Surjection(1 .. Cardinality(D), D)
    <2>1. q \in Injection(1 .. Cardinality(D), D)
        BY <1>5 DEF Injection, IsInjective
    <2>2. IsFiniteSet(1 .. Cardinality(D)) /\ Cardinality(1 .. Cardinality(D)) = Cardinality(D)
        BY <1>3, FS_Interval
    <2> QED
        BY <1>1, <2>1, <2>2, FS_Surjection, FS_Injection
<1>7. ToSet(q) = D
    BY <1>5, <1>6 DEF Surjection, ToSet
<1>8. q \in Seq(Messages)
    BY <1>2, <1>3, <1>5
<1> QED
    BY <1>0, <1>7, <1>8 DEF D

-----------------------------------------------------------------------------
(* What every step respects, and what it keeps of the invariant.           *)

Follows ==
    /\ \A r \in Refs : attempt[r] # Unused =>
          attempt'[r].from = attempt[r].from /\ attempt'[r].to = attempt[r].to
    /\ \A r \in Refs : Arrived(r) => Arrived(r)'
    /\ \A c \in Conns : up'[c] => up[c]

Attempt == [pc : Progress, from : Conns \cup {NoConn}, to : Conns \cup {NoConn},
            rights : SUBSET {"r", "w", "s"}, cref : Refs \cup {NoRef}]

LEMMA Types ==
    ASSUME EdgeInv
    PROVE  /\ attempt \in [Refs -> Attempt]
           /\ ports \in [Conns -> [Refs -> [state : {"none", "pre_open", "open"}, clients : SUBSET Refs]]]
           /\ Held
    BY DEF EdgeInv, TablesOK, AttemptsOK, PortsOK, Attempt

LEMMA DueTyped ==
    ASSUME Held, NEW c \in Conns
    PROVE  Due(c) \subseteq Messages /\ Box(c) \subseteq Messages
<1>1. inbox[c] \in Seq(Messages)
    BY DEF Held
<1>2. Box(c) \subseteq Messages
    BY <1>1 DEF Box, ToSet
<1>3. Calls(c) \subseteq Messages
    BY DEF Calls, Held, Jobs, Messages, Ops
<1> QED
    BY <1>2, <1>3 DEF Due

(* An attempt that names a connection was opened.                           *)
LEMMA Opened ==
    ASSUME EdgeInv, NEW r \in Refs,
           attempt[r].from \in Conns \/ attempt[r].to \in Conns \/ Arrived(r)
    PROVE  /\ attempt[r] # Unused /\ attempt[r].pc # "idle"
           /\ attempt[r].from \in Conns /\ attempt[r].to \in Conns
           /\ attempt[r].from # attempt[r].to
<1>1. attempt[r].pc # "idle"
    <2>1. attempt[r].pc = "idle" => attempt[r] = Unused
        BY DEF EdgeInv, Stage
    <2>2. Unused.from = NoConn /\ Unused.to = NoConn
        BY DEF Unused
    <2>3. Arrived(r) => attempt[r].pc # "idle"
        BY DEF Arrived
    <2> QED
        BY <2>1, <2>2, <2>3, EdgePortsAssumption
<1>2. Unused.pc = "idle"
    BY DEF Unused
<1> QED
    BY <1>1, <1>2 DEF EdgeInv, Stage

LEMMA FollowsUp ==
    ASSUME EdgeInv, Follows, NEW r \in Refs,
           attempt[r].from \in Conns \/ attempt[r].to \in Conns \/ Arrived(r)
    PROVE  attempt'[r].from = attempt[r].from /\ attempt'[r].to = attempt[r].to
    BY Opened DEF Follows

LEMMA StageKept ==
    ASSUME EdgeInv, Follows, NEW r \in Refs, attempt'[r] = attempt[r],
           attempt[r].pc \in {"monitor", "wait", "replied", "put", "respond", "done", "late"}
               => up'[attempt[r].from]
    PROVE  Stage(r)'
<1> DEFINE a == attempt[r]
<1>1. Stage(r)
    BY DEF EdgeInv
<1>2. a.pc = "dead" => ~up'[a.from]
    BY <1>1, Opened DEF Stage, Follows
<1>3. a.cref # NoRef => Arrived(r)' /\ attempt'[a.cref].to = a.to
    <2> SUFFICES ASSUME a.cref # NoRef PROVE Arrived(r)' /\ attempt'[a.cref].to = a.to
        OBVIOUS
    <2>1. Arrived(r) /\ attempt[a.cref].to = a.to /\ a.cref \in Refs
        BY <1>1, Types DEF Stage, Attempt
    <2>2. a.to \in Conns
        BY <2>1, Opened
    <2> QED
        BY <2>1, <2>2, FollowsUp DEF Follows
<1> QED
    BY <1>1, <1>2, <1>3 DEF Stage

LEMMA RuleKept ==
    ASSUME EdgeInv, Follows, NEW c \in Conns, NEW x \in Messages, Rule(c, x),
           x.op = "monitor" => attempt'[x.ref].pc = "monitor",
           x.op = "portopen" => attempt'[x.ref].pc \in {"wait", "late", "dead"},
           x.op = "put" => attempt'[x.ref].pc \in {"put", "respond", "done"},
           x.op = "close_call" =>
               \A m \in x.clients, q \in Refs :
                   m \in ports'[c][q].clients => m \in ports[c][q].clients \/ q = x.ref,
           x.op = "close_cast" =>
               \A d \in Conns : d = attempt[x.ref].to /\ Arrived(x.ref) /\ ports[d][x.ref] = NoPort
                                    => ports'[d][x.ref] = NoPort
    PROVE  Rule(c, x)'
<1> DEFINE a == attempt[x.ref]
<1>1. Rule(c, x) /\ x \in Messages
    OBVIOUS
<1>2. x.ref \in Refs /\ x.clients \subseteq Refs
    BY <1>1 DEF Messages
<1>3. a.from \in Conns \/ a.to \in Conns \/ Arrived(x.ref) =>
          attempt'[x.ref].from = a.from /\ attempt'[x.ref].to = a.to
    BY <1>2, FollowsUp
<1>4. Arrived(x.ref) => Arrived(x.ref)'
    BY <1>2 DEF Follows
<1>5. x.op = "monitor" => attempt'[x.ref].from = c /\ attempt'[x.ref].pc = "monitor"
    BY <1>1, <1>3 DEF Rule
<1>6. x.op = "portopen" => attempt'[x.ref].to = c /\ attempt'[x.ref].pc \in {"wait", "late", "dead"}
    BY <1>1, <1>3 DEF Rule
<1>7. x.op = "put" => attempt'[x.ref].from = c /\ attempt'[x.ref].pc \in {"put", "respond", "done"}
    BY <1>1, <1>3 DEF Rule
<1>8. x.op = "answer" => attempt'[x.ref].from = c
    BY <1>1, <1>3 DEF Rule
<1>9. x.op \in {"ok", "ok_call", "error"} => attempt'[x.ref].to = c /\ Arrived(x.ref)'
    BY <1>1, <1>3, <1>4 DEF Rule
<1>10. x.op = "close_call" =>
          /\ \/ attempt'[x.ref].from = c /\ x.clients = {x.ref}
             \/ /\ attempt'[x.ref].to = c /\ Arrived(x.ref)'
                /\ \A m \in x.clients : attempt'[m].to = c /\ Arrived(m)'
          /\ \A m \in x.clients, q \in Refs : m \in ports'[c][q].clients => q = x.ref
    <2> SUFFICES ASSUME x.op = "close_call"
                 PROVE  /\ \/ attempt'[x.ref].from = c /\ x.clients = {x.ref}
                           \/ /\ attempt'[x.ref].to = c /\ Arrived(x.ref)'
                              /\ \A m \in x.clients : attempt'[m].to = c /\ Arrived(m)'
                        /\ \A m \in x.clients, q \in Refs : m \in ports'[c][q].clients => q = x.ref
        OBVIOUS
    <2>1. \A m \in x.clients, q \in Refs : m \in ports'[c][q].clients => q = x.ref
        BY <1>1 DEF Rule
    <2>2. CASE a.from = c /\ x.clients = {x.ref}
        BY <2>1, <2>2, <1>3
    <2>3. CASE a.to = c /\ Arrived(x.ref) /\ \A m \in x.clients : attempt[m].to = c /\ Arrived(m)
        <3>1. \A m \in x.clients : attempt'[m].to = c /\ Arrived(m)'
            BY <2>3, <1>2, FollowsUp DEF Follows
        <3> QED
            BY <2>1, <2>3, <3>1, <1>3, <1>4
    <2> QED
        BY <2>2, <2>3, <1>1 DEF Rule
<1>11. x.op = "close_cast" /\ attempt'[x.ref].to # c =>
           attempt'[x.ref].to \in Conns /\ Arrived(x.ref)' /\ ports'[attempt'[x.ref].to][x.ref] = NoPort
    <2> SUFFICES ASSUME x.op = "close_cast", attempt'[x.ref].to # c
                 PROVE  attempt'[x.ref].to \in Conns /\ Arrived(x.ref)'
                        /\ ports'[attempt'[x.ref].to][x.ref] = NoPort
        OBVIOUS
    <2>1. a.to # c
        BY <1>3
    <2>2. a.to \in Conns /\ Arrived(x.ref) /\ ports[a.to][x.ref] = NoPort
        BY <2>1, <1>1 DEF Rule
    <2>3. ports'[a.to][x.ref] = NoPort
        BY <2>2
    <2> QED
        BY <2>2, <2>3, <1>3, <1>4
<1>12. x.op = "DOWN" => Peer(c, x.ref)' \in Conns /\ ~up'[Peer(c, x.ref)']
    <2> SUFFICES ASSUME x.op = "DOWN" PROVE Peer(c, x.ref)' \in Conns /\ ~up'[Peer(c, x.ref)']
        OBVIOUS
    <2>1. Peer(c, x.ref) \in Conns /\ ~up[Peer(c, x.ref)]
        BY <1>1 DEF Rule
    <2>2. a.from \in Conns \/ a.to \in Conns
        BY <2>1 DEF Peer, IsOpener
    <2>3. Peer(c, x.ref)' = Peer(c, x.ref)
        BY <2>2, <1>3 DEF Peer, IsOpener
    <2> QED
        BY <2>1, <2>3 DEF Follows
<1> QED
    BY <1>5, <1>6, <1>7, <1>8, <1>9, <1>10, <1>11, <1>12 DEF Rule

LEMMA AloneKept ==
    ASSUME EdgeInv, NEW c \in Conns, NEW r \in Refs, NEW m \in ports[c][r].clients,
           \A q \in Refs : m \in ports'[c][q].clients => m \in ports[c][q].clients \/ q = r
    PROVE  Alone(c, r, m)'
<1>1. Alone(c, r, m)
    BY DEF EdgeInv, Client
<1> QED
    BY <1>1 DEF Alone

LEMMA BelongsKept ==
    ASSUME EdgeInv, Follows, NEW c \in Conns, NEW r \in Refs, NEW m \in ports[c][r].clients,
           attempt[m].from # c => attempt'[m].cref \in {attempt[m].cref, r}
    PROVE  Belongs(c, r, m)'
<1>1. Belongs(c, r, m) /\ m \in Refs
    BY Types DEF EdgeInv, Client
<1>2. attempt'[m].from = attempt[m].from /\ attempt'[m].to = attempt[m].to
    BY <1>1, FollowsUp DEF Belongs
<1>3. CASE attempt[m].from = c
    BY <1>1, <1>2, <1>3 DEF Belongs
<1>4. CASE attempt[m].from # c
    <2>1. attempt[m].to = c /\ attempt[r].to = c /\ Arrived(m) /\ Arrived(r)
          /\ (attempt[m].cref # NoRef => attempt[m].cref = r)
        BY <1>1, <1>4 DEF Belongs
    <2>2. attempt'[r].to = c /\ Arrived(m)' /\ Arrived(r)'
        BY <1>1, <2>1, FollowsUp DEF Follows
    <2> QED
        BY <1>2, <1>4, <2>1, <2>2 DEF Belongs
<1> QED
    BY <1>3, <1>4

LEMMA WatchedKept ==
    ASSUME EdgeInv, Follows, NEW c \in Conns, NEW r \in Refs, NEW m \in ports[c][r].clients,
           LET f == attempt[m].from IN
           f # c =>
               /\ up'[f] /\ m \in monitors[c] => m \in monitors'[c]
               /\ up[f] /\ ~up'[f] /\ m \in monitors[c] => Msg("DOWN", m) \in Box(c)'
               /\ ~up[f] /\ Msg("DOWN", m) \in Box(c) => Msg("DOWN", m) \in Box(c)'
    PROVE  Watched(c, m)'
<1> DEFINE f == attempt[m].from
<1>1. Watched(c, m) /\ Belongs(c, r, m) /\ m \in Refs
    BY Types DEF EdgeInv, Client
<1>2. attempt'[m].from = f /\ f \in Conns
    BY <1>1, FollowsUp, Opened DEF Belongs
<1>3. up'[f] => up[f]
    BY <1>2 DEF Follows
<1>4. Msg("DOWN", m)' = Msg("DOWN", m)
    BY DEF Msg
<1> QED
    BY <1>1, <1>2, <1>3, <1>4 DEF Watched

LEMMA LinkedKept ==
    ASSUME EdgeInv, Follows, NEW c \in Conns, NEW r \in Refs, NEW m \in ports[c][r].clients,
           LET a == attempt[m] IN
           a.from # c =>
               /\ attempt'[m].pc = "failed" => a.pc = "failed"
               /\ attempt'[m].pc \in {"respond", "done"} => a.pc \in {"respond", "done"}
               /\ a.pc = "failed" /\ ports[c][r].state = "pre_open" => ports'[c][r].state = "pre_open"
               /\ a.pc \in {"respond", "done"} /\ ports[a.from][m] # NoPort =>
                      ports'[a.from][m] # NoPort \/ Msg("close_cast", m) \in Box(c)'
               /\ Msg("close_cast", m) \in Box(c) => Msg("close_cast", m) \in Box(c)'
    PROVE  Linked(c, r, m)'
<1>1. Linked(c, r, m) /\ Belongs(c, r, m) /\ m \in Refs
    BY Types DEF EdgeInv, Client
<1>2. attempt'[m].from = attempt[m].from
    BY <1>1, FollowsUp DEF Belongs
<1>3. CASE attempt[m].from = c
    BY <1>2, <1>3 DEF Linked
<1>4. CASE attempt[m].from # c
    <2>1. attempt'[m].pc = "failed" => ports'[c][r].state = "pre_open"
        BY <1>1, <1>4 DEF Linked
    <2>2. attempt'[m].pc \in {"respond", "done"} =>
              ports'[attempt'[m].from][m] # NoPort \/ Msg("close_cast", m)' \in Box(c)'
        BY <1>1, <1>2, <1>4 DEF Linked, Msg
    <2> QED
        BY <2>1, <2>2 DEF Linked, NoPort
<1> QED
    BY <1>3, <1>4

LEMMA PortShapeKept ==
    ASSUME EdgeInv, Follows, NEW c \in Conns, NEW r \in Refs, ports'[c][r] = ports[c][r],
           ports[c][r].state = "pre_open" => attempt'[r].pc \in {"wait", "late", "dead", "failed"}
    PROVE  PortShape(c, r)'
<1>1. PortShape(c, r)
    BY DEF EdgeInv
<1>2. ports[c][r].state = "pre_open" => attempt'[r].to = attempt[r].to
    BY <1>1, FollowsUp DEF PortShape
<1> QED
    BY <1>1, <1>2 DEF PortShape

LEMMA AnswersKept ==
    ASSUME EdgeInv, Follows, NEW c \in Conns, NEW r \in Refs, device'[c][r] = device[c][r],
           \A x \in Due(c)' : x.ref = r /\ x.op \in {"ok", "ok_call", "error"} => x \in Due(c),
           ports'[c][r].state = "pre_open" /\ attempt'[r].pc = "failed" =>
               ports[c][r].state = "pre_open" /\ attempt[r].pc = "failed"
    PROVE  Answers(c, r)'
<1>1. Answers(c, r)
    BY DEF EdgeInv
<1>2. /\ Has(Due(c)', {"ok", "ok_call", "error"}, r) => Has(Due(c), {"ok", "ok_call", "error"}, r)
      /\ Has(Due(c)', {"ok", "ok_call"}, r) => Has(Due(c), {"ok", "ok_call"}, r)
      /\ Has(Due(c)', {"error"}, r) => Has(Due(c), {"error"}, r)
    BY DEF Has
<1>3. attempt[r].to = c /\ Arrived(r) => attempt'[r].to = c /\ Arrived(r)'
    BY FollowsUp DEF Follows
<1>4. /\ device'[c][r] = "asked" =>
            attempt'[r].to = c /\ Arrived(r)' /\ ~Has(Due(c)', {"ok", "ok_call", "error"}, r)
      /\ Has(Due(c)', {"error"}, r) \/ (ports'[c][r].state = "pre_open" /\ attempt'[r].pc = "failed") =>
            device'[c][r] = "closed" /\ ~Has(Due(c)', {"ok", "ok_call"}, r)
    BY <1>1, <1>2, <1>3 DEF Answers
<1> QED
    BY <1>4 DEF Answers, Has

-----------------------------------------------------------------------------
(* Steps that leave the tables of the servers as they are.                  *)

LEMMA FollowsIf ==
    ASSUME EdgeInv,
           \A r \in Refs : attempt[r] # Unused =>
               attempt'[r].from = attempt[r].from /\ attempt'[r].to = attempt[r].to,
           \A r \in Refs : Arrived(r) => attempt'[r].pc \notin {"idle", "monitor", "call"},
           \A c \in Conns : \A x \in Box(c)' : x.op = "portopen" => x \in Box(c) \/ ~Arrived(x.ref),
           \A c \in Conns : up'[c] => up[c]
    PROVE  Follows
<1>1. ASSUME NEW r \in Refs, Arrived(r) PROVE Arrived(r)'
    <2>1. attempt[r] # Unused /\ attempt[r].to \in Conns
        BY <1>1, Opened
    <2>2. attempt'[r].to = attempt[r].to
        BY <2>1
    <2>3. ~Has(Box(attempt[r].to)', {"portopen"}, r)
        BY <1>1, <2>1 DEF Arrived, Has
    <2>4. Box(attempt[r].to)' = ToSet(inbox'[attempt'[r].to])
        BY DEF Box
    <2> QED
        BY <1>1, <2>2, <2>3, <2>4 DEF Arrived, Has, Box
<1> QED
    BY <1>1 DEF Follows

LEMMA ClientsStay ==
    ASSUME EdgeInv, Follows, UNCHANGED <<ports, up>>,
           \A c \in Conns : monitors[c] \subseteq monitors'[c],
           \A c \in Conns : \A x \in Box(c) : x.op \in {"DOWN", "close_cast"} => x \in Box(c)',
           \A c \in Conns, r \in Refs : \A m \in ports[c][r].clients :
               attempt[m].from # c =>
                   /\ attempt'[m].cref = attempt[m].cref
                   /\ attempt'[m].pc = "failed" => attempt[m].pc = "failed"
                   /\ attempt'[m].pc \in {"respond", "done"} => attempt[m].pc \in {"respond", "done"},
           NEW c \in Conns, NEW r \in Refs, NEW m \in ports[c][r].clients
    PROVE  Client(c, r, m)'
<1>1. Alone(c, r, m)'
    BY AloneKept
<1>2. Belongs(c, r, m)'
    BY BelongsKept
<1>3. Watched(c, m)'
    BY WatchedKept DEF Msg
<1>4. Linked(c, r, m)'
    BY LinkedKept DEF Msg
<1> QED
    BY <1>1, <1>2, <1>3, <1>4 DEF Client

LEMMA BoxSet ==
    ASSUME Held, NEW c \in Conns, NEW box \in Seq(Messages), inbox' = [inbox EXCEPT ![c] = box]
    PROVE  /\ inbox' \in [Conns -> Seq(Messages)]
           /\ inbox'[c] = box /\ Box(c)' = ToSet(box)
           /\ \A d \in Conns \ {c} : inbox'[d] = inbox[d] /\ Box(d)' = Box(d)
    BY DEF Held, Box

LEMMA SentTo ==
    ASSUME EdgeInv, NEW c \in Conns, NEW m \in Messages, up[c], ToServer(c, m),
           m.op \in {"monitor", "portopen"} => ~Has(Box(c), {m.op}, m.ref)
    PROVE  /\ inbox' \in [Conns -> Seq(Messages)]
           /\ Box(c)' = Box(c) \cup {m}
           /\ \A d \in Conns \ {c} : Box(d)' = Box(d)
           /\ \A d \in Conns : Single(inbox'[d]) /\ (~up[d] => inbox'[d] = <<>>)
<1>1. Held /\ inbox[c] \in Seq(Messages) /\ Single(inbox[c])
    BY DEF EdgeInv, Held
<1> DEFINE box == Append(inbox[c], m)
<1>2. box \in Seq(Messages) /\ ToSet(box) = Box(c) \cup {m} /\ Single(box)
    BY <1>1, BoxAppend DEF Box
<1>3. inbox' = [inbox EXCEPT ![c] = box]
    BY DEF ToServer
<1> HIDE DEF box
<1> QED
    BY <1>1, <1>2, <1>3, BoxSet DEF EdgeInv, Gone

(* The message at the head of a mailbox.                                    *)
LEMMA Headed ==
    ASSUME EdgeInv, NEW c \in Conns, NEW op, NEW r, Handles(c, op, r)
    PROVE  LET x == Head(inbox[c]) IN
           /\ up[c] /\ x \in Messages /\ x.op = op /\ x.ref = r
           /\ x \in Due(c) /\ Rule(c, x)
           /\ Rest(c) \in Seq(Messages) /\ Single(Rest(c))
           /\ x \in Box(c) /\ Box(c) = ToSet(Rest(c)) \cup {x}
           /\ op \in {"monitor", "portopen"} => ~Has(ToSet(Rest(c)), {op}, r)
<1> DEFINE x == Head(inbox[c])
<1>1. /\ up[c] /\ inbox[c] # <<>> /\ x.op = op /\ x.ref = r
      /\ inbox[c] \in Seq(Messages) /\ Single(inbox[c])
    BY DEF EdgeInv, Held, Handles
<1>2. /\ Rest(c) \in Seq(Messages) /\ x \in Messages /\ Single(Rest(c))
      /\ Box(c) = ToSet(Rest(c)) \cup {x}
      /\ op \in {"monitor", "portopen"} => ~Has(ToSet(Rest(c)), {op}, r)
    BY <1>1, BoxTail DEF Rest, Box
<1>3. x \in Box(c)
    BY <1>2
<1>4. x \in Due(c)
    BY <1>3 DEF Due
<1> HIDE DEF x
<1>5. Rule(c, x)
    BY <1>4 DEF EdgeInv
<1> QED
    BY <1>1, <1>2, <1>3, <1>4, <1>5 DEF x

LEMMA Dropped ==
    ASSUME EdgeInv, NEW c \in Conns, NEW op, NEW r, Handles(c, op, r), Drop(c)
    PROVE  /\ inbox' \in [Conns -> Seq(Messages)]
           /\ Box(c) = Box(c)' \cup {Head(inbox[c])}
           /\ \A d \in Conns \ {c} : Box(d)' = Box(d)
           /\ \A d \in Conns : Single(inbox'[d]) /\ (~up[d] => inbox'[d] = <<>>)
           /\ op \in {"monitor", "portopen"} => ~Has(Box(c)', {op}, r)
<1>1. /\ up[c] /\ Rest(c) \in Seq(Messages) /\ Single(Rest(c))
      /\ Box(c) = ToSet(Rest(c)) \cup {Head(inbox[c])}
      /\ op \in {"monitor", "portopen"} => ~Has(ToSet(Rest(c)), {op}, r)
    BY Headed
<1>2. inbox' = [inbox EXCEPT ![c] = Rest(c)]
    BY DEF Drop
<1>3. Held
    BY DEF EdgeInv
<1>4. /\ inbox' \in [Conns -> Seq(Messages)]
      /\ inbox'[c] = Rest(c) /\ Box(c)' = ToSet(Rest(c))
      /\ \A d \in Conns \ {c} : inbox'[d] = inbox[d] /\ Box(d)' = Box(d)
    BY <1>1, <1>2, <1>3, BoxSet
<1> QED
    BY <1>1, <1>4 DEF EdgeInv, Gone

LEMMA CallsSame ==
    ASSUME UNCHANGED jobs, NEW c
    PROVE  Calls(c)' = Calls(c)
    BY DEF Calls

LEMMA Spawned ==
    ASSUME EdgeInv, NEW c \in Conns, up[c],
           NEW m \in [op : {"ok_call", "close_call"}, ref : Refs, clients : SUBSET Refs], Spawn(c, m)
    PROVE  /\ jobs' \subseteq Jobs
           /\ Calls(c)' = Calls(c) \cup {m}
           /\ \A d \in Conns \ {c} : Calls(d)' = Calls(d)
           /\ \A d \in Conns : ~up[d] => \A j \in jobs' : j.conn # d
<1> DEFINE j == [conn |-> c, msg |-> m]
<1>1. j.conn = c /\ j.msg = m /\ j \in Jobs
    BY DEF Jobs
<1>2. jobs' = jobs \cup {j}
    BY DEF Spawn
<1> HIDE DEF j
<1>3. Calls(c)' = Calls(c) \cup {m}
    BY <1>1, <1>2 DEF Calls
<1>4. \A d \in Conns \ {c} : Calls(d)' = Calls(d)
    BY <1>1, <1>2 DEF Calls
<1> QED
    BY <1>1, <1>2, <1>3, <1>4 DEF EdgeInv, Held, Gone

(* The servers, their tasks and the devices talk, and nothing else happens. *)
Talks ==
    /\ UNCHANGED <<up, ports, monitors, attempt>>
    /\ TablesOK' /\ Held'
    /\ \A c \in Conns :
          /\ Single(inbox'[c])
          /\ ~up[c] => inbox'[c] = <<>> /\ \A j \in jobs' : j.conn # c
          /\ \A x \in Due(c)' : x \in Due(c) \/ (x.op \notin {"monitor", "portopen"} /\ Rule(c, x))
          /\ \A x \in Box(c) : x.op \in {"DOWN", "close_cast"} => x \in Box(c)'

LEMMA TalkFollows ==
    ASSUME EdgeInv, Talks
    PROVE  Follows
<1>1. ASSUME NEW c \in Conns, NEW x \in Box(c)', x.op = "portopen"
      PROVE  x \in Box(c)
    <2>1. x \in Due(c)
        BY <1>1 DEF Talks, Due
    <2>2. x \notin Calls(c)
        BY <1>1, Types DEF Held, Calls, Jobs
    <2> QED
        BY <2>1, <2>2 DEF Due
<1> QED
    BY <1>1, FollowsIf DEF Talks, Arrived

LEMMA TalkStep ==
    ASSUME EdgeInv, Talks, \A c \in Conns, r \in Refs : Answers(c, r)'
    PROVE  EdgeInv'
<1>1. Follows /\ UNCHANGED <<up, ports, monitors, attempt>> /\ TablesOK' /\ Held'
    BY TalkFollows DEF Talks
<1>2. ASSUME NEW r \in Refs PROVE Stage(r)'
    <2>1. Stage(r)
        BY DEF EdgeInv
    <2> QED
        BY <1>1, <2>1, StageKept DEF Stage
<1>3. ASSUME NEW c \in Conns PROVE Gone(c)' /\ Single(inbox[c])'
    <2>1. Single(inbox'[c]) /\ (~up[c] => inbox'[c] = <<>> /\ \A j \in jobs' : j.conn # c)
        BY DEF Talks
    <2>2. Gone(c)
        BY DEF EdgeInv
    <2> QED
        BY <1>1, <2>1, <2>2 DEF Gone, Single, NoPorts, NoPort
<1>4. ASSUME NEW c \in Conns, NEW x \in Due(c)' PROVE Rule(c, x)'
    <2>1. Rule(c, x)
        BY <1>4 DEF Talks, EdgeInv
    <2>2. x \in Messages
        <3>1. Messages' = Messages
            BY DEF Messages, Ops
        <3>2. inbox'[c] \in Seq(Messages) /\ jobs' \subseteq Jobs
            BY <1>1 DEF Held, Messages, Ops, Jobs
        <3>3. Box(c)' \subseteq Messages
            BY <3>2 DEF Box, ToSet
        <3>4. Calls(c)' \subseteq Messages
            BY <3>2 DEF Calls, Jobs, Messages, Ops
        <3> QED
            BY <1>4, <3>3, <3>4 DEF Due
    <2> QED
        BY <1>1, <2>1, <2>2, RuleKept DEF Rule
<1>5. ASSUME NEW c \in Conns, NEW r \in Refs PROVE PortShape(c, r)'
    <2>1. PortShape(c, r)
        BY DEF EdgeInv
    <2> QED
        BY <1>1, <2>1, PortShapeKept DEF PortShape
<1>6. ASSUME NEW c \in Conns, NEW r \in Refs, NEW m \in ports'[c][r].clients PROVE Client(c, r, m)'
    <2>1. \A d \in Conns : \A x \in Box(d) : x.op \in {"DOWN", "close_cast"} => x \in Box(d)'
        BY DEF Talks
    <2>2. m \in ports[c][r].clients
        BY <1>1, <1>6
    <2> QED
        BY <1>1, <2>1, <2>2, ClientsStay
<1> QED
    BY <1>1, <1>2, <1>3, <1>4, <1>5, <1>6 DEF EdgeInv

(* A device says something to its server.                                  *)
LEMMA DeviceTalks ==
    ASSUME EdgeInv, TablesOK', NEW c \in Conns, NEW r \in Refs, NEW op \in {"ok", "error", "portsend", "portclose"},
           NEW s \in {"none", "asked", "open", "closed"},
           Idle(c), ToServer(c, Msg(op, r)), device' = [device EXCEPT ![c][r] = s],
           op \in {"ok", "error"} => attempt[r].to = c /\ Arrived(r),
           UNCHANGED <<up, ports, monitors, jobs, attempt, losses>>
    PROVE  /\ Talks
           /\ device'[c][r] = s /\ Due(c)' = Due(c) \cup {Msg(op, r)}
           /\ \A d \in Conns, q \in Refs : d # c \/ q # r =>
                 /\ device'[d][q] = device[d][q]
                 /\ \A x \in Due(d)' : x.ref = q => x \in Due(d)
<1> DEFINE m == Msg(op, r)
<1>1. m \in Messages /\ m.op = op /\ m.ref = r
    BY DEF Msg, Messages, Ops
<1>2. Held /\ up[c] /\ op \notin {"monitor", "portopen"}
    BY DEF EdgeInv, Idle
<1> HIDE DEF m
<1>3. /\ inbox' \in [Conns -> Seq(Messages)]
      /\ Box(c)' = Box(c) \cup {m}
      /\ \A d \in Conns \ {c} : Box(d)' = Box(d)
      /\ \A d \in Conns : Single(inbox'[d]) /\ (~up[d] => inbox'[d] = <<>>)
    BY <1>1, <1>2, SentTo DEF m
<1>4. \A d \in Conns : Calls(d)' = Calls(d)
    BY CallsSame
<1>5. /\ device' \in [Conns -> [Refs -> {"none", "asked", "open", "closed"}]]
      /\ device'[c][r] = s
      /\ \A d \in Conns, q \in Refs : d # c \/ q # r => device'[d][q] = device[d][q]
    BY <1>2 DEF Held
<1>6. Held'
    BY <1>2, <1>3, <1>5 DEF Held, Messages, Jobs, Ops
<1>7. Due(c)' = Due(c) \cup {m} /\ \A d \in Conns \ {c} : Due(d)' = Due(d)
    BY <1>3, <1>4 DEF Due
<1>8. Rule(c, m)
    BY <1>1 DEF Rule
<1>9. ASSUME NEW d \in Conns
      PROVE  /\ Single(inbox'[d])
             /\ ~up[d] => inbox'[d] = <<>> /\ \A j \in jobs' : j.conn # d
             /\ \A x \in Due(d)' : x \in Due(d) \/ (x.op \notin {"monitor", "portopen"} /\ Rule(d, x))
             /\ \A x \in Box(d) : x.op \in {"DOWN", "close_cast"} => x \in Box(d)'
    BY <1>1, <1>2, <1>3, <1>7, <1>8 DEF EdgeInv, Gone
<1>10. Talks
    BY <1>6, <1>9 DEF Talks
<1> QED
    BY <1>1, <1>5, <1>7, <1>10 DEF m

LEMMA DeviceTalksStep ==
    ASSUME EdgeInv, TablesOK', NEW c \in Conns, NEW r \in Refs,
           DeviceAccepts(c, r) \/ DeviceRefuses(c, r) \/ DeviceSends(c, r) \/ DeviceCloses(c, r)
    PROVE  EdgeInv'
<1>1. Answers(c, r) /\ Held
    BY DEF EdgeInv
<1>2. ASSUME NEW op \in {"ok", "error", "portsend", "portclose"},
             NEW s \in {"none", "asked", "open", "closed"},
             Idle(c), ToServer(c, Msg(op, r)), device' = [device EXCEPT ![c][r] = s],
             op \in {"ok", "error"} => device[c][r] = "asked",
             op \in {"portsend", "portclose"} => device[c][r] = "open",
             op = "ok" => s = "open", op \in {"error", "portclose"} => s = "closed",
             op = "portsend" => s = "open",
             UNCHANGED <<up, ports, monitors, jobs, attempt, losses>>
      PROVE  EdgeInv'
    <2>1. op \in {"ok", "error"} => attempt[r].to = c /\ Arrived(r)
        BY <1>1, <1>2 DEF Answers
    <2>2. /\ Talks
          /\ device'[c][r] = s /\ Due(c)' = Due(c) \cup {Msg(op, r)}
          /\ \A d \in Conns, q \in Refs : d # c \/ q # r =>
                /\ device'[d][q] = device[d][q]
                /\ \A x \in Due(d)' : x.ref = q => x \in Due(d)
        BY <1>2, <2>1, DeviceTalks
    <2>3. Follows
        BY <2>2, TalkFollows
    <2>4. Msg(op, r).op = op
        BY DEF Msg
    <2>5. Answers(c, r)'
        <3>1. Has(Due(c)', {"error"}, r) => Has(Due(c), {"error"}, r) \/ op = "error"
            BY <2>2, <2>4 DEF Has
        <3>2. Has(Due(c)', {"ok", "ok_call"}, r) => Has(Due(c), {"ok", "ok_call"}, r) \/ op = "ok"
            BY <2>2, <2>4 DEF Has
        <3>3. Has(Due(c), {"ok", "ok_call"}, r) => Has(Due(c), {"ok", "ok_call", "error"}, r)
            BY DEF Has
        <3>4. device'[c][r] # "asked"
            BY <1>2, <2>2
        <3>5. Has(Due(c)', {"error"}, r) \/ (ports'[c][r].state = "pre_open" /\ attempt'[r].pc = "failed") =>
                  device'[c][r] = "closed" /\ ~Has(Due(c)', {"ok", "ok_call"}, r)
            BY <1>1, <1>2, <2>2, <3>1, <3>2, <3>3 DEF Answers
        <3> QED
            BY <3>4, <3>5 DEF Answers, Has
    <2>6. ASSUME NEW d \in Conns, NEW q \in Refs, d # c \/ q # r PROVE Answers(d, q)'
        BY <1>2, <2>2, <2>3, <2>6, AnswersKept
    <2> QED
        BY <2>2, <2>5, <2>6, TalkStep
<1>3. CASE DeviceAccepts(c, r)
    BY <1>2, <1>3 DEF DeviceAccepts
<1>4. CASE DeviceRefuses(c, r)
    BY <1>2, <1>4 DEF DeviceRefuses
<1>5. CASE DeviceSends(c, r)
    <2>1. device' = [device EXCEPT ![c][r] = "open"]
        BY <1>1, <1>5 DEF DeviceSends, Held
    <2> QED
        BY <1>2, <1>5, <2>1 DEF DeviceSends
<1>6. CASE DeviceCloses(c, r)
    BY <1>2, <1>6 DEF DeviceCloses
<1> QED
    BY <1>3, <1>4, <1>5, <1>6

(* A task calls its server.                                                 *)
LEMMA CallBackStep ==
    ASSUME EdgeInv, TablesOK', NEW j \in jobs, CallBack(j)
    PROVE  EdgeInv'
<1> DEFINE c == j.conn
           m == j.msg
<1>1. Held /\ c \in Conns /\ m \in Messages /\ m.op \in {"ok_call", "close_call"}
    BY DEF EdgeInv, Held, Jobs, Messages, Ops
<1>2. up[c] /\ m \in Calls(c)
    BY <1>1 DEF EdgeInv, Gone, Calls
<1>3. ToServer(c, m) /\ jobs' = jobs \ {j} /\ UNCHANGED <<up, ports, monitors, attempt, device, losses>>
    BY DEF CallBack
<1> HIDE DEF c, m
<1>4. /\ inbox' \in [Conns -> Seq(Messages)]
      /\ Box(c)' = Box(c) \cup {m}
      /\ \A d \in Conns \ {c} : Box(d)' = Box(d)
      /\ \A d \in Conns : Single(inbox'[d]) /\ (~up[d] => inbox'[d] = <<>>)
    BY <1>1, <1>2, <1>3, SentTo
<1>5. \A d \in Conns : Calls(d)' \subseteq Calls(d)
    BY <1>3 DEF Calls
<1>6. \A d \in Conns : Due(d)' \subseteq Due(d)
    BY <1>2, <1>4, <1>5 DEF Due
<1>7. Held'
    BY <1>1, <1>3, <1>4 DEF Held, Messages, Jobs, Ops
<1>8. Talks
    BY <1>3, <1>4, <1>6, <1>7 DEF Talks, EdgeInv, Gone
<1>9. \A d \in Conns, q \in Refs : Answers(d, q)'
    BY <1>3, <1>6, <1>8, TalkFollows, AnswersKept
<1> QED
    BY <1>8, <1>9, TalkStep

(* A server takes a message and may start a task for it.                    *)
LEMMA ServerTalks ==
    ASSUME EdgeInv, TablesOK', NEW c \in Conns, NEW r \in Refs, NEW op \in Ops, Handles(c, op, r), Drop(c),
           op \notin {"DOWN", "close_cast"},
           NEW S \in SUBSET [op : {"ok_call", "close_call"}, ref : Refs, clients : SUBSET Refs],
           \A m \in S : Rule(c, m) /\ m.ref = r,
           jobs' \subseteq Jobs, Calls(c)' = Calls(c) \cup S,
           \A d \in Conns \ {c} : Calls(d)' = Calls(d),
           \A d \in Conns : ~up[d] => \A j \in jobs' : j.conn # d,
           device' \in [Conns -> [Refs -> {"none", "asked", "open", "closed"}]],
           UNCHANGED <<up, ports, monitors, attempt, losses>>
    PROVE  /\ Talks
           /\ Due(c)' \subseteq Due(c) \cup S
           /\ \A d \in Conns, q \in Refs : d # c \/ q # r => \A x \in Due(d)' : x.ref = q => x \in Due(d)
<1> DEFINE h == Head(inbox[c])
<1>1. Held /\ up[c] /\ h.op = op
    BY Headed DEF EdgeInv
<1>2. /\ inbox' \in [Conns -> Seq(Messages)]
      /\ Box(c) = Box(c)' \cup {h}
      /\ \A d \in Conns \ {c} : Box(d)' = Box(d)
      /\ \A d \in Conns : Single(inbox'[d]) /\ (~up[d] => inbox'[d] = <<>>)
    BY Dropped
<1> HIDE DEF h
<1>3. Held'
    BY <1>1, <1>2 DEF Held, Messages, Jobs, Ops
<1>4. Due(c)' \subseteq Due(c) \cup S /\ \A d \in Conns \ {c} : Due(d)' = Due(d)
    BY <1>2 DEF Due
<1>5. \A m \in S : m.op \notin {"monitor", "portopen"}
    OBVIOUS
<1>6. \A d \in Conns : \A x \in Due(d)' : x \in Due(d) \/ (x.op \notin {"monitor", "portopen"} /\ Rule(d, x))
    BY <1>4, <1>5
<1>7. \A d \in Conns : \A x \in Box(d) : x.op \in {"DOWN", "close_cast"} => x \in Box(d)'
    BY <1>1, <1>2
<1>8. Talks
    BY <1>2, <1>3, <1>6, <1>7 DEF Talks
<1> QED
    BY <1>4, <1>8

LEMMA ServerTalksStep ==
    ASSUME EdgeInv, TablesOK', NEW c \in Conns, NEW r \in Refs, NEW op \in {"portclose", "portsend"},
           Handles(c, op, r), Drop(c),
           NEW S \in SUBSET [op : {"close_call"}, ref : Refs, clients : SUBSET Refs],
           \A m \in S : Rule(c, m) /\ m.ref = r,
           jobs' \subseteq Jobs, Calls(c)' = Calls(c) \cup S,
           \A d \in Conns \ {c} : Calls(d)' = Calls(d),
           \A d \in Conns : ~up[d] => \A j \in jobs' : j.conn # d,
           UNCHANGED <<up, ports, monitors, attempt, device, losses>>
    PROVE  EdgeInv'
<1>1. device' \in [Conns -> [Refs -> {"none", "asked", "open", "closed"}]]
    BY DEF EdgeInv, Held
<1>2. op \in Ops /\ op \notin {"DOWN", "close_cast"}
    BY DEF Ops
<1>3. S \in SUBSET [op : {"ok_call", "close_call"}, ref : Refs, clients : SUBSET Refs]
    OBVIOUS
<1>4. /\ Talks
      /\ Due(c)' \subseteq Due(c) \cup S
      /\ \A d \in Conns, q \in Refs : d # c \/ q # r => \A x \in Due(d)' : x.ref = q => x \in Due(d)
    BY <1>1, <1>2, <1>3, ServerTalks
<1>5. \A m \in S : m.op = "close_call"
    OBVIOUS
<1>6. \A d \in Conns, q \in Refs :
          \A x \in Due(d)' : x.ref = q /\ x.op \in {"ok", "ok_call", "error"} => x \in Due(d)
    BY <1>4, <1>5
<1>7. \A d \in Conns, q \in Refs : Answers(d, q)'
    BY <1>4, <1>6, TalkFollows, AnswersKept
<1> QED
    BY <1>4, <1>7, TalkStep

NoneNew(c) ==
    /\ jobs' \subseteq Jobs /\ Calls(c)' = Calls(c) \cup {}
    /\ \A d \in Conns \ {c} : Calls(d)' = Calls(d)
    /\ \A d \in Conns : ~up[d] => \A j \in jobs' : j.conn # d

LEMMA NoCalls ==
    ASSUME EdgeInv, UNCHANGED jobs, NEW c \in Conns
    PROVE  NoneNew(c)
    BY CallsSame DEF EdgeInv, Held, Gone, NoneNew

LEMMA HandlePortsendStep ==
    ASSUME EdgeInv, TablesOK', NEW c \in Conns, NEW r \in Refs, HandlePortsend(c, r)
    PROVE  EdgeInv'
<1>1. /\ Handles(c, "portsend", r) /\ Drop(c)
      /\ UNCHANGED <<up, ports, monitors, jobs, attempt, device, losses>>
    BY DEF HandlePortsend
<1>2. NoneNew(c)
    BY <1>1, NoCalls
<1> DEFINE S == {}
<1>3. S \in SUBSET [op : {"close_call"}, ref : Refs, clients : SUBSET Refs]
      /\ \A m \in S : Rule(c, m) /\ m.ref = r
    OBVIOUS
<1>4. /\ jobs' \subseteq Jobs /\ Calls(c)' = Calls(c) \cup S
      /\ \A d \in Conns \ {c} : Calls(d)' = Calls(d)
      /\ \A d \in Conns : ~up[d] => \A j \in jobs' : j.conn # d
    BY <1>2 DEF NoneNew
<1> HIDE DEF S
<1> QED
    BY <1>1, <1>3, <1>4, ServerTalksStep

(* The clients a closing task saw are those of the port.                    *)
LEMMA ClosingClients ==
    ASSUME EdgeInv, NEW c \in Conns, NEW r \in Refs, ports[c][r].clients # {}
    PROVE  Rule(c, CloseMsg(r, ports[c][r].clients))
<1> DEFINE S == ports[c][r].clients
<1>1. S \subseteq Refs
    BY Types
<1>2. \A m \in S : Alone(c, r, m) /\ Belongs(c, r, m)
    BY DEF EdgeInv, Client
<1>3. \A m \in S, q \in Refs : m \in ports[c][q].clients => q = r
    BY <1>2 DEF Alone
<1> HIDE DEF S
<1>4. \/ attempt[r].from = c /\ S = {r}
      \/ attempt[r].to = c /\ Arrived(r) /\ \A m \in S : attempt[m].to = c /\ Arrived(m)
    <2>1. CASE \E m \in S : attempt[m].from = c
        <3>1. attempt[r].from = c /\ r \in S
            BY <2>1, <1>2 DEF Belongs
        <3>2. attempt[r].to # c
            BY <3>1, Opened
        <3>3. \A m \in S : m = r
            BY <3>2, <1>2 DEF Belongs
        <3> QED
            BY <3>1, <3>3
    <2>2. CASE \A m \in S : attempt[m].from # c
        BY <2>2, <1>2 DEF Belongs, S
    <2> QED
        BY <2>1, <2>2
<1> DEFINE x == CloseMsg(r, S)
<1>5. x.op = "close_call" /\ x.ref = r /\ x.clients = S
    BY DEF CloseMsg
<1> HIDE DEF x
<1>6. Rule(c, x)
    BY <1>3, <1>4, <1>5 DEF Rule
<1> QED
    BY <1>6 DEF x, S

LEMMA HandleDeviceCloseStep ==
    ASSUME EdgeInv, TablesOK', NEW c \in Conns, NEW r \in Refs, HandleDeviceClose(c, r)
    PROVE  EdgeInv'
<1>1. /\ Handles(c, "portclose", r) /\ Drop(c)
      /\ UNCHANGED <<up, ports, monitors, attempt, device, losses>>
    BY DEF HandleDeviceClose
<1>2. CASE UNCHANGED jobs
    <2>1. NoneNew(c)
        BY <1>2, NoCalls
    <2> DEFINE S == {}
    <2>2. S \in SUBSET [op : {"close_call"}, ref : Refs, clients : SUBSET Refs]
          /\ \A m \in S : Rule(c, m) /\ m.ref = r
        OBVIOUS
    <2>3. /\ jobs' \subseteq Jobs /\ Calls(c)' = Calls(c) \cup S
          /\ \A d \in Conns \ {c} : Calls(d)' = Calls(d)
          /\ \A d \in Conns : ~up[d] => \A j \in jobs' : j.conn # d
        BY <2>1 DEF NoneNew
    <2> HIDE DEF S
    <2> QED
        BY <1>1, <2>2, <2>3, ServerTalksStep
<1>3. CASE ports[c][r].state = "open" /\ Spawn(c, CloseMsg(r, ports[c][r].clients))
    <2> DEFINE x == CloseMsg(r, ports[c][r].clients)
    <2>1. ports[c][r].clients # {}
        BY <1>3 DEF EdgeInv, PortShape
    <2>2. Rule(c, x)
        BY <2>1, ClosingClients
    <2>3. x.ref = r /\ x \in [op : {"close_call"}, ref : Refs, clients : SUBSET Refs] /\ up[c]
        BY <1>1, Types DEF CloseMsg, Handles
    <2> HIDE DEF x
    <2>4. x \in [op : {"ok_call", "close_call"}, ref : Refs, clients : SUBSET Refs] /\ Spawn(c, x)
        BY <1>3, <2>3 DEF x
    <2>5. /\ jobs' \subseteq Jobs
          /\ Calls(c)' = Calls(c) \cup {x}
          /\ \A d \in Conns \ {c} : Calls(d)' = Calls(d)
          /\ \A d \in Conns : ~up[d] => \A j \in jobs' : j.conn # d
        BY <2>3, <2>4, Spawned
    <2> DEFINE S == {x}
    <2>6. S \in SUBSET [op : {"close_call"}, ref : Refs, clients : SUBSET Refs]
          /\ \A m \in S : Rule(c, m) /\ m.ref = r
        BY <2>2, <2>3
    <2>7. Calls(c)' = Calls(c) \cup S
        BY <2>5
    <2> HIDE DEF S
    <2> QED
        BY <1>1, <2>5, <2>6, <2>7, ServerTalksStep
<1> QED
    BY <1>2, <1>3 DEF HandleDeviceClose

(* The device that opened is told; the port is one it did not answer for.   *)
LEMMA HandleAnswerStep ==
    ASSUME EdgeInv, TablesOK', NEW c \in Conns, NEW r \in Refs, HandleAnswer(c, r)
    PROVE  EdgeInv'
<1>1. /\ Handles(c, "answer", r) /\ Drop(c) /\ device' = [device EXCEPT ![c][r] = "open"]
      /\ UNCHANGED <<up, ports, monitors, jobs, attempt, losses>>
    BY DEF HandleAnswer
<1>2. /\ device' \in [Conns -> [Refs -> {"none", "asked", "open", "closed"}]]
      /\ device'[c][r] = "open"
      /\ \A d \in Conns, q \in Refs : d # c \/ q # r => device'[d][q] = device[d][q]
    BY <1>1 DEF EdgeInv, Held
<1>0. UNCHANGED <<up, ports, monitors, attempt, losses>>
    BY <1>1
<1>3. /\ Talks
      /\ Due(c)' \subseteq Due(c) \cup {}
      /\ \A d \in Conns, q \in Refs : d # c \/ q # r => \A x \in Due(d)' : x.ref = q => x \in Due(d)
    <2>1. NoneNew(c)
        BY <1>1, NoCalls
    <2> DEFINE S == {}
               op == "answer"
    <2>2. op \in Ops /\ op \notin {"DOWN", "close_cast"} /\ Handles(c, op, r) /\ Drop(c)
          /\ S \in SUBSET [op : {"ok_call", "close_call"}, ref : Refs, clients : SUBSET Refs]
          /\ \A m \in S : Rule(c, m) /\ m.ref = r
        BY <1>1 DEF Ops
    <2>3. /\ jobs' \subseteq Jobs /\ Calls(c)' = Calls(c) \cup S
          /\ \A d \in Conns \ {c} : Calls(d)' = Calls(d)
          /\ \A d \in Conns : ~up[d] => \A j \in jobs' : j.conn # d
        BY <2>1 DEF NoneNew
    <2>5. device' \in [Conns -> [Refs -> {"none", "asked", "open", "closed"}]]
        BY <1>2
    <2> HIDE DEF S, op
    <2>4. /\ Talks
          /\ Due(c)' \subseteq Due(c) \cup S
          /\ \A d \in Conns, q \in Refs : d # c \/ q # r => \A x \in Due(d)' : x.ref = q => x \in Due(d)
        BY <1>0, <2>2, <2>3, <2>5, ServerTalks
    <2> QED
        BY <2>4 DEF S
<1>4. attempt[r].from = c /\ attempt[r].to # c
    <2> DEFINE h == Head(inbox[c])
    <2>2. h.op = "answer" /\ h.ref = r /\ Rule(c, h)
        BY <1>1, Headed
    <2> HIDE DEF h
    <2>1. attempt[r].from = c
        BY <2>2 DEF Rule
    <2> QED
        BY <2>1, Opened
<1>5. Answers(c, r)'
    <2>1. ~Has(Due(c), {"error"}, r)
        BY <1>4, Types, DueTyped DEF Has, EdgeInv, Rule
    <2>2. ~Has(Due(c)', {"error"}, r)
        BY <1>3, <2>1 DEF Has
    <2>3. ports[c][r].state # "pre_open"
        BY <1>4 DEF EdgeInv, PortShape
    <2> QED
        BY <1>1, <1>2, <2>2, <2>3 DEF Answers, Has
<1>6. ASSUME NEW d \in Conns, NEW q \in Refs, d # c \/ q # r PROVE Answers(d, q)'
    BY <1>1, <1>2, <1>3, <1>6, TalkFollows, AnswersKept
<1> QED
    BY <1>3, <1>5, <1>6, TalkStep

LEMMA HandleOkStep ==
    ASSUME EdgeInv, TablesOK', NEW c \in Conns, NEW r \in Refs, HandleOk(c, r)
    PROVE  EdgeInv'
<1> DEFINE x == Msg("ok_call", r)
<1>1. /\ Handles(c, "ok", r) /\ Drop(c) /\ Spawn(c, x)
      /\ UNCHANGED <<up, ports, monitors, attempt, device, losses>>
    BY DEF HandleOk
<1>2. /\ x \in [op : {"ok_call", "close_call"}, ref : Refs, clients : SUBSET Refs]
      /\ x.op = "ok_call" /\ x.ref = r
    BY DEF Msg
<1> HIDE DEF x
<1> DEFINE h == Head(inbox[c])
<1>3. up[c] /\ h \in Due(c) /\ h.op = "ok" /\ h.ref = r /\ Rule(c, h)
    BY <1>1, Headed
<1> HIDE DEF h
<1>4. Rule(c, x)
    BY <1>2, <1>3 DEF Rule
<1>5. /\ jobs' \subseteq Jobs
      /\ Calls(c)' = Calls(c) \cup {x}
      /\ \A d \in Conns \ {c} : Calls(d)' = Calls(d)
      /\ \A d \in Conns : ~up[d] => \A j \in jobs' : j.conn # d
    BY <1>1, <1>2, <1>3, Spawned
<1>6. device' \in [Conns -> [Refs -> {"none", "asked", "open", "closed"}]]
    BY <1>1 DEF EdgeInv, Held
<1>7. /\ Talks
      /\ Due(c)' \subseteq Due(c) \cup {x}
      /\ \A d \in Conns, q \in Refs : d # c \/ q # r => \A y \in Due(d)' : y.ref = q => y \in Due(d)
    <2> DEFINE S == {x}
               op == "ok"
    <2>1. op \in Ops /\ op \notin {"DOWN", "close_cast"} /\ Handles(c, op, r)
          /\ S \in SUBSET [op : {"ok_call", "close_call"}, ref : Refs, clients : SUBSET Refs]
          /\ \A m \in S : Rule(c, m) /\ m.ref = r
        BY <1>1, <1>2, <1>4 DEF Ops
    <2>2. Calls(c)' = Calls(c) \cup S
        BY <1>5
    <2> HIDE DEF S, op
    <2>3. /\ Talks
          /\ Due(c)' \subseteq Due(c) \cup S
          /\ \A d \in Conns, q \in Refs : d # c \/ q # r => \A y \in Due(d)' : y.ref = q => y \in Due(d)
        BY <1>1, <1>5, <1>6, <2>1, <2>2, ServerTalks
    <2> QED
        BY <2>3 DEF S
<1>8. Answers(c, r)'
    <2>1. Has(Due(c), {"ok", "ok_call", "error"}, r) /\ Has(Due(c), {"ok", "ok_call"}, r)
        BY <1>3 DEF Has
    <2>2. Answers(c, r)
        BY DEF EdgeInv
    <2>3. device[c][r] # "asked" /\ ~Has(Due(c), {"error"}, r)
          /\ ~ (ports[c][r].state = "pre_open" /\ attempt[r].pc = "failed")
        BY <2>1, <2>2 DEF Answers
    <2>4. ~Has(Due(c)', {"error"}, r)
        BY <1>2, <1>7, <2>3 DEF Has
    <2> QED
        BY <1>1, <2>3, <2>4 DEF Answers, Has
<1>9. ASSUME NEW d \in Conns, NEW q \in Refs, d # c \/ q # r PROVE Answers(d, q)'
    BY <1>1, <1>7, <1>9, TalkFollows, AnswersKept
<1> QED
    BY <1>7, <1>8, <1>9, TalkStep

(* One attempt goes on, and the tables of the servers stay as they are.     *)
Moves(r) ==
    /\ UNCHANGED <<up, ports, jobs, device>>
    /\ TablesOK' /\ Held'
    /\ \A q \in Refs \ {r} : attempt'[q] = attempt[q]
    /\ attempt[r] # Unused => attempt'[r].from = attempt[r].from /\ attempt'[r].to = attempt[r].to
    /\ attempt'[r].cref = attempt[r].cref
    /\ Arrived(r) => attempt'[r].pc \notin {"idle", "monitor", "call"}
    /\ \A c \in Conns :
          /\ Single(inbox'[c])
          /\ ~up[c] => inbox'[c] = <<>>
          /\ monitors[c] \subseteq monitors'[c]
          /\ \A x \in Box(c)' \ Box(c) :
                /\ x.op \notin {"ok", "ok_call", "error"}
                /\ x.op = "portopen" => ~Arrived(x.ref)
          /\ \A x \in Box(c) : x.op \in {"DOWN", "close_cast"} => x \in Box(c)'
          /\ \A x \in Box(c) \cap Box(c)' : x.ref = r =>
                /\ x.op = "monitor" => attempt'[r].pc = "monitor"
                /\ x.op = "portopen" => attempt'[r].pc \in {"wait", "late", "dead"}
                /\ x.op = "put" => attempt'[r].pc \in {"put", "respond", "done"}
          /\ \A q \in Refs : r \in ports[c][q].clients /\ attempt[r].from # c =>
                /\ attempt'[r].pc = "failed" => attempt[r].pc = "failed"
                /\ attempt'[r].pc \in {"respond", "done"} => attempt[r].pc \in {"respond", "done"}
          /\ ports[c][r].state = "pre_open" =>
                /\ attempt'[r].pc \in {"wait", "late", "dead", "failed"}
                /\ attempt'[r].pc = "failed" => attempt[r].pc = "failed"

LEMMA MoveFollows ==
    ASSUME EdgeInv, NEW r \in Refs, Moves(r)
    PROVE  Follows
<1>1. ASSUME NEW q \in Refs
      PROVE  /\ attempt[q] # Unused => attempt'[q].from = attempt[q].from /\ attempt'[q].to = attempt[q].to
             /\ Arrived(q) => attempt'[q].pc \notin {"idle", "monitor", "call"}
    <2>1. CASE q = r
        BY <2>1 DEF Moves
    <2>2. CASE q # r
        <3>1. attempt'[q] = attempt[q]
            BY <2>2 DEF Moves
        <3> QED
            BY <3>1 DEF Arrived
    <2> QED
        BY <2>1, <2>2
<1>2. \A c \in Conns : \A x \in Box(c)' : x.op = "portopen" => x \in Box(c) \/ ~Arrived(x.ref)
    BY DEF Moves
<1>3. \A c \in Conns : up'[c] => up[c]
    BY DEF Moves
<1> QED
    BY <1>1, <1>2, <1>3, FollowsIf

LEMMA MoveStep ==
    ASSUME EdgeInv, NEW r \in Refs, Moves(r), Stage(r)',
           \A c \in Conns : \A x \in Box(c)' \ Box(c) : Rule(c, x)'
    PROVE  EdgeInv'
<1>1. /\ Follows /\ TablesOK' /\ Held' /\ UNCHANGED <<up, ports, jobs, device>>
      /\ \A q \in Refs \ {r} : attempt'[q] = attempt[q]
    BY MoveFollows DEF Moves
<1>2. ASSUME NEW q \in Refs PROVE Stage(q)'
    <2>1. CASE q # r
        <3>1. Stage(q) /\ attempt'[q] = attempt[q]
            BY <2>1, <1>1 DEF EdgeInv
        <3> QED
            BY <1>1, <3>1, StageKept DEF Stage
    <2> QED
        BY <2>1
<1>3. ASSUME NEW c \in Conns PROVE Gone(c)' /\ Single(inbox[c])'
    <2>1. Single(inbox'[c]) /\ (~up[c] => inbox'[c] = <<>>)
        BY DEF Moves
    <2>2. Gone(c)
        BY DEF EdgeInv
    <2> QED
        BY <1>1, <2>1, <2>2 DEF Gone, Single, NoPorts, NoPort
<1>4. ASSUME NEW c \in Conns, NEW x \in Due(c)' PROVE Rule(c, x)'
    <2>1. Calls(c)' = Calls(c)
        BY <1>1, CallsSame
    <2>2. CASE x \in Box(c)' \ Box(c)
        BY <2>2
    <2>3. CASE x \notin Box(c)' \ Box(c)
        <3>1. x \in Due(c) /\ (x \in Box(c) \cap Box(c)' \/ x \in Calls(c))
            BY <1>4, <2>1, <2>3 DEF Due
        <3>2. Rule(c, x) /\ x \in Messages
            BY <3>1, Types, DueTyped DEF EdgeInv
        <3>3. x \in Calls(c) => x.op \notin {"monitor", "portopen", "put"}
            BY Types DEF Held, Calls, Jobs
        <3>4. /\ x.op = "monitor" => attempt'[x.ref].pc = "monitor"
              /\ x.op = "portopen" => attempt'[x.ref].pc \in {"wait", "late", "dead"}
              /\ x.op = "put" => attempt'[x.ref].pc \in {"put", "respond", "done"}
            <4>1. x.ref \in Refs
                BY <3>2 DEF Messages
            <4>2. CASE x.ref # r
                BY <1>1, <3>2, <4>1, <4>2 DEF Rule
            <4>3. CASE x.ref = r
                BY <3>1, <3>3, <4>3 DEF Moves
            <4> QED
                BY <4>2, <4>3
        <3> QED
            BY <1>1, <3>2, <3>4, RuleKept
    <2> QED
        BY <2>2, <2>3
<1>5. ASSUME NEW c \in Conns, NEW q \in Refs PROVE PortShape(c, q)'
    <2>1. ports[c][q].state = "pre_open" => attempt'[q].pc \in {"wait", "late", "dead", "failed"}
        <3>1. CASE q = r
            BY <3>1 DEF Moves
        <3>2. CASE q # r
            BY <1>1, <3>2 DEF EdgeInv, PortShape
        <3> QED
            BY <3>1, <3>2
    <2> QED
        BY <1>1, <2>1, PortShapeKept
<1>6. ASSUME NEW c \in Conns, NEW q \in Refs PROVE Answers(c, q)'
    <2>1. \A x \in Due(c)' : x.ref = q /\ x.op \in {"ok", "ok_call", "error"} => x \in Due(c)
        <3>1. Calls(c)' = Calls(c)
            BY <1>1, CallsSame
        <3>2. \A x \in Box(c)' : x.op \in {"ok", "ok_call", "error"} => x \in Box(c)
            BY DEF Moves
        <3> QED
            BY <3>1, <3>2 DEF Due
    <2>2. ports'[c][q].state = "pre_open" /\ attempt'[q].pc = "failed" =>
              ports[c][q].state = "pre_open" /\ attempt[q].pc = "failed"
        <3>1. CASE q = r
            BY <1>1, <3>1 DEF Moves
        <3>2. CASE q # r
            BY <1>1, <3>2
        <3> QED
            BY <3>1, <3>2
    <2> QED
        BY <1>1, <2>1, <2>2, AnswersKept
<1>7. ASSUME NEW c \in Conns, NEW q \in Refs, NEW m \in ports'[c][q].clients PROVE Client(c, q, m)'
    <2>1. \A d \in Conns : monitors[d] \subseteq monitors'[d]
        BY DEF Moves
    <2>2. \A d \in Conns : \A x \in Box(d) : x.op \in {"DOWN", "close_cast"} => x \in Box(d)'
        BY DEF Moves
    <2>3. ASSUME NEW d \in Conns, NEW p \in Refs, NEW n \in ports[d][p].clients, attempt[n].from # d
          PROVE  /\ attempt'[n].cref = attempt[n].cref
                 /\ attempt'[n].pc = "failed" => attempt[n].pc = "failed"
                 /\ attempt'[n].pc \in {"respond", "done"} => attempt[n].pc \in {"respond", "done"}
        <3>1. n \in Refs
            BY Types
        <3>2. CASE n = r
            BY <2>3, <3>2 DEF Moves
        <3>3. CASE n # r
            BY <1>1, <3>1, <3>3
        <3> QED
            BY <3>2, <3>3
    <2>4. m \in ports[c][q].clients
        BY <1>1, <1>7
    <2> QED
        BY <1>1, <2>1, <2>2, <2>3, <2>4, ClientsStay
<1> QED
    BY <1>1, <1>2, <1>3, <1>4, <1>5, <1>6, <1>7 DEF EdgeInv

(* An attempt whose request was not handled has no client at the other end. *)
LEMMA NotArrived ==
    ASSUME EdgeInv, NEW r \in Refs, ~Arrived(r)
    PROVE  /\ \A c \in Conns, q \in Refs : r \in ports[c][q].clients => attempt[r].from = c
           /\ \A c \in Conns : attempt[r].to = c => ports[c][r].clients = {}
           /\ \A c \in Conns : \A x \in Due(c) : x.ref = r => x.op \notin {"ok", "ok_call", "error"}
           /\ \A c \in Conns : device[c][r] # "asked"
           /\ attempt[r].cref = NoRef
<1>1. ASSUME NEW c \in Conns, NEW q \in Refs, r \in ports[c][q].clients
      PROVE  attempt[r].from = c
    BY <1>1 DEF EdgeInv, Client, Belongs
<1>2. ASSUME NEW c \in Conns, attempt[r].to = c, NEW m \in ports[c][r].clients
      PROVE  FALSE
    <2>1. Belongs(c, r, m)
        BY DEF EdgeInv, Client
    <2>2. attempt[r].from # c
        BY <1>2, Opened
    <2> QED
        BY <2>1, <2>2 DEF Belongs
<1>3. \A c \in Conns : \A x \in Due(c) : x.ref = r => x.op \notin {"ok", "ok_call", "error"}
    BY DEF EdgeInv, Rule
<1>4. \A c \in Conns : device[c][r] # "asked"
    BY DEF EdgeInv, Answers
<1>5. attempt[r].cref = NoRef
    BY DEF EdgeInv, Stage
<1> QED
    BY <1>1, <1>2, <1>3, <1>4, <1>5

LEMMA GoesTo ==
    ASSUME EdgeInv, NEW r \in Refs, NEW pc, Goes(r, pc)
    PROVE  /\ attempt'[r].pc = pc
           /\ attempt'[r].from = attempt[r].from /\ attempt'[r].to = attempt[r].to
           /\ attempt'[r].rights = attempt[r].rights /\ attempt'[r].cref = attempt[r].cref
           /\ \A q \in Refs \ {r} : attempt'[q] = attempt[q]
    BY Types DEF Goes, Attempt

StageStart(r, pc) ==
    /\ pc # "idle" /\ attempt[r].pc # "idle"
    /\ pc \in {"monitor", "wait", "replied", "put", "respond", "done", "late"} => up[attempt[r].from]
    /\ pc = "dead" => ~up[attempt[r].from]

LEMMA GoesStage ==
    ASSUME EdgeInv, Follows, NEW r \in Refs, NEW pc, Goes(r, pc), StageStart(r, pc), UNCHANGED up
    PROVE  Stage(r)'
<1> DEFINE a == attempt[r]
<1>1. /\ attempt'[r].pc = pc /\ attempt'[r].from = a.from /\ attempt'[r].to = a.to
      /\ attempt'[r].rights = a.rights /\ attempt'[r].cref = a.cref
    BY GoesTo
<1>2. Stage(r)
    BY DEF EdgeInv
<1>3. /\ pc # "idle" /\ a.from \in Conns /\ a.to \in Conns /\ a.from # a.to /\ a.rights \in Rights[a.from]
      /\ pc \in {"monitor", "wait", "replied", "put", "respond", "done", "late"} => up[a.from]
      /\ pc = "dead" => ~up[a.from]
    BY <1>2 DEF Stage, StageStart
<1>4. a.cref # NoRef => Arrived(r)' /\ attempt'[a.cref].to = a.to
    <2> SUFFICES ASSUME a.cref # NoRef PROVE Arrived(r)' /\ attempt'[a.cref].to = a.to
        OBVIOUS
    <2>1. Arrived(r) /\ attempt[a.cref].to = a.to /\ a.cref \in Refs
        BY <1>2, Types DEF Stage, Attempt
    <2> QED
        BY <1>3, <2>1, FollowsUp DEF Follows
<1> HIDE DEF a
<1> QED
    BY <1>1, <1>3, <1>4 DEF Stage

(* The task of an attempt goes on, and may send a message.                  *)
LEMMA TaskMoves ==
    ASSUME EdgeInv, TablesOK', NEW r \in Refs, NEW pc \in Progress, Goes(r, pc), StageStart(r, pc),
           UNCHANGED <<up, ports, monitors, jobs, device, losses>>,
           inbox' \in [Conns -> Seq(Messages)],
           \A c \in Conns :
               /\ Single(inbox'[c]) /\ (~up[c] => inbox'[c] = <<>>) /\ Box(c) \subseteq Box(c)'
               /\ \A x \in Box(c)' \ Box(c) :
                     x.op \notin {"ok", "ok_call", "error"} /\ (x.op = "portopen" => ~Arrived(x.ref)),
           Arrived(r) => pc \notin {"monitor", "call"},
           \A c \in Conns : \A x \in Box(c) : x.ref = r =>
               /\ x.op = "monitor" => pc = "monitor"
               /\ x.op = "portopen" => pc \in {"wait", "late", "dead"}
               /\ x.op = "put" => pc \in {"put", "respond", "done"},
           \A c \in Conns, q \in Refs : r \in ports[c][q].clients /\ attempt[r].from # c =>
               /\ pc = "failed" => attempt[r].pc = "failed"
               /\ pc \in {"respond", "done"} => attempt[r].pc \in {"respond", "done"},
           \A c \in Conns : ports[c][r].state = "pre_open" =>
               pc \in {"wait", "late", "dead", "failed"} /\ (pc = "failed" => attempt[r].pc = "failed")
    PROVE  Moves(r) /\ Stage(r)' /\ Follows
<1>1. /\ attempt'[r].pc = pc /\ attempt'[r].from = attempt[r].from /\ attempt'[r].to = attempt[r].to
      /\ attempt'[r].cref = attempt[r].cref
      /\ \A q \in Refs \ {r} : attempt'[q] = attempt[q]
    BY GoesTo
<1>2. Held'
    BY DEF EdgeInv, Held, Messages, Jobs, Ops
<1>3. Arrived(r) => pc \notin {"idle", "monitor", "call"}
    BY DEF StageStart
<1>4. ASSUME NEW c \in Conns
      PROVE  /\ Single(inbox'[c])
             /\ ~up[c] => inbox'[c] = <<>>
             /\ monitors[c] \subseteq monitors'[c]
             /\ \A x \in Box(c)' \ Box(c) :
                   /\ x.op \notin {"ok", "ok_call", "error"}
                   /\ x.op = "portopen" => ~Arrived(x.ref)
             /\ \A x \in Box(c) : x.op \in {"DOWN", "close_cast"} => x \in Box(c)'
    OBVIOUS
<1>5. Moves(r)
    BY <1>1, <1>2, <1>3, <1>4 DEF Moves
<1> QED
    BY <1>5, MoveFollows, GoesStage

LEMMA NoMessage ==
    ASSUME EdgeInv, UNCHANGED inbox
    PROVE  /\ inbox' \in [Conns -> Seq(Messages)]
           /\ \A c \in Conns :
               /\ Single(inbox'[c]) /\ (~up[c] => inbox'[c] = <<>>) /\ Box(c)' = Box(c)
    BY DEF EdgeInv, Held, Gone, Box

LEMMA CallTimesOutStep ==
    ASSUME EdgeInv, TablesOK', NEW r \in Refs, CallTimesOut(r)
    PROVE  EdgeInv'
<1> DEFINE pc == "late"
<1>1. /\ attempt[r].pc = "wait" /\ Goes(r, pc) /\ pc \in Progress
      /\ UNCHANGED <<up, inbox, ports, monitors, jobs, device, losses>>
    BY DEF CallTimesOut, At, Progress
<1>2. StageStart(r, pc)
    BY <1>1 DEF EdgeInv, Stage, StageStart
<1>3. \A c \in Conns : \A x \in Box(c) : x.ref = r => x.op \notin {"monitor", "put"}
    BY <1>1 DEF EdgeInv, Rule, Due
<1>4. Moves(r) /\ Stage(r)'
    BY <1>1, <1>2, <1>3, NoMessage, TaskMoves
<1>5. \A c \in Conns : Box(c)' = Box(c)
    BY <1>1, NoMessage
<1> QED
    BY <1>4, <1>5, MoveStep

(* The process that was called is gone, and with it what it was asked.      *)
LEMMA CallExitsStep ==
    ASSUME EdgeInv, TablesOK', NEW r \in Refs, CallExits(r)
    PROVE  EdgeInv'
<1> DEFINE pc == "failed"
<1>1. /\ attempt[r].pc = "wait" /\ ~up[attempt[r].to] /\ Goes(r, pc) /\ pc \in Progress
      /\ UNCHANGED <<up, inbox, ports, monitors, jobs, device, losses>>
    BY DEF CallExits, At, Progress
<1>2. StageStart(r, pc) /\ attempt[r].to \in Conns
    BY <1>1 DEF EdgeInv, Stage, StageStart
<1>3. Box(attempt[r].to) = {} /\ \A q \in Refs : ports[attempt[r].to][q] = NoPort
    <2>1. inbox[attempt[r].to] = <<>> /\ ports[attempt[r].to] = NoPorts
        BY <1>1, <1>2 DEF EdgeInv, Gone
    <2> QED
        BY <2>1 DEF Box, ToSet, NoPorts
<1>4. \A c \in Conns : \A x \in Box(c) : x.ref = r => x.op \notin {"monitor", "put", "portopen"}
    <2>1. \A c \in Conns : \A x \in Box(c) : Rule(c, x)
        BY DEF EdgeInv, Due
    <2> QED
        BY <1>1, <1>3, <2>1 DEF Rule
<1>5. \A c \in Conns, q \in Refs : r \in ports[c][q].clients => attempt[r].from = c
    <2> TAKE c \in Conns, q \in Refs
    <2>1. r \in ports[c][q].clients /\ attempt[r].from # c => attempt[r].to = c
        BY DEF EdgeInv, Client, Belongs
    <2> QED
        BY <2>1, <1>3 DEF NoPort
<1>6. \A c \in Conns : ports[c][r].state # "pre_open"
    <2> TAKE c \in Conns
    <2>1. ports[c][r].state = "pre_open" => attempt[r].to = c
        BY DEF EdgeInv, PortShape
    <2> QED
        BY <2>1, <1>3 DEF NoPort
<1>7. Moves(r) /\ Stage(r)'
    BY <1>1, <1>2, <1>4, <1>5, <1>6, NoMessage, TaskMoves
<1>8. \A c \in Conns : Box(c)' = Box(c)
    BY <1>1, NoMessage
<1> QED
    BY <1>7, <1>8, MoveStep

(* The task calls or answers its own server.                                *)
LEMMA ToOpener ==
    ASSUME EdgeInv, TablesOK', NEW r \in Refs,
           NEW pc \in {"put", "done"}, NEW op \in {"put", "answer"},
           Goes(r, pc), ToServer(Opener(r), Msg(op, r)), op = "put" <=> pc = "put",
           pc = "put" => attempt[r].pc = "replied", pc = "done" => attempt[r].pc = "respond",
           UNCHANGED <<up, ports, monitors, jobs, device, losses>>
    PROVE  EdgeInv'
<1>0. PICK o \in Conns : o = attempt[r].from
    BY DEF EdgeInv, Stage
<1> DEFINE m == Msg(op, r)
<1>1. /\ o \in Conns /\ up[o] /\ StageStart(r, pc) /\ pc \in Progress
      /\ ToServer(o, m)
    BY <1>0 DEF EdgeInv, Stage, StageStart, Progress, Opener
<1>2. m \in Messages /\ m.op = op /\ m.ref = r
    BY DEF Messages, Msg, Ops
<1> HIDE DEF m
<1>3. /\ inbox' \in [Conns -> Seq(Messages)]
      /\ Box(o)' = Box(o) \cup {m}
      /\ \A d \in Conns \ {o} : Box(d)' = Box(d)
      /\ \A d \in Conns : Single(inbox'[d]) /\ (~up[d] => inbox'[d] = <<>>)
    BY <1>1, <1>2, SentTo
<1>4. \A c \in Conns : \A x \in Box(c) : x.ref = r =>
          x.op \notin {"monitor", "portopen"} /\ (x.op = "put" => pc \in {"put", "done"})
    <2>1. \A c \in Conns : \A x \in Box(c) : Rule(c, x)
        BY DEF EdgeInv, Due
    <2> QED
        BY <2>1 DEF Rule
<1>5. \A c \in Conns : ports[c][r].state # "pre_open"
    BY DEF EdgeInv, PortShape
<1>6. \A c \in Conns :
          /\ Single(inbox'[c]) /\ (~up[c] => inbox'[c] = <<>>) /\ Box(c) \subseteq Box(c)'
          /\ \A x \in Box(c)' \ Box(c) :
                x.op \notin {"ok", "ok_call", "error"} /\ (x.op = "portopen" => ~Arrived(x.ref))
    BY <1>2, <1>3
<1>7. Moves(r) /\ Stage(r)' /\ Follows
    BY <1>1, <1>3, <1>4, <1>5, <1>6, TaskMoves
<1>8. ASSUME NEW c \in Conns, NEW x \in Box(c)' \ Box(c) PROVE Rule(c, x)'
    <2>1. c = o /\ x = m
        BY <1>3
    <2>2. attempt'[r].from = o /\ attempt'[r].pc = pc
        BY <1>0, GoesTo
    <2> QED
        BY <1>2, <2>1, <2>2 DEF Rule
<1> QED
    BY <1>7, <1>8, MoveStep

LEMMA CallSelfStep ==
    ASSUME EdgeInv, TablesOK', NEW r \in Refs, CallSelf(r)
    PROVE  EdgeInv'
<1> DEFINE pc == "put"
           op == "put"
<1>1. /\ attempt[r].pc = "replied" /\ Goes(r, pc) /\ ToServer(Opener(r), Msg(op, r))
      /\ UNCHANGED <<up, ports, monitors, jobs, device, losses>>
      /\ pc \in {"put", "done"} /\ op \in {"put", "answer"} /\ (op = "put" <=> pc = "put") /\ pc # "done"
    BY DEF CallSelf, At
<1> HIDE DEF pc, op
<1> QED
    BY <1>1, ToOpener

LEMMA RespondStep ==
    ASSUME EdgeInv, TablesOK', NEW r \in Refs, Respond(r)
    PROVE  EdgeInv'
<1> DEFINE pc == "done"
           op == "answer"
<1>1. /\ attempt[r].pc = "respond" /\ Goes(r, pc) /\ ToServer(Opener(r), Msg(op, r))
      /\ UNCHANGED <<up, ports, monitors, jobs, device, losses>>
      /\ pc \in {"put", "done"} /\ op \in {"put", "answer"} /\ (op = "put" <=> pc = "put") /\ pc # "put"
    BY DEF Respond, At
<1> HIDE DEF pc, op
<1> QED
    BY <1>1, ToOpener

(* What is known of an attempt that has sent no open request.               *)
LEMMA Early ==
    ASSUME EdgeInv, NEW r \in Refs, attempt[r].pc \in {"idle", "monitor", "call"}
    PROVE  /\ ~Arrived(r)
           /\ \A c \in Conns : \A x \in Box(c) : x.ref = r =>
                 x.op \notin {"portopen", "put"} /\ (x.op = "monitor" => attempt[r].pc = "monitor")
           /\ \A c \in Conns, q \in Refs : r \in ports[c][q].clients => attempt[r].from = c
           /\ \A c \in Conns : ports[c][r].state # "pre_open"
<1>1. ~Arrived(r)
    BY DEF Arrived
<1>2. \A c \in Conns : \A x \in Box(c) : Rule(c, x)
    BY DEF EdgeInv, Due
<1>3. \A c \in Conns : \A x \in Box(c) : x.ref = r =>
          x.op \notin {"portopen", "put"} /\ (x.op = "monitor" => attempt[r].pc = "monitor")
    BY <1>2 DEF Rule
<1>4. \A c \in Conns : ports[c][r].state # "pre_open"
    BY DEF EdgeInv, PortShape
<1> QED
    BY <1>1, <1>3, <1>4, NotArrived

(* call({:portopen, ...}) of the peer: it gets the request, or is gone.     *)
LEMMA CallPeerStep ==
    ASSUME EdgeInv, TablesOK', NEW r \in Refs, CallPeer(r)
    PROVE  EdgeInv'
<1> DEFINE m == Msg("portopen", r)
<1>1. attempt[r].pc = "call" /\ UNCHANGED <<up, ports, monitors, jobs, device, losses>>
    BY DEF CallPeer, At
<1>2. /\ ~Arrived(r)
      /\ \A c \in Conns : \A x \in Box(c) : x.ref = r => x.op \notin {"portopen", "put", "monitor"}
      /\ \A c \in Conns, q \in Refs : r \in ports[c][q].clients => attempt[r].from = c
      /\ \A c \in Conns : ports[c][r].state # "pre_open"
    BY <1>1, Early
<1>3. PICK t \in Conns : t = attempt[r].to
    BY <1>1 DEF EdgeInv, Stage
<1>4. CASE up[t]
    <2> DEFINE pc == IF up[attempt[r].from] THEN "wait" ELSE "dead"
    <2>1. Goes(r, pc) /\ ToServer(t, m) /\ pc \in Progress /\ pc \in {"wait", "dead"}
        BY <1>3, <1>4 DEF CallPeer, Opener, Progress
    <2>2. StageStart(r, pc)
        BY <1>1 DEF StageStart
    <2> HIDE DEF pc
    <2>3. m \in Messages /\ m.op = "portopen" /\ m.ref = r
        BY DEF Messages, Msg, Ops
    <2>4. ~Has(Box(t), {m.op}, m.ref)
        BY <1>2, <1>3, <2>3 DEF Has
    <2> HIDE DEF m
    <2>5. /\ inbox' \in [Conns -> Seq(Messages)]
          /\ Box(t)' = Box(t) \cup {m}
          /\ \A d \in Conns \ {t} : Box(d)' = Box(d)
          /\ \A d \in Conns : Single(inbox'[d]) /\ (~up[d] => inbox'[d] = <<>>)
        BY <1>3, <1>4, <2>1, <2>3, <2>4, SentTo
    <2>6. \A c \in Conns :
              /\ Single(inbox'[c]) /\ (~up[c] => inbox'[c] = <<>>) /\ Box(c) \subseteq Box(c)'
              /\ \A x \in Box(c)' \ Box(c) :
                    x.op \notin {"ok", "ok_call", "error"} /\ (x.op = "portopen" => ~Arrived(x.ref))
        BY <1>2, <2>3, <2>5
    <2>7. Moves(r) /\ Stage(r)' /\ Follows
        BY <1>1, <1>2, <2>1, <2>2, <2>5, <2>6, TaskMoves
    <2>8. ASSUME NEW c \in Conns, NEW x \in Box(c)' \ Box(c) PROVE Rule(c, x)'
        <3>1. c = t /\ x = m
            BY <2>5
        <3>2. attempt'[r].to = t /\ attempt'[r].pc = pc
            BY <1>3, <2>1, GoesTo
        <3> QED
            BY <2>1, <2>3, <3>1, <3>2 DEF Rule
    <2> QED
        BY <2>7, <2>8, MoveStep
<1>5. CASE ~up[t]
    <2> DEFINE pc == "failed"
    <2>1. Goes(r, pc) /\ UNCHANGED inbox /\ pc \in Progress
        BY <1>3, <1>5 DEF CallPeer, Progress
    <2>2. StageStart(r, pc)
        BY <1>1 DEF StageStart
    <2>3. \A c \in Conns : Box(c)' = Box(c)
        BY <2>1, NoMessage
    <2>4. Moves(r) /\ Stage(r)'
        BY <1>1, <1>2, <2>1, <2>2, NoMessage, TaskMoves
    <2> QED
        BY <2>3, <2>4, MoveStep
<1> QED
    BY <1>4, <1>5

(* A server that handles op of r starts to monitor the other end.           *)
Monitoring(c, op, r) ==
    /\ inbox' \in [Conns -> Seq(Messages)] /\ monitors' \in [Conns -> SUBSET Refs]
    /\ \A d \in Conns :
          /\ Single(inbox'[d]) /\ (~up[d] => inbox'[d] = <<>>)
          /\ monitors[d] \subseteq monitors'[d]
          /\ d # c => Box(d)' = Box(d)
    /\ \A x \in Box(c)' : x \in Box(c) \/ (x = Msg("DOWN", r) /\ ~up[Peer(c, r)])
    /\ \A x \in Box(c) : x \in Box(c)' \/ (x.op = op /\ x.ref = r)
    /\ ~Has(Box(c)', {op}, r)
    /\ IF up[Peer(c, r)] THEN r \in monitors'[c] ELSE Msg("DOWN", r) \in Box(c)'

LEMMA MonitoredStep ==
    ASSUME EdgeInv, NEW c \in Conns, NEW r \in Refs, NEW op \in {"monitor", "portopen"},
           Handles(c, op, r), Monitored(c, r)
    PROVE  Monitoring(c, op, r)
<1> DEFINE h == Head(inbox[c])
           down == Msg("DOWN", r)
<1>1. /\ up[c] /\ h.op = op /\ h.ref = r
      /\ Rest(c) \in Seq(Messages) /\ Single(Rest(c))
      /\ Box(c) = ToSet(Rest(c)) \cup {h}
      /\ ~Has(ToSet(Rest(c)), {op}, r)
    BY Headed
<1>2. down \in Messages /\ down.op = "DOWN"
    BY DEF Messages, Msg, Ops
<1>3. Held /\ \A d \in Conns : Single(inbox[d]) /\ (~up[d] => inbox[d] = <<>>)
    BY DEF EdgeInv, Gone
<1> HIDE DEF h, down
<1>4. CASE up[Peer(c, r)]
    <2>1. inbox' = [inbox EXCEPT ![c] = Rest(c)] /\ monitors' = [monitors EXCEPT ![c] = @ \cup {r}]
        BY <1>4 DEF Monitored, Drop
    <2>2. /\ inbox' \in [Conns -> Seq(Messages)]
          /\ inbox'[c] = Rest(c) /\ Box(c)' = ToSet(Rest(c))
          /\ \A d \in Conns \ {c} : inbox'[d] = inbox[d] /\ Box(d)' = Box(d)
        BY <1>1, <1>3, <2>1, BoxSet
    <2>3. /\ monitors' \in [Conns -> SUBSET Refs] /\ r \in monitors'[c]
          /\ \A d \in Conns : monitors[d] \subseteq monitors'[d]
        BY <1>3, <2>1 DEF Held
    <2> QED
        BY <1>1, <1>3, <1>4, <2>2, <2>3 DEF Monitoring
<1>5. CASE ~up[Peer(c, r)]
    <2> DEFINE box == Append(Rest(c), down)
    <2>1. inbox' = [inbox EXCEPT ![c] = box] /\ monitors' = monitors
        BY <1>5 DEF Monitored, down
    <2>2. box \in Seq(Messages) /\ ToSet(box) = ToSet(Rest(c)) \cup {down} /\ Single(box)
        BY <1>1, <1>2, BoxAppend
    <2> HIDE DEF box
    <2>3. /\ inbox' \in [Conns -> Seq(Messages)]
          /\ inbox'[c] = box /\ Box(c)' = ToSet(box)
          /\ \A d \in Conns \ {c} : inbox'[d] = inbox[d] /\ Box(d)' = Box(d)
        BY <1>3, <2>1, <2>2, BoxSet
    <2>4. Box(c)' = ToSet(Rest(c)) \cup {down}
        BY <2>2, <2>3
    <2>5. monitors' \in [Conns -> SUBSET Refs] /\ \A d \in Conns : monitors[d] \subseteq monitors'[d]
        BY <1>3, <2>1 DEF Held
    <2>6. ~Has(Box(c)', {op}, r)
        BY <1>1, <1>2, <2>4 DEF Has
    <2>7. \A d \in Conns : /\ Single(inbox'[d]) /\ (~up[d] => inbox'[d] = <<>>)
                           /\ d # c => Box(d)' = Box(d)
        BY <1>1, <1>3, <2>2, <2>3
    <2> QED
        BY <1>1, <1>5, <2>3, <2>4, <2>5, <2>6, <2>7 DEF Monitoring, down
<1> QED
    BY <1>4, <1>5

LEMMA HandleMonitorStep ==
    ASSUME EdgeInv, TablesOK', NEW c \in Conns, NEW r \in Refs, HandleMonitor(c, r)
    PROVE  EdgeInv'
<1> DEFINE h == Head(inbox[c])
           pc == "call"
           op == "monitor"
           down == Msg("DOWN", r)
<1>1. /\ Handles(c, op, r) /\ Monitored(c, r) /\ Goes(r, pc)
      /\ UNCHANGED <<up, ports, jobs, device, losses>>
    BY DEF HandleMonitor
<1>2. h.op = op /\ h.ref = r /\ Rule(c, h)
    BY <1>1, Headed
<1> HIDE DEF h
<1>3. attempt[r].from = c /\ attempt[r].pc = "monitor"
    BY <1>2 DEF Rule
<1>4. /\ ~Arrived(r)
      /\ \A d \in Conns : \A x \in Box(d) : x.ref = r => x.op \notin {"portopen", "put"}
      /\ \A d \in Conns, q \in Refs : r \in ports[d][q].clients => attempt[r].from = d
      /\ \A d \in Conns : ports[d][r].state # "pre_open"
    BY <1>3, Early
<1>5. PICK t \in Conns : t = attempt[r].to /\ t # c
    BY <1>3, Opened
<1>6. Monitoring(c, op, r) /\ Peer(c, r) = t
    BY <1>1, <1>3, <1>5, MonitoredStep DEF Peer, IsOpener
<1>7. /\ attempt'[r].pc = pc /\ attempt'[r].from = attempt[r].from /\ attempt'[r].to = attempt[r].to
      /\ attempt'[r].cref = attempt[r].cref
      /\ \A q \in Refs \ {r} : attempt'[q] = attempt[q]
    BY <1>1, GoesTo
<1>8. Held'
    BY <1>1, <1>6 DEF EdgeInv, Held, Messages, Jobs, Ops, Monitoring
<1>9. down.op = "DOWN" /\ down.ref = r
    BY DEF Msg
<1>10. ASSUME NEW d \in Conns
       PROVE  /\ \A x \in Box(d)' \ Box(d) : d = c /\ x = down /\ ~up[t]
              /\ \A x \in Box(d) : x.op \in {"DOWN", "close_cast"} => x \in Box(d)'
              /\ \A x \in Box(d)' : x.op = "monitor" => x.ref # r
    <2>1. CASE d = c
        BY <1>6, <1>9, <2>1 DEF Monitoring, Has
    <2>2. CASE d # c
        <3>1. Box(d)' = Box(d)
            BY <1>6, <2>2 DEF Monitoring
        <3>2. \A x \in Box(d) : x.op = "monitor" /\ x.ref = r => attempt[r].from = d
            BY DEF EdgeInv, Due, Rule
        <3> QED
            BY <1>3, <2>2, <3>1, <3>2
    <2> QED
        BY <2>1, <2>2
<1> HIDE DEF down
<1>11. ASSUME NEW d \in Conns
       PROVE  /\ Single(inbox'[d])
              /\ ~up[d] => inbox'[d] = <<>>
              /\ monitors[d] \subseteq monitors'[d]
              /\ \A x \in Box(d)' \ Box(d) :
                    /\ x.op \notin {"ok", "ok_call", "error"}
                    /\ x.op = "portopen" => ~Arrived(x.ref)
              /\ \A x \in Box(d) : x.op \in {"DOWN", "close_cast"} => x \in Box(d)'
              /\ \A x \in Box(d) \cap Box(d)' : x.ref = r => x.op \notin {"monitor", "portopen", "put"}
    BY <1>4, <1>6, <1>9, <1>10 DEF Monitoring
<1>12. Moves(r)
    BY <1>1, <1>4, <1>7, <1>8, <1>11 DEF Moves
<1>13. StageStart(r, pc)
    BY <1>3 DEF StageStart
<1>14. Stage(r)'
    BY <1>1, <1>12, <1>13, MoveFollows, GoesStage
<1>15. ASSUME NEW d \in Conns, NEW x \in Box(d)' \ Box(d) PROVE Rule(d, x)'
    <2>1. d = c /\ x = down /\ ~up[t]
        BY <1>10
    <2>2. Peer(c, r)' = t
        BY <1>3, <1>5, <1>7 DEF Peer, IsOpener
    <2> QED
        BY <1>1, <1>9, <2>1, <2>2 DEF Rule
<1> QED
    BY <1>12, <1>14, <1>15, MoveStep

(* A device opens a port.                                                   *)
LEMMA DeviceOpensStep ==
    ASSUME EdgeInv, TablesOK', NEW c \in Conns, NEW d \in Conns, NEW r \in Refs, NEW f \in Rights[c],
           DeviceOpens(c, d, r, f)
    PROVE  EdgeInv'
<1> DEFINE new == [pc |-> "monitor", from |-> c, to |-> d, rights |-> f, cref |-> NoRef]
           m == Msg("monitor", r)
<1>1. /\ c # d /\ up[c] /\ attempt[r] = Unused /\ attempt' = [attempt EXCEPT ![r] = new]
      /\ ToServer(c, m) /\ UNCHANGED <<up, ports, monitors, jobs, device, losses>>
    BY DEF DeviceOpens, Idle
<1>2. /\ new.pc = "monitor" /\ new.from = c /\ new.to = d /\ new.rights = f /\ new.cref = NoRef
    OBVIOUS
<1> HIDE DEF new
<1>3. attempt'[r] = new /\ \A q \in Refs \ {r} : attempt'[q] = attempt[q]
    BY <1>1, Types
<1>4. attempt[r].pc = "idle" /\ attempt[r].from = NoConn /\ attempt[r].cref = NoRef
    BY <1>1 DEF Unused
<1>5. /\ ~Arrived(r)
      /\ \A e \in Conns : \A x \in Box(e) : x.ref = r => x.op \notin {"portopen", "put", "monitor"}
      /\ \A e \in Conns, q \in Refs : r \in ports[e][q].clients => attempt[r].from = e
      /\ \A e \in Conns : ports[e][r].state # "pre_open"
    BY <1>4, Early
<1>6. m \in Messages /\ m.op = "monitor" /\ m.ref = r
    BY DEF Messages, Msg, Ops
<1> HIDE DEF m
<1>7. ~Has(Box(c), {m.op}, m.ref)
    BY <1>5, <1>6 DEF Has
<1>8. /\ inbox' \in [Conns -> Seq(Messages)]
      /\ Box(c)' = Box(c) \cup {m}
      /\ \A e \in Conns \ {c} : Box(e)' = Box(e)
      /\ \A e \in Conns : Single(inbox'[e]) /\ (~up[e] => inbox'[e] = <<>>)
    BY <1>1, <1>6, <1>7, SentTo
<1>9. Held'
    BY <1>1, <1>8 DEF EdgeInv, Held, Messages, Jobs, Ops
<1>10. ASSUME NEW e \in Conns
       PROVE  /\ Single(inbox'[e])
              /\ ~up[e] => inbox'[e] = <<>>
              /\ monitors[e] \subseteq monitors'[e]
              /\ \A x \in Box(e)' \ Box(e) :
                    /\ x.op \notin {"ok", "ok_call", "error"}
                    /\ x.op = "portopen" => ~Arrived(x.ref)
              /\ \A x \in Box(e) : x.op \in {"DOWN", "close_cast"} => x \in Box(e)'
              /\ \A x \in Box(e) \cap Box(e)' : x.ref = r => x.op \notin {"monitor", "portopen", "put"}
    BY <1>1, <1>5, <1>6, <1>8
<1>11. Moves(r)
    BY <1>1, <1>2, <1>3, <1>4, <1>5, <1>9, <1>10 DEF Moves
<1>12. Stage(r)'
    BY <1>1, <1>2, <1>3 DEF Stage
<1>13. ASSUME NEW e \in Conns, NEW x \in Box(e)' \ Box(e) PROVE Rule(e, x)'
    <2>1. e = c /\ x = m
        BY <1>8
    <2> QED
        BY <1>2, <1>3, <1>6, <2>1 DEF Rule
<1> QED
    BY <1>11, <1>12, <1>13, MoveStep

-----------------------------------------------------------------------------
(* Steps that change the table of one server.                              *)

OnlyPort(c, r) == \A d \in Conns, q \in Refs : d # c \/ q # r => ports'[d][q] = ports[d][q]

LEMMA PortAt ==
    ASSUME EdgeInv, NEW c \in Conns, NEW r \in Refs, NEW p, ports' = [ports EXCEPT ![c][r] = p]
    PROVE  /\ ports'[c][r] = p /\ OnlyPort(c, r)
           /\ \A d \in Conns \ {c} : ports'[d] = ports[d]
    BY Types DEF OnlyPort

LEMMA GoneKept ==
    ASSUME EdgeInv, NEW d \in Conns, up'[d] = up[d],
           ~up[d] => inbox'[d] = <<>> /\ ports'[d] = ports[d] /\ \A j \in jobs' : j.conn # d
    PROVE  Gone(d)'
    BY DEF EdgeInv, Gone, NoPorts, NoPort

(* A message that was there is no message of a new kind for anyone.         *)
LEMMA DueKept ==
    ASSUME EdgeInv, NEW c \in Conns, NEW x \in Due(c)
    PROVE  x \in Messages /\ x.ref \in Refs /\ Rule(c, x)
    BY Types, DueTyped DEF EdgeInv, Messages

LEMMA ClientOpened ==
    ASSUME EdgeInv, NEW c \in Conns, NEW r \in Refs, NEW m \in ports[c][r].clients
    PROVE  /\ m \in Refs /\ attempt[m].from \in Conns /\ attempt[m].to \in Conns
           /\ Belongs(c, r, m) /\ Alone(c, r, m) /\ Watched(c, m) /\ Linked(c, r, m)
<1>1. m \in Refs
    BY Types
<1>2. Belongs(c, r, m) /\ Alone(c, r, m) /\ Watched(c, m) /\ Linked(c, r, m)
    BY DEF EdgeInv, Client
<1>3. attempt[m].from \in Conns \/ attempt[m].to \in Conns
    BY <1>2 DEF Belongs
<1> QED
    BY <1>1, <1>2, <1>3, Opened

LEMMA HandlePutStep ==
    ASSUME EdgeInv, TablesOK', NEW c \in Conns, NEW r \in Refs, HandlePut(c, r)
    PROVE  EdgeInv'
<1> DEFINE h == Head(inbox[c])
           pc == "respond"
           op == "put"
           p == [state |-> "open", clients |-> {r}]
<1>1. /\ Handles(c, op, r) /\ Drop(c) /\ Goes(r, pc) /\ ports' = [ports EXCEPT ![c][r] = p]
      /\ UNCHANGED <<up, monitors, jobs, device, losses>>
    BY DEF HandlePut
<1>2. p.state = "open" /\ p.clients = {r} /\ p # NoPort
    BY DEF NoPort
<1> HIDE DEF p
<1>3. h.op = op /\ h.ref = r /\ Rule(c, h) /\ up[c]
    BY <1>1, Headed
<1>4. /\ inbox' \in [Conns -> Seq(Messages)]
      /\ Box(c) = Box(c)' \cup {h}
      /\ \A d \in Conns \ {c} : Box(d)' = Box(d)
      /\ \A d \in Conns : Single(inbox'[d]) /\ (~up[d] => inbox'[d] = <<>>)
    BY <1>1, Dropped
<1> HIDE DEF h
<1>5. attempt[r].from = c /\ attempt[r].pc \in {"put", "respond", "done"}
    BY <1>3 DEF Rule
<1>6. attempt[r].to # c
    BY <1>5, Opened
<1>7. ports'[c][r] = p /\ OnlyPort(c, r) /\ \A d \in Conns \ {c} : ports'[d] = ports[d]
    BY <1>1, PortAt
<1>8. /\ attempt'[r].pc = pc /\ attempt'[r].from = attempt[r].from /\ attempt'[r].to = attempt[r].to
      /\ attempt'[r].cref = attempt[r].cref
      /\ \A q \in Refs \ {r} : attempt'[q] = attempt[q]
    BY <1>1, GoesTo
<1>9. Held'
    BY <1>1, <1>4 DEF EdgeInv, Held, Messages, Jobs, Ops
<1>10. \A d \in Conns : Due(d)' \subseteq Due(d) /\ Box(d)' \subseteq Box(d)
    BY <1>1, <1>4, CallsSame DEF Due
<1>11. \A d \in Conns : \A x \in Box(d) : x.op \in {"DOWN", "close_cast"} => x \in Box(d)'
    BY <1>3, <1>4
<1>12. Follows
    <2>1. \A q \in Refs : Arrived(q) => attempt'[q].pc \notin {"idle", "monitor", "call"}
        BY <1>8 DEF Arrived
    <2>2. \A q \in Refs : attempt'[q].from = attempt[q].from /\ attempt'[q].to = attempt[q].to
        BY <1>8
    <2> QED
        BY <1>1, <1>10, <2>1, <2>2, FollowsIf
<1>13. ASSUME NEW q \in Refs PROVE Stage(q)'
    <2>1. CASE q = r
        <3>1. StageStart(r, pc)
            BY <1>5 DEF StageStart, EdgeInv, Stage
        <3> QED
            BY <1>1, <1>12, <2>1, <3>1, GoesStage
    <2>2. CASE q # r
        <3>1. Stage(q) /\ attempt'[q] = attempt[q]
            BY <1>8, <2>2 DEF EdgeInv
        <3> QED
            BY <1>1, <1>12, <3>1, StageKept DEF Stage
    <2> QED
        BY <2>1, <2>2
<1>14. ASSUME NEW d \in Conns PROVE Gone(d)' /\ Single(inbox[d])'
    <2>1. ~up[d] => \A j \in jobs' : j.conn # d
        BY <1>1 DEF EdgeInv, Gone
    <2>2. Gone(d)'
        BY <1>1, <1>3, <1>4, <1>7, <2>1, GoneKept
    <2> QED
        BY <1>4, <2>2 DEF Single
<1>15. ASSUME NEW d \in Conns, NEW x \in Due(d)' PROVE Rule(d, x)'
    <2>1. x \in Messages /\ x.ref \in Refs /\ Rule(d, x)
        BY <1>10, DueKept
    <2>2. /\ x.op = "monitor" => attempt'[x.ref].pc = "monitor"
          /\ x.op = "portopen" => attempt'[x.ref].pc \in {"wait", "late", "dead"}
          /\ x.op = "put" => attempt'[x.ref].pc \in {"put", "respond", "done"}
        BY <1>5, <1>8, <2>1 DEF Rule
    <2>3. ASSUME x.op = "close_call", NEW m \in x.clients, NEW q \in Refs, m \in ports'[d][q].clients
          PROVE  m \in ports[d][q].clients \/ q = x.ref
        <3>1. CASE d = c /\ q = r
            <4>1. m = r
                BY <1>2, <1>7, <2>3, <3>1
            <4> QED
                BY <1>6, <2>1, <2>3, <3>1, <4>1 DEF Rule
        <3>2. CASE d # c \/ q # r
            BY <1>7, <2>3, <3>2 DEF OnlyPort
        <3> QED
            BY <3>1, <3>2
    <2>4. \A e \in Conns : e = attempt[x.ref].to /\ ports[e][x.ref] = NoPort => ports'[e][x.ref] = NoPort
        BY <1>6, <1>7, <2>1 DEF OnlyPort
    <2> QED
        BY <1>12, <2>1, <2>2, <2>3, <2>4, RuleKept
<1>16. ASSUME NEW d \in Conns, NEW q \in Refs PROVE PortShape(d, q)'
    <2>1. CASE d = c /\ q = r
        BY <1>2, <1>7, <2>1 DEF PortShape
    <2>2. CASE d # c \/ q # r
        <3>1. PortShape(d, q) /\ ports'[d][q] = ports[d][q]
            BY <1>7, <2>2 DEF EdgeInv, OnlyPort
        <3>2. ports[d][q].state = "pre_open" => attempt'[q].pc \in {"wait", "late", "dead", "failed"}
            BY <1>5, <1>8, <3>1 DEF PortShape
        <3> QED
            BY <1>12, <3>1, <3>2, PortShapeKept
    <2> QED
        BY <2>1, <2>2
<1>17. ASSUME NEW d \in Conns, NEW q \in Refs PROVE Answers(d, q)'
    <2>1. ports'[d][q].state = "pre_open" /\ attempt'[q].pc = "failed" =>
              ports[d][q].state = "pre_open" /\ attempt[q].pc = "failed"
        BY <1>2, <1>7, <1>8 DEF OnlyPort
    <2> QED
        BY <1>1, <1>10, <1>12, <2>1, AnswersKept
<1>18. ASSUME NEW d \in Conns, NEW q \in Refs, NEW m \in ports'[d][q].clients PROVE Client(d, q, m)'
    <2>1. \A e \in Refs : r \in ports[c][e].clients => e = r
        BY <1>5 DEF EdgeInv, Client, Belongs
    <2>2. CASE d = c /\ q = r
        <3>1. m = r
            BY <1>2, <1>7, <2>2
        <3>2. Alone(c, r, r)'
            BY <1>7, <2>1 DEF Alone, OnlyPort
        <3>3. attempt'[r].from = c
            BY <1>5, <1>8
        <3> QED
            BY <2>2, <3>1, <3>2, <3>3 DEF Client, Belongs, Watched, Linked
    <2>3. CASE d # c \/ q # r
        <3>1. m \in ports[d][q].clients /\ m \in Refs
            BY <1>7, <2>3, Types DEF OnlyPort
        <3>2. Alone(d, q, m)'
            <4>1. \A e \in Refs : m \in ports'[d][e].clients => m \in ports[d][e].clients \/ e = q
                BY <1>2, <1>7, <2>1, <3>1 DEF OnlyPort
            <4> QED
                BY <3>1, <4>1, AloneKept
        <3>3. Belongs(d, q, m)'
            BY <1>8, <1>12, <3>1, BelongsKept
        <3>4. Watched(d, m)'
            BY <1>1, <1>11, <1>12, <3>1, WatchedKept DEF Msg
        <3>5. Linked(d, q, m)'
            <4>1. CASE m = r
                <5>1. attempt'[m].from = c /\ attempt'[m].pc = "respond" /\ ports'[c][m] # NoPort
                    BY <1>2, <1>5, <1>7, <1>8, <4>1
                <5>2. attempt'[m].pc # "failed" /\ ports'[attempt'[m].from][m] # NoPort
                    BY <5>1
                <5> QED
                    BY <5>2 DEF Linked, NoPort
            <4>2. CASE m # r
                <5>1. attempt[m].from \in Conns /\ attempt'[m] = attempt[m]
                    BY <1>8, <3>1, <4>2, ClientOpened
                <5>2. ports'[d][q] = ports[d][q] /\ ports'[attempt[m].from][m] = ports[attempt[m].from][m]
                    BY <1>7, <2>3, <3>1, <4>2, <5>1 DEF OnlyPort
                <5>3. Msg("close_cast", m) \in Box(d) => Msg("close_cast", m) \in Box(d)'
                    BY <1>11 DEF Msg
                <5> QED
                    BY <1>12, <3>1, <5>1, <5>2, <5>3, LinkedKept
            <4> QED
                BY <4>1, <4>2
        <3> QED
            BY <3>2, <3>3, <3>4, <3>5 DEF Client
    <2> QED
        BY <2>2, <2>3
<1> QED
    BY <1>9, <1>13, <1>14, <1>15, <1>16, <1>17, <1>18 DEF EdgeInv

LEMMA RepliedTo ==
    ASSUME EdgeInv, NEW r \in Refs, NEW x \in Refs, Replied(r, x)
    PROVE  /\ \A q \in Refs \ {r} : attempt'[q] = attempt[q]
           /\ attempt'[r].from = attempt[r].from /\ attempt'[r].to = attempt[r].to
           /\ attempt'[r].rights = attempt[r].rights
           /\ \/ attempt[r].pc = "wait" /\ attempt'[r].pc = "replied" /\ attempt'[r].cref = x
              \/ attempt[r].pc # "wait" /\ attempt'[r] = attempt[r]
<1>1. CASE At(r, "wait")
    <2> DEFINE mid == [attempt EXCEPT ![r].pc = "replied"]
               yes == "replied"
    <2>1. attempt' = [attempt EXCEPT ![r].pc = yes, ![r].cref = x]
        BY <1>1 DEF Replied
    <2>2. attempt' = [mid EXCEPT ![r].cref = x]
        BY <2>1
    <2>3. /\ mid \in [Refs -> Attempt] /\ mid[r].pc = "replied"
          /\ mid[r].from = attempt[r].from /\ mid[r].to = attempt[r].to
          /\ mid[r].rights = attempt[r].rights
          /\ \A q \in Refs \ {r} : mid[q] = attempt[q]
        BY Types DEF Attempt, Progress
    <2> HIDE DEF mid, yes
    <2>4. /\ attempt'[r].pc = mid[r].pc /\ attempt'[r].cref = x
          /\ attempt'[r].from = mid[r].from /\ attempt'[r].to = mid[r].to
          /\ attempt'[r].rights = mid[r].rights
          /\ \A q \in Refs \ {r} : attempt'[q] = mid[q]
        BY <2>2, <2>3 DEF Attempt
    <2> QED
        BY <1>1, <2>3, <2>4 DEF At
<1>2. CASE ~At(r, "wait")
    BY <1>2 DEF Replied, At
<1> QED
    BY <1>1, <1>2

(* No open request of an attempt that arrived is on its way.                *)
LEMMA ArrivedGone ==
    ASSUME EdgeInv, NEW c \in Conns, NEW x \in Due(c), Arrived(x.ref)
    PROVE  x.op # "portopen"
<1> SUFFICES ASSUME x.op = "portopen" PROVE FALSE
    OBVIOUS
<1>1. attempt[x.ref].to = c
    BY DueKept DEF Rule
<1>2. x \notin Calls(c)
    BY Types DEF Held, Calls, Jobs
<1>3. x \in Box(c)
    BY <1>2 DEF Due
<1> QED
    BY <1>1, <1>3 DEF Arrived, Has

LEMMA RepliedStage ==
    ASSUME EdgeInv, Follows, NEW r \in Refs, NEW x \in Refs, Replied(r, x), UNCHANGED up,
           Arrived(r)', attempt[x].to = attempt[r].to
    PROVE  Stage(r)'
<1> DEFINE a == attempt[r]
<1>1. Stage(r)
    BY DEF EdgeInv
<1>2. /\ attempt'[r].from = a.from /\ attempt'[r].to = a.to /\ attempt'[r].rights = a.rights
      /\ \/ a.pc = "wait" /\ attempt'[r].pc = "replied" /\ attempt'[r].cref = x
         \/ a.pc # "wait" /\ attempt'[r] = a
    BY RepliedTo
<1>3. CASE a.pc # "wait" /\ attempt'[r] = a
    BY <1>1, <1>3, StageKept DEF Stage
<1>4. CASE a.pc = "wait" /\ attempt'[r].pc = "replied" /\ attempt'[r].cref = x
    <2>1. a.from \in Conns /\ a.to \in Conns /\ a.from # a.to /\ a.rights \in Rights[a.from] /\ up[a.from]
        BY <1>1, <1>4 DEF Stage
    <2>2. attempt'[x].to = attempt[x].to
        BY <2>1, FollowsUp
    <2> HIDE DEF a
    <2> QED
        BY <1>2, <1>4, <2>1, <2>2 DEF Stage, a
<1> QED
    BY <1>2, <1>3, <1>4

(* The other attempts of a step go on as they were.                         *)
LEMMA OtherStage ==
    ASSUME EdgeInv, Follows, NEW q \in Refs, attempt'[q] = attempt[q], UNCHANGED up
    PROVE  Stage(q)'
    BY StageKept DEF EdgeInv, Stage

(* The accepted port becomes open, and its opener gets the reply.           *)
LEMMA HandleOkCallStep ==
    ASSUME EdgeInv, TablesOK', NEW c \in Conns, NEW r \in Refs, HandleOkCall(c, r)
    PROVE  EdgeInv'
<1> DEFINE h == Head(inbox[c])
           op == "ok_call"
<1>1. /\ Handles(c, op, r) /\ Drop(c) /\ Replied(r, r)
      /\ ports[c][r].state = "pre_open" /\ ports' = [ports EXCEPT ![c][r].state = "open"]
      /\ UNCHANGED <<up, monitors, jobs, device, losses>>
    BY DEF HandleOkCall
<1>2. h.op = op /\ h.ref = r /\ Rule(c, h) /\ up[c] /\ h \in Due(c)
    BY <1>1, Headed
<1>3. /\ inbox' \in [Conns -> Seq(Messages)]
      /\ Box(c) = Box(c)' \cup {h}
      /\ \A d \in Conns \ {c} : Box(d)' = Box(d)
      /\ \A d \in Conns : Single(inbox'[d]) /\ (~up[d] => inbox'[d] = <<>>)
    BY <1>1, Dropped
<1> HIDE DEF h
<1>4. attempt[r].to = c /\ Arrived(r) /\ attempt[r].from # c
    <2>1. attempt[r].to = c /\ Arrived(r)
        BY <1>2 DEF Rule
    <2> QED
        BY <2>1, Opened
<1>5. /\ ports'[c][r].state = "open" /\ ports'[c][r].clients = {r} /\ ports[c][r].clients = {r}
      /\ OnlyPort(c, r) /\ \A d \in Conns \ {c} : ports'[d] = ports[d]
    <2>1. ports[c][r].clients = {r}
        BY <1>1 DEF EdgeInv, PortShape
    <2> QED
        BY <1>1, <2>1, Types DEF OnlyPort
<1>6. attempt[r].pc \in {"wait", "late", "dead"}
    <2>1. Has(Due(c), {"ok", "ok_call"}, r)
        BY <1>2 DEF Has
    <2>2. attempt[r].pc # "failed"
        BY <1>1, <2>1 DEF EdgeInv, Answers
    <2> QED
        BY <1>1, <2>2 DEF EdgeInv, PortShape
<1>7. /\ \A q \in Refs \ {r} : attempt'[q] = attempt[q]
      /\ attempt'[r].from = attempt[r].from /\ attempt'[r].to = attempt[r].to
      /\ \/ attempt[r].pc = "wait" /\ attempt'[r].pc = "replied" /\ attempt'[r].cref = r
         \/ attempt[r].pc # "wait" /\ attempt'[r] = attempt[r]
    BY <1>1, RepliedTo
<1>8. attempt'[r].pc \in {"replied", "late", "dead"} /\ attempt'[r].cref \in {attempt[r].cref, r}
    BY <1>6, <1>7
<1>9. Held'
    BY <1>1, <1>3 DEF EdgeInv, Held, Messages, Jobs, Ops
<1>10. \A d \in Conns : Due(d)' \subseteq Due(d) /\ Box(d)' \subseteq Box(d)
    BY <1>1, <1>3, CallsSame DEF Due
<1>11. \A d \in Conns : \A x \in Box(d) : x.op \in {"DOWN", "close_cast"} => x \in Box(d)'
    BY <1>2, <1>3
<1>12. Follows
    <2>1. \A q \in Refs : Arrived(q) => attempt'[q].pc \notin {"idle", "monitor", "call"}
        BY <1>7, <1>8 DEF Arrived
    <2>2. \A q \in Refs : attempt'[q].from = attempt[q].from /\ attempt'[q].to = attempt[q].to
        BY <1>7
    <2> QED
        BY <1>1, <1>10, <2>1, <2>2, FollowsIf
<1>13. ASSUME NEW q \in Refs PROVE Stage(q)'
    <2>1. CASE q = r
        <3>1. Arrived(r)'
            BY <1>4, <1>12 DEF Follows
        <3> QED
            BY <1>1, <1>12, <2>1, <3>1, RepliedStage
    <2> QED
        BY <1>1, <1>7, <1>12, <2>1, OtherStage
<1>14. ASSUME NEW d \in Conns PROVE Gone(d)' /\ Single(inbox[d])'
    <2>1. ~up[d] => \A j \in jobs' : j.conn # d
        BY <1>1 DEF EdgeInv, Gone
    <2>2. Gone(d)'
        BY <1>1, <1>2, <1>3, <1>5, <2>1, GoneKept
    <2> QED
        BY <1>3, <2>2 DEF Single
<1>15. \A d \in Conns, q \in Refs :
           /\ ports'[d][q].clients = ports[d][q].clients
           /\ ports'[d][q] = NoPort => ports[d][q] = NoPort
    <2> TAKE d \in Conns, q \in Refs
    <2>1. ports'[c][r] # NoPort
        <3>1. NoPort.clients = {}
            BY DEF NoPort
        <3> QED
            BY <1>5, <3>1
    <2>2. CASE d = c /\ q = r
        BY <1>5, <2>1, <2>2
    <2>3. CASE d # c \/ q # r
        BY <1>5, <2>3 DEF OnlyPort
    <2> QED
        BY <2>2, <2>3
<1>16. ASSUME NEW d \in Conns, NEW x \in Due(d)' PROVE Rule(d, x)'
    <2>1. x \in Messages /\ x.ref \in Refs /\ Rule(d, x)
        BY <1>10, DueKept
    <2>2. /\ x.op = "monitor" => attempt'[x.ref].pc = "monitor"
          /\ x.op = "portopen" => attempt'[x.ref].pc \in {"wait", "late", "dead"}
          /\ x.op = "put" => attempt'[x.ref].pc \in {"put", "respond", "done"}
        <3>1. CASE x.ref = r
            <4>1. x.op # "portopen"
                BY <1>4, <1>10, <2>1, <3>1, ArrivedGone
            <4> QED
                BY <1>6, <2>1, <3>1, <4>1 DEF Rule
        <3>2. CASE x.ref # r
            BY <1>7, <2>1, <3>2 DEF Rule
        <3> QED
            BY <3>1, <3>2
    <2>3. \A e \in Conns : ports[e][x.ref] = NoPort => ports'[e][x.ref] = NoPort
        BY <1>1, <1>5, <2>1 DEF OnlyPort, NoPort
    <2> QED
        BY <1>12, <1>15, <2>1, <2>2, <2>3, RuleKept
<1>17. ASSUME NEW d \in Conns, NEW q \in Refs PROVE PortShape(d, q)'
    <2>1. CASE d = c /\ q = r
        BY <1>5, <2>1 DEF PortShape
    <2>2. CASE d # c \/ q # r
        <3>1. PortShape(d, q) /\ ports'[d][q] = ports[d][q]
            BY <1>5, <2>2 DEF EdgeInv, OnlyPort
        <3>2. ports[d][q].state = "pre_open" => q # r
            BY <1>4, <2>2, <3>1 DEF PortShape
        <3>3. ports[d][q].state = "pre_open" => attempt'[q].pc \in {"wait", "late", "dead", "failed"}
            BY <1>7, <3>1, <3>2 DEF PortShape
        <3> QED
            BY <1>12, <3>1, <3>3, PortShapeKept
    <2> QED
        BY <2>1, <2>2
<1>18. ASSUME NEW d \in Conns, NEW q \in Refs PROVE Answers(d, q)'
    <2>1. ports'[d][q].state = "pre_open" /\ attempt'[q].pc = "failed" =>
              ports[d][q].state = "pre_open" /\ attempt[q].pc = "failed"
        BY <1>5, <1>7, <1>8 DEF OnlyPort
    <2> QED
        BY <1>1, <1>10, <1>12, <2>1, AnswersKept
<1>19. ASSUME NEW d \in Conns, NEW q \in Refs, NEW m \in ports'[d][q].clients PROVE Client(d, q, m)'
    <2>1. m \in ports[d][q].clients
        BY <1>15, <1>19
    <2>2. /\ m \in Refs /\ attempt[m].from \in Conns
          /\ Belongs(d, q, m) /\ Alone(d, q, m)
        BY <2>1, ClientOpened
    <2>3. m = r /\ attempt[m].from # d => d = c /\ q = r
        BY <1>4, <1>5, <2>2 DEF Belongs, Alone
    <2>4. Alone(d, q, m)'
        BY <1>15, <2>1, AloneKept
    <2>5. Belongs(d, q, m)'
        BY <1>7, <1>8, <1>12, <2>1, <2>2, <2>3, BelongsKept
    <2>6. Watched(d, m)'
        BY <1>1, <1>11, <1>12, <2>1, WatchedKept DEF Msg
    <2>7. Linked(d, q, m)'
        <3>1. CASE m = r
            <4>1. attempt'[m].pc \notin {"failed", "respond", "done"}
                BY <1>8, <3>1
            <4> QED
                BY <4>1 DEF Linked
        <3>2. CASE m # r
            <4>1. attempt'[m] = attempt[m]
                BY <1>7, <2>2, <3>2
            <4>2. Msg("close_cast", m) \in Box(d) => Msg("close_cast", m) \in Box(d)'
                BY <1>11 DEF Msg
            <4>3. (d # c \/ q # r) /\ ports'[d][q].state = ports[d][q].state
                BY <1>5, <2>1, <3>2 DEF OnlyPort
            <4>4. ports[attempt[m].from][m] # NoPort => ports'[attempt[m].from][m] # NoPort
                BY <1>15, <2>2
            <4> QED
                BY <1>12, <2>1, <4>1, <4>2, <4>3, <4>4, LinkedKept
        <3> QED
            BY <3>1, <3>2
    <2> QED
        BY <2>4, <2>5, <2>6, <2>7 DEF Client
<1> QED
    BY <1>9, <1>13, <1>14, <1>16, <1>17, <1>18, <1>19 DEF EdgeInv

(* A refused port: its opener gets the error, and a task will close it.     *)
LEMMA HandleErrorStep ==
    ASSUME EdgeInv, TablesOK', NEW c \in Conns, NEW r \in Refs, HandleError(c, r)
    PROVE  EdgeInv'
<1> DEFINE h == Head(inbox[c])
           op == "error"
           y == CloseMsg(r, ports[c][r].clients)
<1>1. /\ Handles(c, op, r) /\ Drop(c) /\ ports[c][r].state = "pre_open" /\ Spawn(c, y)
      /\ IF At(r, "wait") THEN Goes(r, "failed") ELSE UNCHANGED attempt
      /\ UNCHANGED <<up, ports, monitors, device, losses>>
    BY DEF HandleError
<1>2. h.op = op /\ h.ref = r /\ Rule(c, h) /\ up[c] /\ h \in Due(c)
    BY <1>1, Headed
<1>3. /\ inbox' \in [Conns -> Seq(Messages)]
      /\ Box(c) = Box(c)' \cup {h}
      /\ \A d \in Conns \ {c} : Box(d)' = Box(d)
      /\ \A d \in Conns : Single(inbox'[d]) /\ (~up[d] => inbox'[d] = <<>>)
    BY <1>1, Dropped
<1> HIDE DEF h
<1>4. attempt[r].to = c /\ Arrived(r) /\ attempt[r].from # c
    <2>1. attempt[r].to = c /\ Arrived(r)
        BY <1>2 DEF Rule
    <2> QED
        BY <2>1, Opened
<1>5. ports[c][r].clients = {r} /\ attempt[r].pc \in {"wait", "late", "dead", "failed"}
    BY <1>1 DEF EdgeInv, PortShape
<1>6. device[c][r] = "closed" /\ ~Has(Due(c), {"ok", "ok_call"}, r)
    <2>1. Has(Due(c), {"error"}, r)
        BY <1>2 DEF Has
    <2> QED
        BY <2>1 DEF EdgeInv, Answers
<1>7. /\ y \in [op : {"close_call"}, ref : Refs, clients : SUBSET Refs]
      /\ y.op = "close_call" /\ y.ref = r /\ y.clients = {r} /\ Rule(c, y) /\ y \in Messages
    <2>1. Rule(c, y)
        BY <1>5, ClosingClients
    <2> QED
        BY <1>5, <2>1 DEF CloseMsg, Messages, Ops
<1> HIDE DEF y
<1>8. /\ jobs' \subseteq Jobs
      /\ Calls(c)' = Calls(c) \cup {y}
      /\ \A d \in Conns \ {c} : Calls(d)' = Calls(d)
      /\ \A d \in Conns : ~up[d] => \A j \in jobs' : j.conn # d
    BY <1>1, <1>2, <1>7, Spawned
<1>9. /\ \A q \in Refs \ {r} : attempt'[q] = attempt[q]
      /\ attempt'[r].from = attempt[r].from /\ attempt'[r].to = attempt[r].to
      /\ attempt'[r].cref = attempt[r].cref
      /\ attempt'[r].pc \in {"late", "dead", "failed"}
    <2>1. CASE At(r, "wait")
        <3>1. Goes(r, "failed")
            BY <1>1, <2>1
        <3> QED
            BY <3>1, GoesTo
    <2>2. CASE ~At(r, "wait")
        BY <1>1, <1>5, <2>2 DEF At
    <2> QED
        BY <2>1, <2>2
<1>10. Held'
    BY <1>1, <1>3, <1>8 DEF EdgeInv, Held, Messages, Jobs, Ops
<1>11. \A d \in Conns : (\A x \in Due(d)' : x \in Due(d) \/ (d = c /\ x = y)) /\ Box(d)' \subseteq Box(d)
    BY <1>3, <1>8 DEF Due
<1>12. \A d \in Conns : \A x \in Box(d) : x.op \in {"DOWN", "close_cast"} => x \in Box(d)'
    BY <1>2, <1>3
<1>13. Follows
    <2>1. \A q \in Refs : Arrived(q) => attempt'[q].pc \notin {"idle", "monitor", "call"}
        BY <1>9 DEF Arrived
    <2>2. \A q \in Refs : attempt'[q].from = attempt[q].from /\ attempt'[q].to = attempt[q].to
        BY <1>9
    <2> QED
        BY <1>1, <1>11, <2>1, <2>2, FollowsIf
<1>14. ASSUME NEW q \in Refs PROVE Stage(q)'
    <2>1. CASE q = r /\ At(r, "wait")
        <3> DEFINE pc == "failed"
        <3>1. Goes(r, pc) /\ StageStart(r, pc)
            BY <1>1, <2>1 DEF StageStart, At
        <3> QED
            BY <1>1, <1>13, <2>1, <3>1, GoesStage
    <2>2. CASE ~At(r, "wait")
        BY <1>1, <1>13, <2>2, OtherStage
    <2> QED
        BY <1>1, <1>9, <1>13, <2>1, <2>2, OtherStage
<1>15. ASSUME NEW d \in Conns PROVE Gone(d)' /\ Single(inbox[d])'
    <2>1. Gone(d)'
        BY <1>1, <1>3, <1>8, GoneKept
    <2> QED
        BY <1>3, <2>1 DEF Single
<1>16. ASSUME NEW d \in Conns, NEW x \in Due(d)' PROVE Rule(d, x)'
    <2>1. x \in Messages /\ x.ref \in Refs /\ Rule(d, x)
        BY <1>7, <1>11, DueKept
    <2>2. x \in Due(d) \/ x.op = "close_call"
        BY <1>7, <1>11
    <2>3. /\ x.op = "monitor" => attempt'[x.ref].pc = "monitor"
          /\ x.op = "portopen" => attempt'[x.ref].pc \in {"wait", "late", "dead"}
          /\ x.op = "put" => attempt'[x.ref].pc \in {"put", "respond", "done"}
        <3>1. CASE x.ref = r
            <4>1. x.op # "portopen"
                BY <1>4, <2>2, <3>1, ArrivedGone
            <4> QED
                BY <1>5, <2>1, <3>1, <4>1 DEF Rule
        <3>2. CASE x.ref # r
            BY <1>9, <2>1, <3>2 DEF Rule
        <3> QED
            BY <3>1, <3>2
    <2> QED
        BY <1>1, <1>13, <2>1, <2>3, RuleKept
<1>17. ASSUME NEW d \in Conns, NEW q \in Refs PROVE PortShape(d, q)'
    <2>1. PortShape(d, q)
        BY DEF EdgeInv
    <2>2. ports[d][q].state = "pre_open" => attempt'[q].pc \in {"wait", "late", "dead", "failed"}
        BY <1>9, <2>1 DEF PortShape
    <2> QED
        BY <1>1, <1>13, <2>2, PortShapeKept
<1>18. ASSUME NEW d \in Conns, NEW q \in Refs PROVE Answers(d, q)'
    <2>1. \A x \in Due(d)' : x.op \in {"ok", "ok_call", "error"} => x \in Due(d)
        BY <1>7, <1>11
    <2>2. CASE d = c /\ q = r
        <3>1. ~Has(Due(c)', {"ok", "ok_call"}, r)
            BY <1>6, <2>1, <2>2 DEF Has
        <3>2. device'[c][r] = "closed"
            BY <1>1, <1>6
        <3> QED
            BY <2>2, <3>1, <3>2 DEF Answers, Has
    <2>3. CASE d # c \/ q # r
        <3>1. ports[d][q].state = "pre_open" => q # r
            BY <1>4, <2>3 DEF EdgeInv, PortShape
        <3> QED
            BY <1>1, <1>9, <1>13, <2>1, <3>1, AnswersKept
    <2> QED
        BY <2>2, <2>3
<1>19. ASSUME NEW d \in Conns, NEW q \in Refs, NEW m \in ports'[d][q].clients PROVE Client(d, q, m)'
    <2>1. m \in ports[d][q].clients
        BY <1>1, <1>19
    <2>2. /\ m \in Refs /\ attempt[m].from \in Conns
          /\ Belongs(d, q, m) /\ Alone(d, q, m)
        BY <2>1, ClientOpened
    <2>3. m = r /\ attempt[m].from # d => d = c /\ q = r
        BY <1>4, <1>5, <2>2 DEF Belongs, Alone
    <2>4. Alone(d, q, m)'
        BY <1>1, <2>1, AloneKept
    <2>5. Belongs(d, q, m)'
        BY <1>9, <1>13, <2>1, <2>2, BelongsKept
    <2>6. Watched(d, m)'
        BY <1>1, <1>12, <1>13, <2>1, WatchedKept DEF Msg
    <2>7. Linked(d, q, m)'
        <3>1. CASE m = r
            <4>1. attempt'[m].pc \notin {"respond", "done"} /\ attempt'[m].from = attempt[m].from
                BY <1>9, <3>1
            <4>2. attempt[m].from # d => ports'[d][q].state = "pre_open"
                BY <1>1, <2>3, <3>1
            <4> QED
                BY <4>1, <4>2 DEF Linked
        <3>2. CASE m # r
            <4>1. attempt'[m] = attempt[m]
                BY <1>9, <2>2, <3>2
            <4>2. Msg("close_cast", m) \in Box(d) => Msg("close_cast", m) \in Box(d)'
                BY <1>12 DEF Msg
            <4> QED
                BY <1>1, <1>13, <2>1, <4>1, <4>2, LinkedKept
        <3> QED
            BY <3>1, <3>2
    <2> QED
        BY <2>4, <2>5, <2>6, <2>7 DEF Client
<1> QED
    BY <1>10, <1>14, <1>15, <1>16, <1>17, <1>18, <1>19 DEF EdgeInv

(* A client r joins port y of c, which r opened or which was there.          *)
Joins(c, r, y) ==
    /\ OnlyPort(c, y) /\ \A d \in Conns \ {c} : ports'[d] = ports[d]
    /\ ports'[c][y].clients = ports[c][y].clients \cup {r}
    /\ ports'[c][y].state = ports[c][y].state \/ ports[c][y].clients = {}
    /\ ports'[c][y].state = "pre_open" => y = r
    /\ Arrived(y) => ports[c][y] # NoPort
    /\ attempt[y].to = c /\ (y = r \/ Arrived(y))
    /\ \A q \in Refs \ {r} : attempt'[q] = attempt[q]
    /\ attempt'[r].from = attempt[r].from /\ attempt'[r].to = attempt[r].to
    /\ attempt'[r].pc \in {"wait", "replied", "late", "dead"}
    /\ attempt'[r].cref \in {attempt[r].cref, y}

LEMMA JoinStep ==
    ASSUME EdgeInv, TablesOK', NEW c \in Conns, NEW r \in Refs, NEW y \in Refs,
           HandlePortopen(c, r), Joins(c, r, y), UNCHANGED attempt \/ Replied(r, y),
           device' \in [Conns -> [Refs -> {"none", "asked", "open", "closed"}]],
           PortShape(c, y)', Follows => Answers(c, r)',
           \A d \in Conns, q \in Refs : d # c \/ q # r => device'[d][q] = device[d][q]
    PROVE  EdgeInv'
<1> DEFINE h == Head(inbox[c])
           op == "portopen"
           down == Msg("DOWN", r)
<1>1. /\ Handles(c, op, r) /\ Monitored(c, r)
      /\ UNCHANGED <<up, jobs, losses>>
    BY DEF HandlePortopen
<1>2. h.op = op /\ h.ref = r /\ Rule(c, h) /\ up[c] /\ h \in Box(c)
    BY <1>1, Headed
<1> HIDE DEF h
<1>3. attempt[r].to = c /\ attempt[r].pc \in {"wait", "late", "dead"} /\ ~Arrived(r)
    BY <1>2 DEF Rule, Arrived, Has
<1>4. PICK f \in Conns : f = attempt[r].from /\ f # c
    BY <1>3, Opened
<1>5. /\ \A d \in Conns, q \in Refs : r \in ports[d][q].clients => d = f
      /\ ports[c][r].clients = {}
      /\ \A d \in Conns : \A x \in Due(d) : x.ref = r => x.op \notin {"ok", "ok_call", "error"}
      /\ attempt[r].cref = NoRef
    BY <1>3, <1>4, NotArrived
<1>6. Monitoring(c, op, r) /\ Peer(c, r) = f
    BY <1>1, <1>4, MonitoredStep DEF Peer, IsOpener
<1>7. down.op = "DOWN" /\ down.ref = r /\ down \in Messages
    BY DEF Msg, Messages, Ops
<1>8. \A d \in Conns :
          /\ \A x \in Box(d)' : x \in Box(d) \/ (d = c /\ x = down /\ ~up[f])
          /\ \A x \in Box(d) : x.op \in {"DOWN", "close_cast"} => x \in Box(d)'
    BY <1>6 DEF Monitoring
<1> HIDE DEF down
<1>9. \A d \in Conns : Calls(d)' = Calls(d)
    BY <1>1, CallsSame
<1>10. \A d \in Conns : \A x \in Due(d)' : x \in Due(d) \/ (d = c /\ x = down /\ ~up[f])
    BY <1>8, <1>9 DEF Due
<1>11. /\ OnlyPort(c, y) /\ \A d \in Conns \ {c} : ports'[d] = ports[d]
       /\ ports'[c][y].clients = ports[c][y].clients \cup {r}
       /\ ports'[c][y].state = ports[c][y].state \/ ports[c][y].clients = {}
       /\ ports'[c][y].state = "pre_open" => y = r
       /\ Arrived(y) => ports[c][y] # NoPort
    BY DEF Joins
<1>12. /\ attempt[y].to = c /\ (y = r \/ Arrived(y))
       /\ \A q \in Refs \ {r} : attempt'[q] = attempt[q]
       /\ attempt'[r].from = f /\ attempt'[r].to = c
       /\ attempt'[r].pc \in {"wait", "replied", "late", "dead"}
       /\ attempt'[r].cref \in {NoRef, y}
    BY <1>3, <1>4, <1>5 DEF Joins
<1>13. Held'
    BY <1>1, <1>6 DEF EdgeInv, Held, Messages, Jobs, Ops, Monitoring
<1>14. Follows
    <2>1. \A q \in Refs : Arrived(q) => attempt'[q].pc \notin {"idle", "monitor", "call"}
        BY <1>12 DEF Arrived
    <2>2. \A q \in Refs : attempt'[q].from = attempt[q].from /\ attempt'[q].to = attempt[q].to
        BY <1>3, <1>4, <1>12
    <2>3. \A d \in Conns : \A x \in Box(d)' : x.op = "portopen" => x \in Box(d)
        BY <1>7, <1>8
    <2> QED
        BY <1>1, <2>1, <2>2, <2>3, FollowsIf
<1>15. Arrived(r)' /\ Arrived(y)' /\ attempt'[y].to = c
    <2>1. ~Has(Box(c)', {"portopen"}, r)
        BY <1>6 DEF Monitoring
    <2>2. Box(attempt[r].to)' = Box(c)'
        BY <1>12 DEF Box
    <2>3. Arrived(r)'
        BY <1>12, <2>1, <2>2 DEF Arrived, Has
    <2> QED
        BY <1>12, <1>14, <2>3 DEF Follows
<1>16. ASSUME NEW q \in Refs PROVE Stage(q)'
    <2>1. CASE q = r /\ Replied(r, y)
        BY <1>1, <1>3, <1>12, <1>14, <1>15, <2>1, RepliedStage
    <2>2. CASE UNCHANGED attempt
        BY <1>1, <1>14, <2>2, OtherStage
    <2> QED
        BY <1>1, <1>12, <1>14, <2>1, <2>2, OtherStage
<1>17. ASSUME NEW d \in Conns PROVE Gone(d)' /\ Single(inbox[d])'
    <2>1. Single(inbox'[d]) /\ (~up[d] => inbox'[d] = <<>>)
        BY <1>6 DEF Monitoring
    <2>2. ~up[d] => \A j \in jobs' : j.conn # d
        BY <1>1 DEF EdgeInv, Gone
    <2>3. Gone(d)'
        BY <1>1, <1>2, <1>11, <2>1, <2>2, GoneKept
    <2> QED
        BY <2>1, <2>3 DEF Single
<1>18. ASSUME NEW d \in Conns, NEW x \in Due(d)' PROVE Rule(d, x)'
    <2>1. CASE x \in Due(d)
        <3>1. x \in Messages /\ x.ref \in Refs /\ Rule(d, x)
            BY <2>1, DueKept
        <3>2. x.ref = r => x.op # "portopen"
            <4> SUFFICES ASSUME x.ref = r, x.op = "portopen" PROVE FALSE
                OBVIOUS
            <4>1. d = c
                BY <1>3, <3>1 DEF Rule
            <4>2. x \notin Calls(c)
                BY Types DEF Held, Calls, Jobs
            <4>3. x \in Box(c)'
                BY <1>9, <1>18, <4>1, <4>2 DEF Due
            <4> QED
                BY <1>6, <4>3 DEF Monitoring, Has
        <3>3. /\ x.op = "monitor" => attempt'[x.ref].pc = "monitor"
              /\ x.op = "portopen" => attempt'[x.ref].pc \in {"wait", "late", "dead"}
              /\ x.op = "put" => attempt'[x.ref].pc \in {"put", "respond", "done"}
            BY <1>3, <1>12, <3>1, <3>2 DEF Rule
        <3>4. ASSUME x.op = "close_call", NEW m \in x.clients, NEW q \in Refs, m \in ports'[d][q].clients
              PROVE  m \in ports[d][q].clients \/ q = x.ref
            <4>1. CASE d = c /\ q = y /\ m = r
                <5>1. attempt[x.ref].from # c \/ x.ref # r
                    BY <1>4
                <5> QED
                    BY <1>3, <3>1, <3>4, <4>1, <5>1 DEF Rule
            <4>2. CASE ~(d = c /\ q = y /\ m = r)
                BY <1>11, <3>4, <4>2 DEF OnlyPort
            <4> QED
                BY <4>1, <4>2
        <3>5. \A e \in Conns : Arrived(x.ref) /\ ports[e][x.ref] = NoPort => ports'[e][x.ref] = NoPort
            BY <1>11, <3>1 DEF OnlyPort
        <3> QED
            BY <1>14, <3>1, <3>3, <3>4, <3>5, RuleKept
    <2>2. CASE d = c /\ x = down /\ ~up[f]
        <3>1. Peer(c, r)' = f
            BY <1>4, <1>12 DEF Peer, IsOpener
        <3> QED
            BY <1>1, <1>7, <2>2, <3>1 DEF Rule
    <2> QED
        BY <1>10, <2>1, <2>2
<1>19. ASSUME NEW d \in Conns, NEW q \in Refs PROVE PortShape(d, q)'
    <2>2. CASE d # c \/ q # y
        <3>1. PortShape(d, q) /\ ports'[d][q] = ports[d][q]
            BY <1>11, <2>2 DEF EdgeInv, OnlyPort
        <3>2. ports[d][q].state = "pre_open" => q # r
            BY <1>3, <1>5, <3>1 DEF PortShape
        <3>3. ports[d][q].state = "pre_open" => attempt'[q].pc \in {"wait", "late", "dead", "failed"}
            BY <1>12, <3>1, <3>2 DEF PortShape
        <3> QED
            BY <1>14, <3>1, <3>3, PortShapeKept
    <2> QED
        BY <2>2
<1>20. ASSUME NEW d \in Conns, NEW q \in Refs PROVE Answers(d, q)'
    <2>1. CASE d # c \/ q # r
        <3>1. \A x \in Due(d)' : x.op \in {"ok", "ok_call", "error"} => x \in Due(d)
            BY <1>7, <1>10
        <3>2. ports'[d][q].state = "pre_open" /\ attempt'[q].pc = "failed" =>
                  ports[d][q].state = "pre_open" /\ attempt[q].pc = "failed"
            <4>1. CASE q = r
                BY <1>12, <4>1
            <4>2. CASE q # r
                BY <1>11, <1>12, <4>2 DEF OnlyPort
            <4> QED
                BY <4>1, <4>2
        <3> QED
            BY <1>14, <2>1, <3>1, <3>2, AnswersKept
    <2> QED
        BY <1>14, <2>1
<1>21. ASSUME NEW d \in Conns, NEW q \in Refs, NEW m \in ports'[d][q].clients PROVE Client(d, q, m)'
    <2>0. \A e \in Conns, p \in Refs, n \in Refs :
              n \in ports'[e][p].clients => n \in ports[e][p].clients \/ (e = c /\ p = y /\ n = r)
        BY <1>11 DEF OnlyPort
    <2>1. CASE d = c /\ q = y /\ m = r
        <3>1. Alone(c, y, r)'
            BY <1>4, <1>5, <2>0 DEF Alone
        <3>2. Belongs(c, y, r)'
            BY <1>4, <1>12, <1>15 DEF Belongs
        <3>3. Watched(c, r)'
            BY <1>1, <1>6, <1>12 DEF Watched, Monitoring, Msg
        <3>4. Linked(c, y, r)'
            BY <1>12 DEF Linked
        <3> QED
            BY <2>1, <3>1, <3>2, <3>3, <3>4 DEF Client
    <2>2. CASE m \in ports[d][q].clients
        <3>1. /\ m \in Refs /\ attempt[m].from \in Conns
              /\ Belongs(d, q, m) /\ Alone(d, q, m)
            BY <2>2, ClientOpened
        <3>2. m = r => d = f /\ d # c
            BY <1>4, <1>5, <2>2
        <3>3. Alone(d, q, m)'
            BY <2>0, <2>2, <3>1, <3>2, AloneKept
        <3>4. Belongs(d, q, m)'
            BY <1>4, <1>12, <1>14, <2>2, <3>1, <3>2, BelongsKept
        <3>5. Watched(d, m)'
            <4>1. monitors[d] \subseteq monitors'[d]
                BY <1>6 DEF Monitoring
            <4> QED
                BY <1>1, <1>8, <1>14, <2>2, <4>1, WatchedKept DEF Msg
        <3>6. Linked(d, q, m)'
            <4>1. CASE m = r
                <5>1. attempt'[m].from = d
                    BY <1>12, <3>2, <4>1
                <5> QED
                    BY <5>1 DEF Linked
            <4>2. CASE m # r
                <5>1. attempt'[m] = attempt[m]
                    BY <1>12, <3>1, <4>2
                <5>2. Msg("close_cast", m) \in Box(d) => Msg("close_cast", m) \in Box(d)'
                    BY <1>8 DEF Msg
                <5>3. ports'[d][q].state = ports[d][q].state
                    BY <1>11, <2>2 DEF OnlyPort
                <5>4. ports[attempt[m].from][m] # NoPort => ports'[attempt[m].from][m] # NoPort
                    <6>1. ports'[c][y] # NoPort
                        <7>1. NoPort.clients = {}
                            BY DEF NoPort
                        <7> QED
                            BY <1>11, <7>1
                    <6> QED
                        BY <1>11, <3>1, <6>1 DEF OnlyPort
                <5> QED
                    BY <1>14, <2>2, <5>1, <5>2, <5>3, <5>4, LinkedKept
            <4> QED
                BY <4>1, <4>2
        <3> QED
            BY <3>3, <3>4, <3>5, <3>6 DEF Client
    <2>3. m \in Refs
        <3>1. PortsOK'
            BY DEF TablesOK
        <3> QED
            BY <3>1 DEF PortsOK
    <2> QED
        BY <2>0, <2>1, <2>2, <2>3
<1> QED
    BY <1>13, <1>16, <1>17, <1>18, <1>19, <1>20, <1>21 DEF EdgeInv

(* A port that is not shared yet: the device is asked.                      *)
LEMMA AskStep ==
    ASSUME EdgeInv, TablesOK', NEW c \in Conns, NEW r \in Refs,
           HandlePortopen(c, r), SharedPorts(c, r) = {}
    PROVE  EdgeInv'
<1> DEFINE op == "portopen"
           p == [state |-> "pre_open", clients |-> {r}]
           asked == "asked"
<1>1. /\ Handles(c, op, r) /\ Monitored(c, r)
      /\ ports' = [ports EXCEPT ![c][r] = p]
      /\ device' = [device EXCEPT ![c][r] = asked]
      /\ UNCHANGED <<up, jobs, attempt>>
    BY DEF HandlePortopen
<1>2. p.state = "pre_open" /\ p.clients = {r}
    OBVIOUS
<1> HIDE DEF p
<1>3. Rule(c, Head(inbox[c])) /\ Head(inbox[c]).op = op /\ Head(inbox[c]).ref = r
      /\ Head(inbox[c]) \in Box(c)
    BY <1>1, Headed
<1>4. attempt[r].to = c /\ attempt[r].pc \in {"wait", "late", "dead"} /\ ~Arrived(r)
    BY <1>3 DEF Rule, Arrived, Has
<1>5. /\ ports[c][r].clients = {} /\ attempt[r].cref = NoRef
      /\ \A x \in Due(c) : x.ref = r => x.op \notin {"ok", "ok_call", "error"}
    BY <1>4, NotArrived
<1>6. Monitoring(c, op, r)
    BY <1>1, MonitoredStep
<1>7. ports'[c][r] = p /\ OnlyPort(c, r) /\ \A d \in Conns \ {c} : ports'[d] = ports[d]
    BY <1>1, PortAt
<1>8. Joins(c, r, r)
    BY <1>1, <1>2, <1>4, <1>5, <1>7 DEF Joins
<1>9. PortShape(c, r)'
    BY <1>1, <1>2, <1>4, <1>7 DEF PortShape
<1>10. /\ device' \in [Conns -> [Refs -> {"none", "asked", "open", "closed"}]]
       /\ device'[c][r] = "asked"
       /\ \A d \in Conns, q \in Refs : d # c \/ q # r => device'[d][q] = device[d][q]
    BY <1>1 DEF EdgeInv, Held
<1>11. \A x \in Due(c)' : x.ref = r => x.op \notin {"ok", "ok_call", "error"}
    <2>1. Calls(c)' = Calls(c)
        BY <1>1, CallsSame
    <2>2. \A x \in Box(c)' : x \in Box(c) \/ x.op = "DOWN"
        BY <1>6 DEF Monitoring, Msg
    <2> QED
        BY <1>5, <2>1, <2>2 DEF Due
<1>12. attempt'[r].to = c /\ Arrived(r)'
    <2>1. ~Has(Box(c)', {"portopen"}, r)
        BY <1>6 DEF Monitoring
    <2>2. Box(attempt[r].to)' = Box(c)'
        BY <1>1, <1>4 DEF Box
    <2> QED
        BY <1>1, <1>4, <2>1, <2>2 DEF Arrived, Has
<1>13. Answers(c, r)'
    <2>1. ~Has(Due(c)', {"ok", "ok_call", "error"}, r) /\ ~Has(Due(c)', {"error"}, r)
        BY <1>11 DEF Has
    <2>2. attempt'[r].pc # "failed"
        BY <1>1, <1>4
    <2> QED
        BY <1>10, <1>12, <2>1, <2>2 DEF Answers, Has
<1> QED
    BY <1>1, <1>8, <1>9, <1>10, <1>13, JoinStep

(* A shared port that is open: the reply is the port that was joined.       *)
LEMMA ShareStep ==
    ASSUME EdgeInv, TablesOK', NEW c \in Conns, NEW r \in Refs, HandlePortopen(c, r),
           NEW x \in SharedPorts(c, r), ports' = [ports EXCEPT ![c][x].clients = @ \cup {r}],
           Replied(r, x), UNCHANGED device
    PROVE  EdgeInv'
<1> DEFINE op == "portopen"
           S == ports[c][x].clients \cup {r}
           p == [ports[c][x] EXCEPT !.clients = S]
<1>1. /\ Handles(c, op, r) /\ Monitored(c, r)
      /\ UNCHANGED <<up, jobs>>
    BY DEF HandlePortopen
<1>2. Rule(c, Head(inbox[c])) /\ Head(inbox[c]).op = op /\ Head(inbox[c]).ref = r
      /\ Head(inbox[c]) \in Box(c)
    BY <1>1, Headed
<1>3. attempt[r].to = c /\ attempt[r].pc \in {"wait", "late", "dead"} /\ ~Arrived(r)
    BY <1>2 DEF Rule, Arrived, Has
<1>4. /\ ports[c][r].clients = {} /\ attempt[r].cref = NoRef
      /\ \A y \in Due(c) : y.ref = r => y.op \notin {"ok", "ok_call", "error"}
    BY <1>3, NotArrived
<1>5. PICK m \in ports[c][x].clients : attempt[m].from # c
    BY DEF SharedPorts, Shared, IsOpener
<1>6. x \in Refs /\ ports[c][x].state = "open"
    BY DEF SharedPorts
<1>7. attempt[x].to = c /\ Arrived(x) /\ x # r /\ ports[c][x] # NoPort
    <2>1. Belongs(c, x, m)
        BY <1>5, <1>6 DEF EdgeInv, Client
    <2> QED
        BY <1>4, <1>5, <1>6, <2>1 DEF Belongs, NoPort
<1>8. Monitoring(c, op, r)
    BY <1>1, MonitoredStep
<1>9. p.state = "open" /\ p.clients = S /\ S # {}
    BY <1>6, Types
<1>10. ports'[c][x] = p /\ OnlyPort(c, x) /\ \A d \in Conns \ {c} : ports'[d] = ports[d]
    <2>1. ports' = [ports EXCEPT ![c][x] = p]
        OBVIOUS
    <2> HIDE DEF p
    <2> QED
        BY <1>6, <2>1, PortAt
<1> HIDE DEF p
<1>11. /\ \A q \in Refs \ {r} : attempt'[q] = attempt[q]
       /\ attempt'[r].from = attempt[r].from /\ attempt'[r].to = attempt[r].to
       /\ attempt'[r].pc \in {"wait", "replied", "late", "dead"}
       /\ attempt'[r].cref \in {attempt[r].cref, x}
    BY <1>3, <1>6, RepliedTo
<1>12. Joins(c, r, x)
    BY <1>6, <1>7, <1>9, <1>10, <1>11 DEF Joins
<1>13. PortShape(c, x)'
    BY <1>9, <1>10 DEF PortShape
<1>14. ASSUME Follows PROVE Answers(c, r)'
    <2>1. \A y \in Due(c)' : y.op \in {"ok", "ok_call", "error"} => y \in Due(c)
        <3>1. Calls(c)' = Calls(c)
            BY <1>1, CallsSame
        <3>2. \A y \in Box(c)' : y \in Box(c) \/ y.op = "DOWN"
            BY <1>8 DEF Monitoring, Msg
        <3> QED
            BY <3>1, <3>2 DEF Due
    <2>2. attempt'[r].pc # "failed"
        BY <1>11
    <2> QED
        BY <1>14, <2>1, <2>2, AnswersKept
<1>15. device' \in [Conns -> [Refs -> {"none", "asked", "open", "closed"}]]
    BY DEF EdgeInv, Held
<1> QED
    BY <1>6, <1>12, <1>13, <1>14, <1>15, JoinStep

LEMMA HandlePortopenStep ==
    ASSUME EdgeInv, TablesOK', NEW c \in Conns, NEW r \in Refs, HandlePortopen(c, r)
    PROVE  EdgeInv'
<1>1. CASE SharedPorts(c, r) # {}
    <2>1. PICK x \in SharedPorts(c, r) :
              /\ ports' = [ports EXCEPT ![c][x].clients = @ \cup {r}]
              /\ Replied(r, x) /\ UNCHANGED device
        BY <1>1 DEF HandlePortopen
    <2> QED
        BY <2>1, ShareStep
<1> QED
    BY <1>1, AskStep

-----------------------------------------------------------------------------
(* Steps that only remove clients, tell their peers, and end connections.   *)

Forgets ==
    /\ TablesOK' /\ Held'
    /\ \A q \in Refs :
          /\ attempt'[q].from = attempt[q].from /\ attempt'[q].to = attempt[q].to
          /\ attempt'[q].rights = attempt[q].rights /\ attempt'[q].cref = attempt[q].cref
          /\ \/ attempt'[q] = attempt[q]
             \/ attempt'[q].pc = "dead" /\ attempt[q].from \in Conns /\ ~up'[attempt[q].from]
          /\ attempt'[q].pc \in {"monitor", "wait", "replied", "put", "respond", "done", "late"} =>
                up'[attempt[q].from]
    /\ \A d \in Conns :
          /\ up'[d] => up[d]
          /\ Single(inbox'[d])
          /\ ~up'[d] => inbox'[d] = <<>> /\ ports'[d] = NoPorts /\ \A j \in jobs' : j.conn # d
          /\ \A x \in Due(d)' \ Due(d) : x.op \in {"DOWN", "close_cast"}
          /\ \A q \in Refs :
                /\ \/ ports'[d][q] = NoPort
                   \/ ports'[d][q] = ports[d][q]
                   \/ /\ ports'[d][q].clients \subseteq ports[d][q].clients
                      /\ ports'[d][q].clients # {}
                      /\ ports'[d][q].state = ports[d][q].state /\ ports[d][q].state = "open"
                /\ \/ device'[d][q] \in {device[d][q], "closed"}
                   \/ ~up'[d] /\ device'[d][q] # "asked"

(* The other end of client m of d is heard of as before.                    *)
Hears(d, m) ==
    LET f == attempt[m].from IN
    f # d =>
        /\ up'[f] /\ m \in monitors[d] => m \in monitors'[d]
        /\ up[f] /\ ~up'[f] /\ m \in monitors[d] => Msg("DOWN", m) \in Box(d)'
        /\ ~up[f] /\ Msg("DOWN", m) \in Box(d) => Msg("DOWN", m) \in Box(d)'
        /\ attempt[m].pc \in {"respond", "done"} /\ ports[f][m] # NoPort =>
              attempt'[m].pc = "dead" \/ ports'[f][m] # NoPort \/ Msg("close_cast", m) \in Box(d)'
        /\ Msg("close_cast", m) \in Box(d) => Msg("close_cast", m) \in Box(d)'

LEMMA ForgetFollows ==
    ASSUME EdgeInv, Forgets
    PROVE  Follows
<1>1. \A q \in Refs : Arrived(q) => attempt'[q].pc \notin {"idle", "monitor", "call"}
    BY DEF Forgets, Arrived
<1>2. \A d \in Conns : \A x \in Box(d)' : x.op = "portopen" => x \in Box(d)
    <2>1. ASSUME NEW d \in Conns, NEW x \in Box(d)', x.op = "portopen"
          PROVE  x \in Box(d)
        <3>1. x \in Due(d)
            BY <2>1 DEF Forgets, Due
        <3>2. x \notin Calls(d)
            BY <2>1, Types DEF Held, Calls, Jobs
        <3> QED
            BY <3>1, <3>2 DEF Due
    <2> QED
        BY <2>1
<1>3. \A q \in Refs : attempt'[q].from = attempt[q].from /\ attempt'[q].to = attempt[q].to
    BY DEF Forgets
<1>4. \A d \in Conns : up'[d] => up[d]
    BY DEF Forgets
<1> QED
    BY <1>1, <1>2, <1>3, <1>4, FollowsIf

LEMMA ForgetStep ==
    ASSUME EdgeInv, Forgets,
           \A d \in Conns : \A x \in Due(d)' \ Due(d) : Rule(d, x)',
           \A d \in Conns, q \in Refs : \A m \in ports'[d][q].clients : Hears(d, m)
    PROVE  EdgeInv'
<1>1. Follows
    BY ForgetFollows
<1>2. TablesOK' /\ Held'
    BY DEF Forgets
<1>3. ASSUME NEW q \in Refs
      PROVE  /\ attempt'[q].from = attempt[q].from /\ attempt'[q].to = attempt[q].to
             /\ attempt'[q].rights = attempt[q].rights /\ attempt'[q].cref = attempt[q].cref
             /\ \/ attempt'[q] = attempt[q]
                \/ attempt'[q].pc = "dead" /\ attempt[q].from \in Conns /\ ~up'[attempt[q].from]
             /\ attempt'[q].pc \in {"monitor", "wait", "replied", "put", "respond", "done", "late"} =>
                   up'[attempt[q].from]
    BY DEF Forgets
<1>4. ASSUME NEW d \in Conns, NEW q \in Refs
      PROVE  /\ ports'[d][q].clients \subseteq ports[d][q].clients
             /\ ports[d][q] = NoPort => ports'[d][q] = NoPort
    <2>1. PortShape(d, q)
        BY DEF EdgeInv
    <2> QED
        BY <2>1 DEF Forgets, NoPort
<1>5. ASSUME NEW d \in Conns
      PROVE  /\ ~up'[d] => Box(d)' = {} /\ Calls(d)' = {}
             /\ \A x \in Due(d)' : x.op \in {"DOWN", "close_cast"} \/ x \in Due(d)
    <2>1. ~up'[d] => inbox'[d] = <<>> /\ \A j \in jobs' : j.conn # d
        BY DEF Forgets
    <2>2. ~up'[d] => Box(d)' = {} /\ Calls(d)' = {}
        BY <2>1 DEF Box, Calls, ToSet
    <2> QED
        BY <2>2 DEF Forgets
<1>6. ASSUME NEW q \in Refs PROVE Stage(q)'
    <2>1. CASE attempt'[q] = attempt[q]
        BY <1>1, <1>3, <2>1, StageKept
    <2>2. CASE attempt'[q].pc = "dead" /\ attempt[q].from \in Conns /\ ~up'[attempt[q].from]
        <3>1. Stage(q) /\ attempt[q].pc # "idle" /\ attempt[q].cref \in Refs \cup {NoRef}
            BY <2>2, Opened, Types DEF EdgeInv, Attempt
        <3>2. attempt[q].cref # NoRef => attempt'[attempt[q].cref].to = attempt[q].to /\ Arrived(q)'
            BY <1>1, <1>3, <3>1 DEF Stage, Follows
        <3> QED
            BY <1>3, <2>2, <3>1, <3>2 DEF Stage
    <2> QED
        BY <1>3, <2>1, <2>2
<1>7. ASSUME NEW d \in Conns PROVE Gone(d)' /\ Single(inbox[d])'
    BY DEF Forgets, Gone, Single, NoPorts, NoPort
<1>8. ASSUME NEW d \in Conns, NEW x \in Due(d)' PROVE Rule(d, x)'
    <2>1. CASE x \in Due(d)
        <3>1. x \in Messages /\ x.ref \in Refs /\ Rule(d, x)
            BY <2>1, DueKept
        <3>2. up'[d]
            BY <1>5, <1>8 DEF Due
        <3>3. /\ x.op = "monitor" => attempt'[x.ref].pc = "monitor"
              /\ x.op = "portopen" => attempt'[x.ref].pc \in {"wait", "late", "dead"}
              /\ x.op = "put" => attempt'[x.ref].pc \in {"put", "respond", "done"}
            BY <1>3, <3>1, <3>2 DEF Rule
        <3> QED
            BY <1>1, <1>4, <3>1, <3>3, RuleKept
    <2> QED
        BY <2>1
<1>9. ASSUME NEW d \in Conns, NEW q \in Refs PROVE PortShape(d, q)'
    <2>0. PortShape(d, q)
        BY DEF EdgeInv
    <2>1. CASE ports'[d][q] = NoPort
        BY <2>1 DEF PortShape, NoPort
    <2>2. CASE ports'[d][q] = ports[d][q]
        <3>1. ports[d][q].state = "pre_open" => attempt'[q].pc \in {"wait", "late", "dead", "failed"}
            BY <1>3, <2>0 DEF PortShape
        <3> QED
            BY <1>1, <2>2, <3>1, PortShapeKept
    <2>3. CASE ports'[d][q].clients # {} /\ ports'[d][q].state = "open"
        BY <2>3 DEF PortShape
    <2> QED
        BY <2>1, <2>2, <2>3 DEF Forgets
<1>10. ASSUME NEW d \in Conns, NEW q \in Refs PROVE Answers(d, q)'
    <2>1. \A x \in Due(d)' : x.op \in {"ok", "ok_call", "error"} => x \in Due(d)
        BY <1>5
    <2>2. ports'[d][q].state = "pre_open" /\ attempt'[q].pc = "failed" =>
              ports[d][q].state = "pre_open" /\ attempt[q].pc = "failed"
        BY <1>3 DEF Forgets, NoPort
    <2>3. CASE device'[d][q] = device[d][q]
        BY <1>1, <2>1, <2>2, <2>3, AnswersKept
    <2>4. CASE device'[d][q] = "closed"
        <3>1. Answers(d, q)
            BY DEF EdgeInv
        <3> QED
            BY <2>1, <2>2, <2>4, <3>1 DEF Answers, Has
    <2>5. CASE ~up'[d] /\ device'[d][q] # "asked"
        <3>1. Due(d)' = {}
            BY <1>5, <2>5 DEF Due
        <3>2. ports'[d][q].state # "pre_open"
            BY <2>5 DEF Forgets, NoPorts, NoPort
        <3> QED
            BY <2>5, <3>1, <3>2 DEF Answers, Has
    <2> QED
        BY <2>3, <2>4, <2>5 DEF Forgets
<1>11. ASSUME NEW d \in Conns, NEW q \in Refs, NEW m \in ports'[d][q].clients PROVE Client(d, q, m)'
    <2>1. m \in ports[d][q].clients /\ Hears(d, m)
        BY <1>4, <1>11
    <2>2. m \in Refs
        BY <2>1, Types
    <2>3. Alone(d, q, m)'
        BY <1>4, <2>1, AloneKept
    <2>4. Belongs(d, q, m)'
        BY <1>1, <1>3, <2>1, <2>2, BelongsKept
    <2>5. Watched(d, m)'
        BY <1>1, <2>1, WatchedKept DEF Hears
    <2>6. Linked(d, q, m)'
        <3>1. CASE attempt'[m].pc = "dead"
            BY <3>1 DEF Linked
        <3>2. CASE attempt'[m] = attempt[m] /\ attempt[m].pc # "dead"
            <4>1. ports[d][q].state = "pre_open" => ports'[d][q].state = "pre_open"
                BY <1>11 DEF Forgets, NoPort
            <4> QED
                BY <1>1, <2>1, <3>2, <4>1, LinkedKept DEF Hears
        <3> QED
            BY <1>3, <2>2, <3>1, <3>2
    <2> QED
        BY <2>3, <2>4, <2>5, <2>6 DEF Client
<1> QED
    BY <1>2, <1>6, <1>7, <1>8, <1>9, <1>10, <1>11 DEF EdgeInv

(* A server forgets clients of its own.                                     *)
Shrinks(c) ==
    /\ \A d \in Conns \ {c} : ports'[d] = ports[d]
    /\ \A q \in Refs :
          \/ ports'[c][q] = NoPort
          \/ ports'[c][q] = ports[c][q]
          \/ /\ ports'[c][q].clients \subseteq ports[c][q].clients
             /\ ports'[c][q].clients # {}
             /\ ports'[c][q].state = ports[c][q].state /\ ports[c][q].state = "open"
    /\ device' \in [Conns -> [Refs -> {"none", "asked", "open", "closed"}]]
    /\ \A d \in Conns, q \in Refs : device'[d][q] \in {device[d][q], "closed"}

(* It took the message at the head of its mailbox, and flushed those of ms.  *)
Took(c, ms) ==
    /\ inbox' \in [Conns -> Seq(Messages)]
    /\ Single(inbox'[c]) /\ Box(c)' \subseteq Box(c)
    /\ \A x \in Box(c) : x \in Box(c)' \/ x = Head(inbox[c]) \/ (x.op = "DOWN" /\ x.ref \in ms)

LEMMA ServerForgets ==
    ASSUME EdgeInv, TablesOK', NEW c \in Conns, NEW op \in {"close_cast", "DOWN", "close_call"}, NEW y \in Refs,
           NEW ms \in SUBSET Refs, Handles(c, op, y), Took(c, ms),
           \A d \in Conns \ {c} :
               /\ Single(inbox'[d]) /\ (~up[d] => inbox'[d] = <<>>)
               /\ \A x \in Box(d)' : x \in Box(d) \/ x = Msg("close_cast", y),
           monitors' = [monitors EXCEPT ![c] = @ \ ms],
           Shrinks(c), UNCHANGED <<up, jobs, attempt, losses>>
    PROVE  /\ Forgets
           /\ \A d \in Conns : Calls(d)' = Calls(d)
           /\ \A d \in Conns \ {c} : monitors'[d] = monitors[d]
           /\ monitors'[c] = monitors[c] \ ms
<1>1. up[c]
    BY DEF Handles
<1>3. Box(c)' \subseteq Box(c) /\ Single(inbox'[c]) /\ inbox' \in [Conns -> Seq(Messages)]
    BY DEF Took
<1>4. \A d \in Conns : Calls(d)' = Calls(d)
    BY CallsSame
<1>5. /\ monitors' \in [Conns -> SUBSET Refs]
      /\ \A d \in Conns \ {c} : monitors'[d] = monitors[d]
      /\ monitors'[c] = monitors[c] \ ms
    BY DEF EdgeInv, Held
<1>6. Held'
    BY <1>3, <1>5 DEF EdgeInv, Held, Messages, Jobs, Ops, Shrinks
<1>7. ASSUME NEW q \in Refs
      PROVE  attempt[q].pc \in {"monitor", "wait", "replied", "put", "respond", "done", "late"} =>
                 up'[attempt[q].from]
    BY DEF EdgeInv, Stage
<1>8. ASSUME NEW d \in Conns
      PROVE  /\ Single(inbox'[d])
             /\ ~up'[d] => inbox'[d] = <<>> /\ ports'[d] = NoPorts /\ \A j \in jobs' : j.conn # d
             /\ \A x \in Due(d)' \ Due(d) : x.op \in {"DOWN", "close_cast"}
    <2>1. CASE d = c
        BY <1>1, <1>3, <1>4, <2>1 DEF Due
    <2>2. CASE d # c
        <3>1. Gone(d)
            BY DEF EdgeInv
        <3>2. ~up'[d] => inbox'[d] = <<>> /\ ports'[d] = NoPorts /\ \A j \in jobs' : j.conn # d
            BY <2>2, <3>1 DEF Gone, Shrinks
        <3>3. \A x \in Due(d)' \ Due(d) : x.op \in {"DOWN", "close_cast"}
            BY <1>4, <2>2 DEF Due, Msg
        <3> QED
            BY <2>2, <3>2, <3>3
    <2> QED
        BY <2>1, <2>2
<1>9. ASSUME NEW d \in Conns, NEW q \in Refs
      PROVE  /\ \/ ports'[d][q] = NoPort
                \/ ports'[d][q] = ports[d][q]
                \/ /\ ports'[d][q].clients \subseteq ports[d][q].clients
                   /\ ports'[d][q].clients # {}
                   /\ ports'[d][q].state = ports[d][q].state /\ ports[d][q].state = "open"
             /\ device'[d][q] \in {device[d][q], "closed"}
    <2>1. CASE d = c
        BY <2>1 DEF Shrinks
    <2>2. CASE d # c
        BY <2>2 DEF Shrinks
    <2> QED
        BY <2>1, <2>2
<1>10. Forgets
    BY <1>6, <1>7, <1>8, <1>9 DEF Forgets
<1> QED
    BY <1>4, <1>5, <1>10

LEMMA FlushSet ==
    ASSUME EdgeInv, NEW c \in Conns, NEW op, NEW r, Handles(c, op, r), NEW ms \in SUBSET Refs,
           inbox' = [inbox EXCEPT ![c] = Flush(Rest(c), ms)]
    PROVE  /\ Took(c, ms)
           /\ \A d \in Conns \ {c} :
                 Box(d)' = Box(d) /\ Single(inbox'[d]) /\ (~up[d] => inbox'[d] = <<>>)
<1> DEFINE box == Flush(Rest(c), ms)
<1>1. /\ Rest(c) \in Seq(Messages) /\ Single(Rest(c))
      /\ Box(c) = ToSet(Rest(c)) \cup {Head(inbox[c])}
    BY Headed
<1>2. /\ box \in Seq(Messages) /\ Single(box)
      /\ ToSet(box) = {x \in ToSet(Rest(c)) : ~(x.op = "DOWN" /\ x.ref \in ms)}
    BY <1>1, BoxFlush
<1>3. inbox' = [inbox EXCEPT ![c] = box]
    OBVIOUS
<1> HIDE DEF box
<1>4. Held
    BY DEF EdgeInv
<1>5. /\ inbox' \in [Conns -> Seq(Messages)]
      /\ inbox'[c] = box /\ Box(c)' = ToSet(box)
      /\ \A d \in Conns \ {c} : inbox'[d] = inbox[d] /\ Box(d)' = Box(d)
    BY <1>2, <1>3, <1>4, BoxSet
<1>6. Took(c, ms)
    BY <1>1, <1>2, <1>5 DEF Took
<1> QED
    BY <1>5, <1>6 DEF EdgeInv, Gone

LEMMA DropSet ==
    ASSUME EdgeInv, NEW c \in Conns, NEW op, NEW r, Handles(c, op, r), Drop(c), NEW ms
    PROVE  /\ Took(c, ms)
           /\ \A d \in Conns \ {c} :
                 Box(d)' = Box(d) /\ Single(inbox'[d]) /\ (~up[d] => inbox'[d] = <<>>)
    BY Dropped DEF Took

(* One client goes.  When its port at the opener goes with it, the other    *)
(* end is gone or has forgotten the attempt.                                *)
LEMMA RemovedStep ==
    ASSUME EdgeInv, TablesOK', NEW c \in Conns, NEW r \in Refs, NEW m \in ports[c][r].clients,
           NEW op \in {"close_cast", "DOWN"}, NEW y \in Refs, Handles(c, op, y),
           op = "DOWN" => y = m, op = "close_cast" => y = ClientRef(c, m),
           RemoveClient(c, r, m), UNCHANGED <<up, jobs, attempt, losses>>
    PROVE  EdgeInv'
<1> DEFINE h == Head(inbox[c])
           ms == {m}
           S == ports[c][r].clients
           T == S \ ms
           p == [ports[c][r] EXCEPT !.clients = T]
           p2 == IF S = ms THEN NoPort ELSE p
           closed == "closed"
<1>1. m \in Refs /\ Belongs(c, r, m) /\ Alone(c, r, m) /\ attempt[m].from \in Conns
    BY ClientOpened
<1>2. h.op = op /\ h.ref = y /\ Rule(c, h) /\ h \in Box(c)
    BY Headed
<1>3. ms \in SUBSET Refs /\ m \in ms /\ \A n \in ms : n = m
    BY <1>1
<1>4. /\ inbox' = [inbox EXCEPT ![c] = Flush(Rest(c), ms)]
      /\ monitors' = [monitors EXCEPT ![c] = @ \ ms]
    BY DEF RemoveClient
<1>5. ports' = [ports EXCEPT ![c][r] = p2]
    BY DEF RemoveClient
<1>6. ports'[c][r] = p2 /\ OnlyPort(c, r) /\ \A d \in Conns \ {c} : ports'[d] = ports[d]
    <2> HIDE DEF p2
    <2> QED BY <1>5, PortAt
<1>7. S # ms => /\ p2.clients = T /\ p2.state = ports[c][r].state
                /\ T \subseteq S /\ T # {} /\ ports[c][r].state = "open" /\ p2 # NoPort
    <2> SUFFICES ASSUME S # ms
                 PROVE  /\ p2.clients = T /\ p2.state = ports[c][r].state
                        /\ T \subseteq S /\ T # {} /\ ports[c][r].state = "open" /\ p2 # NoPort
        OBVIOUS
    <2>1. T # {} /\ T \subseteq S
        BY <1>3
    <2>2. p2.clients = T /\ p2.state = ports[c][r].state
        BY Types
    <2>3. NoPort.clients = {}
        BY DEF NoPort
    <2>4. ports[c][r].state \in {"none", "pre_open", "open"}
        BY Types
    <2>5. ports[c][r].state # "none" /\ ports[c][r].state # "pre_open"
        BY DEF EdgeInv, PortShape
    <2> HIDE DEF p2, T
    <2> QED
        BY <2>1, <2>2, <2>3, <2>4, <2>5
<1>8. S = ms => p2 = NoPort
    OBVIOUS
<1>9. \A n \in T : n # m
    BY <1>3
<1>10. device' = device \/ device' = [device EXCEPT ![c][r] = closed]
    BY DEF RemoveClient
<1> HIDE DEF h, ms, p2, p, T
<1>11. /\ Took(c, ms)
       /\ \A d \in Conns \ {c} :
             Box(d)' = Box(d) /\ Single(inbox'[d]) /\ (~up[d] => inbox'[d] = <<>>)
    BY <1>3, <1>4, FlushSet
<1>12. Shrinks(c)
    <2>1. ASSUME NEW q \in Refs
          PROVE  \/ ports'[c][q] = NoPort
                 \/ ports'[c][q] = ports[c][q]
                 \/ /\ ports'[c][q].clients \subseteq ports[c][q].clients
                    /\ ports'[c][q].clients # {}
                    /\ ports'[c][q].state = ports[c][q].state /\ ports[c][q].state = "open"
        BY <1>6, <1>7, <1>8 DEF OnlyPort
    <2>2. /\ device' \in [Conns -> [Refs -> {"none", "asked", "open", "closed"}]]
          /\ \A d \in Conns, q \in Refs : device'[d][q] \in {device[d][q], closed}
        <3>1. device \in [Conns -> [Refs -> {"none", "asked", "open", "closed"}]]
            BY DEF EdgeInv, Held
        <3>2. CASE device' = device
            BY <3>1, <3>2
        <3>3. CASE device' = [device EXCEPT ![c][r] = closed]
            BY <3>1, <3>3
        <3> QED
            BY <1>10, <3>2, <3>3
    <2> QED
        BY <1>6, <2>1, <2>2 DEF Shrinks
<1>13. /\ Forgets
       /\ \A d \in Conns : Calls(d)' = Calls(d)
       /\ \A d \in Conns \ {c} : monitors'[d] = monitors[d]
       /\ monitors'[c] = monitors[c] \ ms
    <2>1. op \in {"close_cast", "DOWN", "close_call"}
        OBVIOUS
    <2>2. \A d \in Conns \ {c} :
              /\ Single(inbox'[d]) /\ (~up[d] => inbox'[d] = <<>>)
              /\ \A x \in Box(d)' : x \in Box(d) \/ x = Msg("close_cast", y)
        BY <1>11
    <2> QED
        BY <1>3, <1>4, <1>11, <1>12, <2>1, <2>2, ServerForgets, ZenonT(60)
<1>14. \A d \in Conns : Due(d)' \subseteq Due(d)
    BY <1>11, <1>13 DEF Due, Took
<1>15. ASSUME NEW d \in Conns, NEW q \in Refs, NEW n \in ports'[d][q].clients
       PROVE  n \in ports[d][q].clients /\ (d = c => n # m)
    <2>0. NoPort.clients = {}
        BY DEF NoPort
    <2>1. CASE d = c /\ q = r
        BY <1>6, <1>7, <1>8, <1>9, <1>15, <2>0, <2>1
    <2>2. CASE d # c \/ q # r
        BY <1>1, <1>6, <1>15, <2>2 DEF OnlyPort, Alone
    <2> QED
        BY <2>1, <2>2
<1>16. ASSUME NEW d \in Conns, NEW q \in Refs, NEW n \in ports'[d][q].clients PROVE Hears(d, n)
    <2>1. /\ n \in ports[d][q].clients /\ (d = c => n # m)
          /\ n \in Refs /\ Belongs(d, q, n) /\ attempt[n].from \in Conns /\ attempt[n].to \in Conns
        BY <1>15, <1>16, ClientOpened
    <2>2. CASE d = c
        <3> SUFFICES ASSUME attempt[n].from # c PROVE Hears(c, n)
            BY <2>2 DEF Hears
        <3>1. n \in monitors[c] => n \in monitors'[c]
            BY <1>3, <1>13, <2>1, <2>2
        <3>2. Msg("DOWN", n) \in Box(c) => Msg("DOWN", n) \in Box(c)'
            <4>1. Msg("DOWN", n).op = "DOWN" /\ Msg("DOWN", n).ref = n
                BY DEF Msg
            <4>2. Msg("DOWN", n) # h
                BY <1>2, <2>1, <2>2, <4>1
            <4> QED
                BY <1>3, <1>11, <2>1, <2>2, <4>1, <4>2 DEF Took, h
        <3>3. Msg("close_cast", n) \in Box(c) => Msg("close_cast", n) \in Box(c)'
            <4>1. Msg("close_cast", n).op = "close_cast" /\ Msg("close_cast", n).ref = n
                BY DEF Msg
            <4>2. ASSUME Msg("close_cast", n) = h PROVE FALSE
                <5>1. y = n /\ op = "close_cast" /\ y = ClientRef(c, m)
                    BY <1>2, <4>1, <4>2
                <5>2. attempt[m].from = c /\ attempt[m].cref = n
                    BY <2>1, <2>2, <5>1 DEF ClientRef, IsOpener
                <5>3. attempt[n].to = attempt[m].to
                    BY <1>1, <2>1, <5>2, EdgePortsAssumption DEF EdgeInv, Stage
                <5>4. attempt[m].to # c
                    BY <1>1, <5>2, Opened
                <5> QED
                    BY <2>1, <2>2, <5>3, <5>4 DEF Belongs
            <4> QED
                BY <1>11, <4>1, <4>2 DEF Took, h
        <3>4. ports'[attempt[n].from] = ports[attempt[n].from]
            BY <1>6, <2>1
        <3> QED
            BY <2>2, <3>1, <3>2, <3>3, <3>4 DEF Hears
    <2>3. CASE d # c
        <3>1. Box(d)' = Box(d) /\ monitors'[d] = monitors[d]
            BY <1>11, <1>13, <2>3
        <3>2. ASSUME attempt[n].from # d, ports[attempt[n].from][n] # NoPort, ports'[attempt[n].from][n] = NoPort
              PROVE  FALSE
            <4>1. attempt[n].from = c /\ n = r /\ S = ms
                BY <1>6, <1>7, <2>1, <3>2 DEF OnlyPort
            <4>2. attempt[r].to = d /\ attempt[r].to # c
                BY <2>1, <2>3, <3>2, <4>1 DEF Belongs
            <4>3. attempt[m].from = c /\ m = r
                BY <1>1, <4>2 DEF Belongs
            <4>4. CASE op = "DOWN"
                <5>1. Peer(c, r) = d
                    BY <4>1, <4>2 DEF Peer, IsOpener
                <5>2. ~up[d]
                    BY <1>2, <4>3, <4>4, <5>1 DEF Rule
                <5>3. ports[d] = NoPorts
                    BY <5>2 DEF EdgeInv, Gone
                <5> QED
                    BY <2>1, <5>3 DEF NoPorts, NoPort
            <4>5. CASE op = "close_cast"
                <5>1. y = attempt[r].cref
                    BY <4>1, <4>3, <4>5 DEF ClientRef, IsOpener
                <5>2. y # NoRef
                    BY EdgePortsAssumption
                <5>3. attempt[y].to = d
                    BY <4>2, <5>1, <5>2 DEF EdgeInv, Stage
                <5>4. ports[d][y] = NoPort
                    BY <1>2, <2>3, <4>5, <5>3 DEF Rule
                <5>5. y = q
                    BY <2>1, <3>2, <4>1, <5>1, <5>2 DEF Belongs
                <5> QED
                    BY <2>1, <5>4, <5>5 DEF NoPort
            <4> QED
                BY <4>4, <4>5
        <3> QED
            BY <3>1, <3>2 DEF Hears, Forgets
    <2> QED
        BY <2>2, <2>3
<1> QED
    BY <1>13, <1>14, <1>16, ForgetStep

(* A message about no client of the server is dropped.                      *)
LEMMA IgnoredStep ==
    ASSUME EdgeInv, TablesOK', NEW c \in Conns, NEW op \in {"close_cast", "DOWN"}, NEW y \in Refs,
           Handles(c, op, y), Drop(c),
           \A q \in Refs : \A n \in ports[c][q].clients : attempt[n].from # c => n # y,
           UNCHANGED <<up, ports, monitors, jobs, attempt, device, losses>>
    PROVE  EdgeInv'
<1> DEFINE h == Head(inbox[c])
           ms == {}
<1>1. h.op = op /\ h.ref = y
    BY Headed
<1> HIDE DEF h
<1>2. ms \in SUBSET Refs /\ \A n : n \notin ms
    OBVIOUS
<1>3. monitors' = [monitors EXCEPT ![c] = @ \ ms]
    BY DEF EdgeInv, Held
<1> HIDE DEF ms
<1>4. /\ Took(c, ms)
      /\ \A d \in Conns \ {c} :
            Box(d)' = Box(d) /\ Single(inbox'[d]) /\ (~up[d] => inbox'[d] = <<>>)
    BY DropSet
<1>5. Shrinks(c)
    BY DEF Shrinks, EdgeInv, Held
<1>6. Forgets /\ \A d \in Conns : Calls(d)' = Calls(d)
    <2>1. op \in {"close_cast", "DOWN", "close_call"}
        OBVIOUS
    <2>2. \A d \in Conns \ {c} :
              /\ Single(inbox'[d]) /\ (~up[d] => inbox'[d] = <<>>)
              /\ \A x \in Box(d)' : x \in Box(d) \/ x = Msg("close_cast", y)
        BY <1>4
    <2> QED
        BY <1>2, <1>3, <1>4, <1>5, <2>1, <2>2, ServerForgets
<1>7. \A d \in Conns : Due(d)' \subseteq Due(d)
    BY <1>4, <1>6 DEF Due, Took
<1>8. ASSUME NEW d \in Conns, NEW q \in Refs, NEW n \in ports'[d][q].clients PROVE Hears(d, n)
    <2>1. n \in ports[d][q].clients
        BY <1>8
    <2>2. ASSUME attempt[n].from # d, NEW o \in {"DOWN", "close_cast"}, Msg(o, n) \in Box(d)
          PROVE  Msg(o, n) \in Box(d)'
        <3>1. Msg(o, n).op = o /\ Msg(o, n).ref = n
            BY DEF Msg
        <3>2. CASE d = c
            <4>1. Msg(o, n) # h
                BY <1>1, <2>1, <2>2, <3>1, <3>2
            <4> QED
                BY <1>2, <1>4, <2>2, <3>2, <4>1 DEF Took, h
        <3>3. CASE d # c
            BY <1>4, <2>2, <3>3
        <3> QED
            BY <3>2, <3>3
    <2> QED
        BY <2>2 DEF Hears
<1> QED
    BY <1>6, <1>7, <1>8, ForgetStep

LEMMA HandleCloseCastStep ==
    ASSUME EdgeInv, TablesOK', NEW c \in Conns, NEW x \in Refs, HandleCloseCast(c, x)
    PROVE  EdgeInv'
<1> DEFINE op == "close_cast"
           found == {p \in Refs \X Refs : p[2] \in ports[c][p[1]].clients /\ ClientRef(c, p[2]) = x}
<1>1. op \in {"close_cast", "DOWN"} /\ op # "DOWN"
    OBVIOUS
<1>2. /\ Handles(c, op, x)
      /\ IF found = {}
         THEN Drop(c) /\ UNCHANGED <<ports, monitors, device>>
         ELSE \E p \in found : RemoveClient(c, p[1], p[2])
      /\ UNCHANGED <<up, jobs, attempt, losses>>
    BY DEF HandleCloseCast
<1> HIDE DEF op
<1>3. CASE found = {}
    <2>1. ASSUME NEW q \in Refs, NEW n \in ports[c][q].clients, attempt[n].from # c
          PROVE  n # x
        <3>1. n \in Refs /\ ClientRef(c, n) = n
            BY <2>1, Types DEF ClientRef, IsOpener
        <3>2. n = x => <<q, n>> \in found
            BY <3>1
        <3> HIDE DEF found
        <3> QED
            BY <1>3, <3>2
    <2> HIDE DEF found
    <2> QED
        BY <1>1, <1>2, <1>3, <2>1, IgnoredStep
<1>4. CASE found # {}
    <2>1. PICK p \in found : RemoveClient(c, p[1], p[2])
        BY <1>2, <1>4
    <2>2. /\ p[1] \in Refs /\ p[2] \in ports[c][p[1]].clients /\ ClientRef(c, p[2]) = x
        OBVIOUS
    <2> HIDE DEF found
    <2>3. PICK r \in Refs : r = p[1]
        BY <2>2
    <2>4. PICK m \in ports[c][r].clients : m = p[2]
        BY <2>2, <2>3
    <2>5. RemoveClient(c, r, m)
        BY <2>1, <2>3, <2>4
    <2> QED
        BY <1>1, <1>2, <2>2, <2>4, <2>5, RemovedStep
<1> QED
    BY <1>3, <1>4

LEMMA HandleDownStep ==
    ASSUME EdgeInv, TablesOK', NEW c \in Conns, NEW m \in Refs, HandleDown(c, m)
    PROVE  EdgeInv'
<1> DEFINE op == "DOWN"
<1>1. op \in {"close_cast", "DOWN"} /\ op # "close_cast"
    OBVIOUS
<1>2. /\ Handles(c, op, m)
      /\ UNCHANGED <<up, jobs, attempt, losses>>
    BY DEF HandleDown
<1> HIDE DEF op
<1>3. CASE \E r \in Refs : m \in ports[c][r].clients
    <2>1. PICK r \in Refs : m \in ports[c][r].clients /\ RemoveClient(c, r, m)
        BY <1>3 DEF HandleDown
    <2> QED
        BY <1>1, <1>2, <2>1, RemovedStep
<1>4. CASE ~ \E r \in Refs : m \in ports[c][r].clients
    <2>1. Drop(c) /\ UNCHANGED <<ports, monitors, device>>
        BY <1>4 DEF HandleDown
    <2> QED
        BY <1>1, <1>2, <1>4, <2>1, IgnoredStep
<1> QED
    BY <1>3, <1>4

(* As many messages as there are clients to tell.                           *)
LEMMA BoxCopies ==
    ASSUME NEW x \in Messages, NEW Q \in SUBSET Refs
    PROVE  LET t == [i \in 1 .. Cardinality(Q) |-> x] IN
           t \in Seq(Messages) /\ ToSet(t) \subseteq {x} /\ (Q # {} => x \in ToSet(t))
<1>1. IsFiniteSet(Q)
    BY EdgePortsAssumption, FS_Subset
<1>2. Cardinality(Q) \in Nat /\ (Cardinality(Q) = 0 <=> Q = {})
    BY <1>1, FS_CardinalityType, FS_EmptySet
<1> DEFINE n == Cardinality(Q)
           t == [i \in 1 .. n |-> x]
<1>3. n \in Nat /\ (Q # {} => n > 0)
    BY <1>2
<1> HIDE DEF n
<1>4. t \in Seq(Messages) /\ DOMAIN t = 1 .. n /\ \A i \in 1 .. n : t[i] = x
    BY <1>3
<1> HIDE DEF t
<1>5. ToSet(t) \subseteq {x}
    BY <1>4 DEF ToSet
<1>6. Q # {} => x \in ToSet(t)
    <2>1. Q # {} => 1 \in 1 .. n
        BY <1>3
    <2> QED
        BY <2>1, <1>4 DEF ToSet
<1> QED
    BY <1>4, <1>5, <1>6 DEF t, n

(* The port goes with every client the closing task saw.                    *)
LEMMA HandleCloseCallStep ==
    ASSUME EdgeInv, TablesOK', NEW c \in Conns, NEW r \in Refs, HandleCloseCall(c, r)
    PROVE  EdgeInv'
<1> DEFINE h == Head(inbox[c])
           op == "close_call"
           S == h.clients
           cast == Msg("close_cast", r)
           Q(d) == {m \in S : Peer(c, m) = d}
           told(d) == [i \in 1 .. Cardinality(Q(d)) |-> cast]
           box(d) == IF d = c THEN Flush(Rest(c), S)
                     ELSE IF up[d] THEN inbox[d] \o told(d) ELSE <<>>
           p == NoPort
<1>1. /\ Handles(c, op, r)
      /\ inbox' = [d \in Conns |-> box(d)]
      /\ monitors' = [monitors EXCEPT ![c] = @ \ S]
      /\ ports' = [ports EXCEPT ![c][r] = p]
      /\ UNCHANGED <<up, jobs, attempt, device, losses>>
    BY DEF HandleCloseCall
<1>2. /\ h.op = op /\ h.ref = r /\ Rule(c, h) /\ h \in Box(c) /\ h \in Messages
      /\ Rest(c) \in Seq(Messages) /\ Single(Rest(c)) /\ Box(c) = ToSet(Rest(c)) \cup {h}
    BY <1>1, Headed
<1>3. S \in SUBSET Refs
    BY <1>2 DEF Messages
<1>4. cast \in Messages /\ cast.op = "close_cast" /\ cast.ref = r
    BY DEF Msg, Messages, Ops
<1> HIDE DEF h, cast
<1>5. /\ \/ attempt[r].from = c /\ S = {r}
         \/ attempt[r].to = c /\ Arrived(r)
      /\ \A m \in S, q \in Refs : m \in ports[c][q].clients => q = r
    BY <1>2 DEF Rule, S
<1>6. ports'[c][r] = p /\ OnlyPort(c, r) /\ \A d \in Conns \ {c} : ports'[d] = ports[d]
    <2> HIDE DEF p
    <2> QED BY <1>1, PortAt
<1> HIDE DEF S, Q, told
<1>7. ASSUME NEW d \in Conns
      PROVE  /\ told(d) \in Seq(Messages) /\ ToSet(told(d)) \subseteq {cast}
             /\ Q(d) # {} <=> cast \in ToSet(told(d))
    <2>1. Q(d) \in SUBSET Refs
        BY <1>3 DEF Q
    <2>2. told(d) \in Seq(Messages) /\ ToSet(told(d)) \subseteq {cast} /\ (Q(d) # {} => cast \in ToSet(told(d)))
        BY <1>4, <2>1, BoxCopies DEF told
    <2>3. Q(d) = {} => DOMAIN told(d) = {}
        <3>1. Cardinality({}) = 0
            BY FS_EmptySet
        <3> QED
            BY <3>1 DEF told
    <2> QED
        BY <2>2, <2>3 DEF ToSet
<1>8. /\ Flush(Rest(c), S) \in Seq(Messages) /\ Single(Flush(Rest(c), S))
      /\ ToSet(Flush(Rest(c), S)) = {x \in ToSet(Rest(c)) : ~(x.op = "DOWN" /\ x.ref \in S)}
    BY <1>2, <1>3, BoxFlush
<1>9. inbox'[c] = Flush(Rest(c), S) /\ Box(c)' = ToSet(Flush(Rest(c), S))
    BY <1>1 DEF Box
<1>10. ASSUME NEW d \in Conns \ {c}
       PROVE  /\ inbox'[d] \in Seq(Messages)
              /\ Single(inbox'[d]) /\ (~up[d] => inbox'[d] = <<>>)
              /\ up[d] => Box(d)' = Box(d) \cup ToSet(told(d))
              /\ \A x \in Box(d)' : x \in Box(d) \/ (x = cast /\ Q(d) # {})
              /\ \A x \in Box(d) : x \in Box(d)'
    <2>1. /\ inbox[d] \in Seq(Messages) /\ Single(inbox[d])
          /\ ~up[d] => inbox[d] = <<>>
        BY DEF EdgeInv, Held, Gone
    <2>2. CASE up[d]
        <3>1. inbox'[d] = inbox[d] \o told(d)
            BY <1>1, <2>2
        <3>2. \A x \in ToSet(told(d)) : x.op \notin {"monitor", "portopen"}
            BY <1>4, <1>7
        <3>3. /\ inbox'[d] \in Seq(Messages) /\ Single(inbox'[d])
              /\ ToSet(inbox'[d]) = ToSet(inbox[d]) \cup ToSet(told(d))
            BY <1>7, <2>1, <3>1, <3>2, BoxConcat
        <3> QED
            BY <1>7, <2>2, <3>3 DEF Box
    <2>3. CASE ~up[d]
        <3>1. inbox'[d] = inbox[d]
            BY <1>1, <2>1, <2>3
        <3> QED
            BY <2>1, <2>3, <3>1 DEF Box
    <2> QED
        BY <2>2, <2>3
<1>11. inbox' \in [Conns -> Seq(Messages)]
    <2>1. \A d \in Conns : inbox'[d] \in Seq(Messages)
        BY <1>8, <1>9, <1>10
    <2>2. DOMAIN inbox' = Conns /\ inbox' = [d \in Conns |-> inbox'[d]]
        BY <1>1
    <2> HIDE DEF box
    <2> QED
        BY <2>1, <2>2
<1>12. Took(c, S)
    BY <1>2, <1>8, <1>9, <1>11 DEF Took, h
<1>13. Shrinks(c)
    BY <1>1, <1>6 DEF Shrinks, OnlyPort, EdgeInv, Held
<1>14. /\ Forgets
       /\ \A d \in Conns : Calls(d)' = Calls(d)
       /\ \A d \in Conns \ {c} : monitors'[d] = monitors[d]
       /\ monitors'[c] = monitors[c] \ S
    <2>1. op \in {"close_cast", "DOWN", "close_call"}
        OBVIOUS
    <2>2. \A d \in Conns \ {c} :
              /\ Single(inbox'[d]) /\ (~up[d] => inbox'[d] = <<>>)
              /\ \A x \in Box(d)' : x \in Box(d) \/ x = Msg("close_cast", r)
        BY <1>10 DEF cast
    <2> HIDE DEF op
    <2> QED
        BY <1>1, <1>3, <1>12, <1>13, <2>1, <2>2, ServerForgets
<1>15. ASSUME NEW d \in Conns, NEW x \in Due(d)' \ Due(d) PROVE Rule(d, x)'
    <2>1. x \in Box(d)' \ Box(d)
        BY <1>14, <1>15 DEF Due
    <2>2. d # c /\ x = cast /\ Q(d) # {}
        BY <1>10, <1>12, <2>1 DEF Took
    <2>3. CASE attempt[r].from = c /\ S = {r}
        <3>1. attempt[r].to = d
            BY <2>2, <2>3 DEF Q, Peer, IsOpener
        <3> QED
            BY <1>1, <1>4, <2>2, <3>1 DEF Rule
    <2>4. CASE attempt[r].to = c /\ Arrived(r)
        <3>1. Arrived(r)'
            BY <1>14, <2>4, ForgetFollows DEF Follows
        <3>2. ports'[attempt'[r].to][r] = NoPort /\ attempt'[r].to = c
            BY <1>1, <1>6, <2>4
        <3> QED
            BY <1>4, <2>2, <3>1, <3>2 DEF Rule, NoPort
    <2> QED
        BY <1>5, <2>3, <2>4
<1>16. ASSUME NEW d \in Conns, NEW q \in Refs, NEW n \in ports'[d][q].clients PROVE Hears(d, n)
    <2>0. NoPort.clients = {}
        BY DEF NoPort
    <2>1. n \in ports[d][q].clients /\ ~(d = c /\ q = r)
        BY <1>6, <1>16, <2>0 DEF OnlyPort
    <2>2. /\ n \in Refs /\ Belongs(d, q, n) /\ attempt[n].from \in Conns /\ attempt[n].to \in Conns
        BY <2>1, ClientOpened
    <2>3. CASE d = c
        <3> SUFFICES ASSUME attempt[n].from # c PROVE Hears(c, n)
            BY <2>3 DEF Hears
        <3>1. n \notin S
            BY <1>5, <2>1, <2>3
        <3>2. n \in monitors[c] => n \in monitors'[c]
            BY <1>14, <3>1
        <3>3. ASSUME NEW o \in {"DOWN", "close_cast"}, Msg(o, n) \in Box(c)
              PROVE  Msg(o, n) \in Box(c)'
            <4>1. Msg(o, n).op = o /\ Msg(o, n).ref = n
                BY DEF Msg
            <4> QED
                BY <1>2, <1>12, <3>1, <3>3, <4>1 DEF Took, h
        <3>4. ports'[attempt[n].from] = ports[attempt[n].from]
            BY <1>6, <2>2
        <3> QED
            BY <1>1, <3>2, <3>3, <3>4 DEF Hears
    <2>4. CASE d # c
        <3>1. monitors'[d] = monitors[d] /\ \A x \in Box(d) : x \in Box(d)'
            BY <1>10, <1>14, <2>4
        <3>2. ASSUME attempt[n].from # d, ports[attempt[n].from][n] # NoPort, ports'[attempt[n].from][n] = NoPort
              PROVE  Msg("close_cast", n) \in Box(d)'
            <4>1. attempt[n].from = c /\ n = r
                BY <1>6, <2>2, <3>2 DEF OnlyPort
            <4>2. attempt[r].to = d
                BY <2>2, <3>2, <4>1 DEF Belongs
            <4>3. r \in S
                BY <1>5, <2>4, <4>2
            <4>4. r \in Q(d)
                BY <4>1, <4>2, <4>3 DEF Q, Peer, IsOpener
            <4>5. up[d]
                <5>1. ~up[d] => ports[d] = NoPorts
                    BY DEF EdgeInv, Gone
                <5> QED
                    BY <2>1, <5>1 DEF NoPorts, NoPort
            <4>6. cast \in Box(d)'
                BY <1>7, <1>10, <2>4, <4>4, <4>5
            <4> QED
                BY <4>1, <4>6 DEF cast
        <3> QED
            BY <1>1, <3>1, <3>2 DEF Hears
    <2> QED
        BY <2>3, <2>4
<1> QED
    BY <1>14, <1>15, <1>16, ForgetStep

(* A connection is lost: what it held is gone, its attempts are dead, and   *)
(* the connections that monitor it hear of it.                              *)
LEMMA LossStep ==
    ASSUME EdgeInv, TablesOK', NEW c \in Conns, NEW left \in SUBSET {"call"}, up[c], Down(c, left),
           losses' \in 0 .. MaxLosses
    PROVE  EdgeInv'
<1>1. /\ up' = [up EXCEPT ![c] = FALSE]
      /\ inbox' = [d \in Conns |-> IF d = c THEN <<>>
                                   ELSE IF up[d] THEN inbox[d] \o Downs(Fired(c, d)) ELSE <<>>]
      /\ monitors' = [d \in Conns |-> IF d = c THEN {} ELSE monitors[d] \ Fired(c, d)]
      /\ ports' = [ports EXCEPT ![c] = NoPorts]
      /\ jobs' = {j \in jobs : j.conn # c}
      /\ device' = [device EXCEPT ![c] = Unknown]
    BY DEF Down
<1>2. /\ up' \in [Conns -> BOOLEAN] /\ ~up'[c] /\ \A d \in Conns \ {c} : up'[d] = up[d]
      /\ \A d \in Conns : up'[d] => up[d]
    BY <1>1 DEF EdgeInv, Held
<1>3. ports'[c] = NoPorts /\ \A d \in Conns \ {c} : ports'[d] = ports[d]
    BY <1>1, Types
<1>4. ASSUME NEW q \in Refs
      PROVE  /\ attempt'[q].from = attempt[q].from /\ attempt'[q].to = attempt[q].to
             /\ attempt'[q].rights = attempt[q].rights /\ attempt'[q].cref = attempt[q].cref
             /\ attempt[q].from = c /\ attempt[q].pc # "call" => attempt'[q].pc = "dead"
             /\ attempt'[q] = attempt[q] \/ (attempt'[q].pc = "dead" /\ attempt[q].from = c)
    <2> DEFINE a == attempt[q]
               dead == [a EXCEPT !.pc = "dead"]
    <2>1. attempt'[q] = IF a.from = c /\ a.pc \notin left THEN dead ELSE a
        BY DEF Down
    <2>2. /\ dead.pc = "dead" /\ dead.from = a.from /\ dead.to = a.to
          /\ dead.rights = a.rights /\ dead.cref = a.cref
        BY Types DEF Attempt
    <2> HIDE DEF dead
    <2> QED
        BY <2>1, <2>2
<1>5. ASSUME NEW q \in Refs,
             attempt'[q].pc \in {"monitor", "wait", "replied", "put", "respond", "done", "late"}
      PROVE  up'[attempt[q].from]
    <2>1. attempt[q].from # c /\ attempt'[q] = attempt[q]
        BY <1>4, <1>5
    <2>2. up[attempt[q].from] /\ attempt[q].from \in Conns
        BY <1>5, <2>1 DEF EdgeInv, Stage
    <2> QED
        BY <1>2, <2>1, <2>2
<1>6. ASSUME NEW d \in Conns \ {c}
      PROVE  /\ inbox'[d] \in Seq(Messages) /\ Single(inbox'[d])
             /\ ~up[d] => inbox'[d] = <<>>
             /\ \A x \in Box(d)' : x \in Box(d) \/ \E m \in Fired(c, d) : x = Msg("DOWN", m)
             /\ \A x \in Box(d) : x \in Box(d)'
             /\ up[d] => \A m \in Fired(c, d) : Msg("DOWN", m) \in Box(d)'
    <2>1. /\ inbox[d] \in Seq(Messages) /\ Single(inbox[d])
          /\ ~up[d] => inbox[d] = <<>>
          /\ Fired(c, d) \in SUBSET Refs
        BY DEF EdgeInv, Held, Gone, Fired
    <2> DEFINE t == Downs(Fired(c, d))
    <2>2. t \in Seq(Messages) /\ ToSet(t) = {Msg("DOWN", m) : m \in Fired(c, d)}
        BY <2>1, BoxDowns
    <2>3. CASE up[d]
        <3>1. inbox'[d] = inbox[d] \o t
            BY <1>1, <2>3
        <3>2. \A x \in ToSet(t) : x.op \notin {"monitor", "portopen"}
            BY <2>2 DEF Msg
        <3> HIDE DEF t
        <3>3. /\ inbox'[d] \in Seq(Messages) /\ Single(inbox'[d])
              /\ ToSet(inbox'[d]) = ToSet(inbox[d]) \cup ToSet(t)
            BY <2>1, <2>2, <3>1, <3>2, BoxConcat
        <3> QED
            BY <2>2, <2>3, <3>3 DEF Box
    <2>4. CASE ~up[d]
        <3>1. inbox'[d] = inbox[d]
            BY <1>1, <2>1, <2>4
        <3> QED
            BY <2>1, <2>4, <3>1 DEF Box
    <2> QED
        BY <2>3, <2>4
<1>7. inbox'[c] = <<>> /\ Box(c)' = {} /\ <<>> \in Seq(Messages) /\ Single(<<>>)
    <2>1. inbox'[c] = <<>>
        BY <1>1
    <2> QED
        BY <2>1 DEF Box, ToSet, Single
<1>8. inbox' \in [Conns -> Seq(Messages)]
    <2>1. \A d \in Conns : inbox'[d] \in Seq(Messages)
        BY <1>6, <1>7
    <2> QED
        BY <1>1, <2>1
<1>9. \A d \in Conns : Calls(d)' \subseteq Calls(d)
    BY <1>1 DEF Calls
<1>10. Held'
    <2>1. jobs' \subseteq Jobs
        BY <1>1 DEF EdgeInv, Held
    <2>2. monitors' \in [Conns -> SUBSET Refs]
        BY <1>1 DEF EdgeInv, Held
    <2>3. device' \in [Conns -> [Refs -> {"none", "asked", "open", "closed"}]]
        BY <1>1 DEF EdgeInv, Held, Unknown
    <2> QED
        BY <1>2, <1>8, <2>1, <2>2, <2>3 DEF Held, Messages, Jobs, Ops
<1>11. ASSUME NEW d \in Conns
       PROVE  /\ Single(inbox'[d])
              /\ ~up'[d] => inbox'[d] = <<>> /\ ports'[d] = NoPorts /\ \A j \in jobs' : j.conn # d
              /\ \A x \in Due(d)' \ Due(d) : x.op \in {"DOWN", "close_cast"}
    <2>1. CASE d = c
        <3>1. Single(inbox'[d])
            BY <1>7, <2>1
        <3> QED
            BY <1>1, <1>3, <1>7, <1>9, <2>1, <3>1 DEF Due
    <2>2. CASE d # c
        <3>1. Gone(d)
            BY DEF EdgeInv
        <3>2. ~up'[d] => inbox'[d] = <<>> /\ ports'[d] = NoPorts /\ \A j \in jobs' : j.conn # d
            BY <1>1, <1>2, <1>3, <1>6, <2>2, <3>1 DEF Gone
        <3>3. \A x \in Due(d)' \ Due(d) : x.op = "DOWN"
            BY <1>6, <1>9, <2>2 DEF Due, Msg
        <3> QED
            BY <1>6, <2>2, <3>2, <3>3
    <2> QED
        BY <2>1, <2>2
<1>12. ASSUME NEW d \in Conns, NEW q \in Refs
       PROVE  /\ ports'[d][q] = NoPort \/ ports'[d][q] = ports[d][q]
              /\ device'[d][q] = device[d][q] \/ (~up'[d] /\ device'[d][q] # "asked")
    <2>1. CASE d = c
        <3>1. ports'[d][q] = NoPort
            BY <1>3, <2>1 DEF NoPorts
        <3>2. device'[d][q] = "none"
            BY <1>1, <2>1 DEF EdgeInv, Held, Unknown
        <3> QED
            BY <1>2, <2>1, <3>1, <3>2
    <2>2. CASE d # c
        BY <1>1, <1>3, <2>2 DEF EdgeInv, Held
    <2> QED
        BY <2>1, <2>2
<1>13. Forgets
    BY <1>2, <1>4, <1>5, <1>10, <1>11, <1>12 DEF Forgets
<1>14. ASSUME NEW d \in Conns, NEW x \in Due(d)' \ Due(d) PROVE Rule(d, x)'
    <2>1. x \in Box(d)' \ Box(d) /\ d # c
        BY <1>7, <1>9, <1>14 DEF Due
    <2>2. PICK m \in Fired(c, d) : x = Msg("DOWN", m)
        BY <1>6, <2>1
    <2>3. x.op = "DOWN" /\ x.ref = m
        BY <2>2 DEF Msg
    <2>4. m \in Refs /\ Peer(d, m) = c
        BY DEF Fired, EdgeInv, Held
    <2>5. Peer(d, m)' = c
        BY <1>4, <2>4 DEF Peer, IsOpener
    <2> QED
        BY <1>2, <2>3, <2>5 DEF Rule
<1>15. ASSUME NEW d \in Conns, NEW q \in Refs, NEW n \in ports'[d][q].clients PROVE Hears(d, n)
    <2>0. NoPort.clients = {}
        BY DEF NoPort
    <2>1. d # c /\ n \in ports[d][q].clients
        <3>1. d # c
            BY <1>3, <1>15, <2>0 DEF NoPorts
        <3> QED
            BY <1>3, <1>15, <3>1
    <2>2. n \in Refs /\ Belongs(d, q, n) /\ attempt[n].from \in Conns
        BY <2>1, ClientOpened
    <2>3. up[d]
        <3>1. ~up[d] => ports[d] = NoPorts
            BY DEF EdgeInv, Gone
        <3> QED
            BY <2>0, <2>1, <3>1 DEF NoPorts
    <2> SUFFICES ASSUME attempt[n].from # d PROVE Hears(d, n)
        BY DEF Hears
    <2>4. Peer(d, n) = attempt[n].from
        BY DEF Peer, IsOpener
    <2>5. \A x \in Box(d) : x \in Box(d)'
        BY <1>6, <2>1
    <2>6. CASE attempt[n].from = c
        <3>1. n \in monitors[d] => Msg("DOWN", n) \in Box(d)'
            BY <1>6, <2>1, <2>3, <2>4, <2>6 DEF Fired
        <3>2. attempt[n].pc \in {"respond", "done"} => attempt'[n].pc = "dead"
            BY <1>4, <2>2, <2>6
        <3> QED
            BY <1>2, <2>5, <2>6, <3>1, <3>2 DEF Hears
    <2>7. CASE attempt[n].from # c
        <3>1. n \in monitors[d] => n \in monitors'[d]
            BY <1>1, <2>1, <2>4, <2>7 DEF Fired
        <3>2. up'[attempt[n].from] = up[attempt[n].from] /\ ports'[attempt[n].from] = ports[attempt[n].from]
            BY <1>2, <1>3, <2>2, <2>7
        <3> QED
            BY <2>5, <3>1, <3>2 DEF Hears
    <2> QED
        BY <2>6, <2>7
<1> QED
    BY <1>13, <1>14, <1>15, ForgetStep

LEMMA LoseStep ==
    ASSUME EdgeInv, TablesOK', NEW c \in Conns, Lose(c)
    PROVE  EdgeInv'
<1> DEFINE left == {"call"}
<1>1. up[c] /\ Down(c, left) /\ left \in SUBSET {"call"}
    BY DEF Lose
<1>2. losses' \in 0 .. MaxLosses
    BY EdgePortsAssumption DEF Lose, EdgeInv, Held
<1> HIDE DEF left
<1> QED
    BY <1>1, <1>2, LossStep

LEMMA HandlerCrashesStep ==
    ASSUME EdgeInv, TablesOK', NEW c \in Conns, NEW r \in Refs, HandlerCrashes(c, r)
    PROVE  EdgeInv'
<1> DEFINE left == {}
<1>1. up[c] /\ Down(c, left) /\ left \in SUBSET {"call"}
    BY DEF HandlerCrashes, Handles
<1>2. losses' \in 0 .. MaxLosses
    BY DEF HandlerCrashes, EdgeInv, Held
<1> HIDE DEF left
<1> QED
    BY <1>1, <1>2, LossStep

-----------------------------------------------------------------------------
(* EdgeInv is inductive.                                                   *)

LEMMA EdgeInit == Init => EdgeInv
<1> SUFFICES ASSUME Init PROVE EdgeInv
    OBVIOUS
<1>1. /\ up = [c \in Conns |-> TRUE] /\ inbox = [c \in Conns |-> <<>>]
      /\ ports = [c \in Conns |-> NoPorts] /\ monitors = [c \in Conns |-> {}]
      /\ jobs = {} /\ attempt = [r \in Refs |-> Unused]
      /\ device = [c \in Conns |-> Unknown] /\ losses = 0
    BY DEF Init
<1>2. <<>> \in Seq(Messages) /\ Single(<<>>)
    BY DEF Single
<1>3. Held
    BY <1>1, <1>2, EdgePortsAssumption DEF Held, Unknown
<1>4. \A r \in Refs : /\ attempt[r].pc = "idle" /\ attempt[r] = Unused
                      /\ attempt[r].cref = NoRef
    BY <1>1 DEF Unused
<1>5. \A r \in Refs : Stage(r)
    BY <1>4 DEF Stage
<1>6. ASSUME NEW c \in Conns
      PROVE  /\ Box(c) = {} /\ Calls(c) = {} /\ ports[c] = NoPorts /\ up[c] /\ Single(inbox[c])
             /\ \A r \in Refs : device[c][r] = "none"
    BY <1>1, <1>2 DEF Box, ToSet, Calls, Unknown
<1>7. \A r \in Refs : NoPorts[r].state = "none" /\ NoPorts[r].clients = {}
    BY DEF NoPorts, NoPort
<1>8. ASSUME NEW c \in Conns
      PROVE  Gone(c) /\ Single(inbox[c]) /\ \A x \in Due(c) : Rule(c, x)
    BY <1>6 DEF Gone, Due
<1>9. ASSUME NEW c \in Conns, NEW r \in Refs
      PROVE  /\ PortShape(c, r) /\ Answers(c, r)
             /\ \A m \in ports[c][r].clients : Client(c, r, m)
    BY <1>4, <1>6, <1>7 DEF PortShape, Answers, Has, Due
<1> QED
    BY <1>3, <1>5, <1>8, <1>9, TablesInit DEF EdgeInv

LEMMA EdgeStutters == EdgeInv /\ TablesOK' /\ UNCHANGED vars => EdgeInv'
<1> SUFFICES ASSUME EdgeInv, TablesOK', UNCHANGED vars PROVE EdgeInv'
    OBVIOUS
<1>1. UNCHANGED <<up, inbox, ports, monitors, jobs, attempt, device, losses>>
    BY DEF vars
<1>2. ASSUME NEW c \in Conns
      PROVE  Box(c)' = Box(c) /\ Due(c)' = Due(c)
    BY <1>1 DEF Due, Box, Calls
<1>3. Held'
    BY <1>1 DEF EdgeInv, Held, Messages, Jobs, Ops
<1>4. Talks
    BY <1>1, <1>2, <1>3 DEF Talks, EdgeInv, Gone, Single
<1>5. Follows
    BY <1>4, TalkFollows
<1>6. \A c \in Conns, r \in Refs : Answers(c, r)'
    BY <1>1, <1>2, <1>5, AnswersKept
<1> QED
    BY <1>4, <1>6, TalkStep

LEMMA EdgeStep == EdgeInv /\ [Next]_vars => EdgeInv'
<1> SUFFICES ASSUME EdgeInv, [Next]_vars PROVE EdgeInv'
    OBVIOUS
<1>1. TablesOK'
    BY TablesStep DEF EdgeInv
<1>2. ASSUME NEW c \in Conns, NEW r \in Refs, Device(c, r) PROVE EdgeInv'
    BY <1>1, <1>2, DeviceOpensStep, DeviceTalksStep DEF Device
<1>3. ASSUME NEW c \in Conns, Lose(c) PROVE EdgeInv'
    BY <1>1, <1>3, LoseStep
<1>4. ASSUME NEW r \in Refs, Task(r) \/ CallTimesOut(r) PROVE EdgeInv'
    BY <1>1, <1>4, CallPeerStep, CallExitsStep, CallSelfStep, RespondStep, CallTimesOutStep DEF Task
<1>5. ASSUME NEW j \in jobs, CallBack(j) PROVE EdgeInv'
    BY <1>1, <1>5, CallBackStep
<1>6. ASSUME NEW c \in Conns, Serve(c) PROVE EdgeInv'
    <2>1. PICK r \in Refs :
        \/ HandleMonitor(c, r) \/ HandlePortopen(c, r) \/ HandlePut(c, r) \/ HandleAnswer(c, r)
        \/ HandleOk(c, r) \/ HandleOkCall(c, r) \/ HandleError(c, r) \/ HandleDeviceClose(c, r)
        \/ HandleCloseCall(c, r) \/ HandleCloseCast(c, r) \/ HandleDown(c, r)
        \/ HandlePortsend(c, r) \/ HandlerCrashes(c, r)
        BY <1>6 DEF Serve
    <2>2. HandleMonitor(c, r) \/ HandlePortopen(c, r) \/ HandlePut(c, r) \/ HandleAnswer(c, r) => EdgeInv'
        BY <1>1, HandleMonitorStep, HandlePortopenStep, HandlePutStep, HandleAnswerStep
    <2>3. HandleOk(c, r) \/ HandleOkCall(c, r) \/ HandleError(c, r) \/ HandleDeviceClose(c, r) => EdgeInv'
        BY <1>1, HandleOkStep, HandleOkCallStep, HandleErrorStep, HandleDeviceCloseStep
    <2>4. HandleCloseCall(c, r) \/ HandleCloseCast(c, r) \/ HandleDown(c, r) => EdgeInv'
        BY <1>1, HandleCloseCallStep, HandleCloseCastStep, HandleDownStep
    <2>5. HandlePortsend(c, r) \/ HandlerCrashes(c, r) => EdgeInv'
        BY <1>1, HandlePortsendStep, HandlerCrashesStep
    <2> QED
        BY <2>1, <2>2, <2>3, <2>4, <2>5
<1> QED
    BY <1>1, <1>2, <1>3, <1>4, <1>5, <1>6, EdgeStutters DEF Next

(* The states of all servers, tasks and devices keep their types; a port    *)
(* has clients, and one that waits for its device has its opener alone.     *)
THEOREM TypesOfPorts == Spec => []TypeOK
<1>1. EdgeInv => TypeOK
    <2> SUFFICES ASSUME EdgeInv PROVE TypeOK
        OBVIOUS
    <2>1. /\ up \in [Conns -> BOOLEAN]
          /\ monitors \in [Conns -> SUBSET Refs]
          /\ device \in [Conns -> [Refs -> {"none", "asked", "open", "closed"}]]
          /\ losses \in 0 .. MaxLosses
          /\ ports \in [Conns -> [Refs -> [state : {"none", "pre_open", "open"}, clients : SUBSET Refs]]]
        BY Types DEF Held
    <2>2. ASSUME NEW c \in Conns, NEW i \in DOMAIN inbox[c]
          PROVE  inbox[c][i] \in [op : Ops, ref : Refs, clients : SUBSET Refs]
        <3>1. inbox[c] \in Seq(Messages)
            BY DEF EdgeInv, Held
        <3>2. inbox[c][i] \in Messages
            BY <3>1
        <3> QED
            BY <3>2 DEF Messages
    <2>3. \A c \in Conns, r \in Refs :
              /\ ports[c][r].state = "pre_open" => ports[c][r].clients = {r}
              /\ ports[c][r].state = "none" <=> ports[c][r].clients = {}
        BY DEF EdgeInv, PortShape
    <2>4. \A r \in Refs :
              /\ attempt[r].pc \in Progress
              /\ attempt[r] # Unused => attempt[r].rights \in Rights[Opener(r)]
        BY Types DEF EdgeInv, Stage, Attempt, Opener
    <2> QED
        BY <2>1, <2>2, <2>3, <2>4 DEF TypeOK
<1> QED
    BY <1>1, EdgeInit, EdgeStep, PTL DEF Spec

LEMMA InBox ==
    ASSUME NEW c, NEW m
    PROVE  In(c, m) <=> m \in Box(c)
    BY DEF In, Box, ToSet

(* Whenever a connection that opened a port is lost, before, while or after *)
(* its request is served, the server that was asked holds a monitor of it   *)
(* or the message that it is down: no client is left behind.                *)
THEOREM LossesAreNoticed == Spec => []LossIsNoticed
<1>1. EdgeInv => LossIsNoticed
    <2> SUFFICES ASSUME EdgeInv, NEW c \in Conns, NEW m \in Clients(c), ~IsOpener(c, m)
                 PROVE  IF up[Peer(c, m)] THEN m \in monitors[c] ELSE In(c, Msg("DOWN", m))
        BY DEF LossIsNoticed
    <2>1. PICK r \in Refs : m \in ports[c][r].clients
        BY DEF Clients
    <2>2. Watched(c, m) /\ attempt[m].from # c /\ Peer(c, m) = attempt[m].from
        BY <2>1 DEF EdgeInv, Client, IsOpener, Peer
    <2> QED
        BY <2>2, InBox DEF Watched
<1> QED
    BY <1>1, EdgeInit, EdgeStep, PTL DEF Spec

(* A port that is open at the side that was asked is one whose opener is    *)
(* still under way, holds it too, or has told the other side to close it.   *)
THEOREM PortEndsAgree == Spec => []EndsAgree
<1>1. EdgeInv => EndsAgree
    <2> SUFFICES ASSUME EdgeInv, NEW c \in Conns, NEW r \in Refs, NEW m \in ports[c][r].clients,
                        ports[c][r].state = "open", ~IsOpener(c, m), up[Peer(c, m)]
                 PROVE  \/ attempt[m].pc \in {"wait", "replied", "put", "late"}
                        \/ ports[Opener(m)][m] # NoPort
                        \/ In(c, Msg("close_cast", m))
        BY DEF EndsAgree
    <2>1. m \in Refs /\ Belongs(c, r, m) /\ Linked(c, r, m)
        BY ClientOpened
    <2>2. attempt[m].from # c /\ up[attempt[m].from]
        BY DEF IsOpener, Peer
    <2>3. attempt[m].pc \in Progress /\ Stage(m) /\ Arrived(m)
        BY <2>1, <2>2, Types DEF EdgeInv, Attempt, Belongs
    <2>4. attempt[m].pc \in {"wait", "replied", "put", "respond", "done", "late"}
        BY <2>1, <2>2, <2>3 DEF Progress, Arrived, Stage, Linked
    <2> QED
        BY <2>1, <2>2, <2>4, InBox DEF Linked, Opener
<1> QED
    BY <1>1, EdgeInit, EdgeStep, PTL DEF Spec
-----------------------------------------------------------------------------
(* Data goes to a device that has answered.  What is on its way from the    *)
(* answer of the device to the first data: the ok, the open port at the     *)
(* side that was asked, the reply with the reference of that port, and the  *)
(* port of the opener.                                                      *)

Oks == {"ok", "ok_call"}
Later == {"replied", "put", "respond", "done"}
Answered(c, r) == device[c][r] \in {"open", "closed"}

Heard(c, r) ==
    /\ up[c] /\ Has(Due(c), Oks, r) => Answered(c, r)
    /\ up[c] /\ ports[c][r].state = "open" /\ attempt[r].to = c => Answered(c, r)
    /\ attempt[r].from = c /\ r \in ports[c][r].clients => attempt[r].cref # NoRef

Joined(r) ==
    LET a == attempt[r] IN
    /\ a.cref # NoRef => Arrived(a.cref) /\ (up[a.to] => Answered(a.to, a.cref))
    /\ a.pc \in Later => a.cref # NoRef

Invited(p) ==
    /\ p[2] \in Refs /\ attempt[p[2]].pc # "idle"
    /\ p[1] = attempt[p[2]].to => attempt[p[2]].cref # NoRef

Invites ==
    /\ EdgeInv
    /\ \A r \in Refs : Joined(r)
    /\ \A c \in Conns, r \in Refs : Heard(c, r)
    /\ \A p \in sent : Invited(p)

(* What every step respects: a reference is learnt of a port the device     *)
(* answered for, and an ok is new only when the device has just said it.    *)
AttemptsGoOn ==
    \A r \in Refs :
        /\ attempt[r] # Unused => attempt'[r].from = attempt[r].from /\ attempt'[r].to = attempt[r].to
        /\ Arrived(r) => attempt'[r].pc \notin {"idle", "monitor", "call"}
        /\ attempt[r].pc # "idle" => attempt'[r].pc # "idle"
        /\ \/ attempt'[r].cref = attempt[r].cref
           \/ /\ attempt'[r].cref \in Refs /\ Arrived(attempt'[r].cref)
              /\ up'[attempt'[r].to] => device'[attempt'[r].to][attempt'[r].cref] \in {"open", "closed"}
        /\ attempt'[r].pc \in Later => attempt[r].pc \in Later \/ attempt'[r].cref # NoRef

MessagesGoOn ==
    \A c \in Conns : \A x \in Due(c)' :
        \/ x \in Due(c)
        \/ /\ x.op = "portopen" => ~Arrived(x.ref)
           /\ x.op \in Oks => Has(Due(c), Oks, x.ref) \/ device'[c][x.ref] = "open"

PortsGoOn ==
    \A c \in Conns, r \in Refs :
        /\ ports'[c][r].state = "open" =>
              ports[c][r].state = "open" \/ attempt'[r].to # c \/ device'[c][r] \in {"open", "closed"}
        /\ r \in ports'[c][r].clients =>
              r \in ports[c][r].clients \/ attempt'[r].from # c \/ attempt'[r].cref # NoRef

DevicesGoOn ==
    \A c \in Conns, r \in Refs :
        up'[c] /\ Answered(c, r) => device'[c][r] \in {"open", "closed"} \/ ~Arrived(r)

Respects ==
    /\ AttemptsGoOn /\ MessagesGoOn /\ PortsGoOn /\ DevicesGoOn
    /\ \A c \in Conns : up'[c] => up[c]
    /\ \A p \in sent' : p \in sent \/ Invited(p)

LEMMA RespectsFollows ==
    ASSUME EdgeInv, Respects
    PROVE  Follows
<1>1. ASSUME NEW c \in Conns, NEW x \in Box(c)', x.op = "portopen"
      PROVE  x \in Box(c) \/ ~Arrived(x.ref)
    <2>1. x \in Due(c) \/ ~Arrived(x.ref)
        BY <1>1 DEF Respects, MessagesGoOn, Due
    <2>2. x \notin Calls(c)
        BY <1>1, Types DEF Held, Calls, Jobs
    <2> QED
        BY <2>1, <2>2 DEF Due
<1>2. /\ \A r \in Refs : attempt[r] # Unused =>
             attempt'[r].from = attempt[r].from /\ attempt'[r].to = attempt[r].to
      /\ \A r \in Refs : Arrived(r) => attempt'[r].pc \notin {"idle", "monitor", "call"}
    BY DEF Respects, AttemptsGoOn
<1>3. \A c \in Conns : up'[c] => up[c]
    BY DEF Respects
<1> QED
    BY <1>1, <1>2, <1>3, FollowsIf

(* An open port at the side that was asked is one whose request arrived.    *)
LEMMA OpenArrived ==
    ASSUME EdgeInv, NEW c \in Conns, NEW r \in Refs, ports[c][r].state = "open"
    PROVE  attempt[r] # Unused /\ (attempt[r].to = c => Arrived(r))
<1>1. PICK m \in ports[c][r].clients : TRUE
    BY DEF EdgeInv, PortShape
<1>2. m \in Refs /\ Belongs(c, r, m)
    BY ClientOpened
<1>3. CASE attempt[m].from = c
    BY <1>2, <1>3, Opened DEF Belongs
<1>4. CASE attempt[m].from # c
    BY <1>2, <1>4, Opened DEF Belongs
<1> QED
    BY <1>3, <1>4

LEMMA InvitesKept ==
    ASSUME Invites, EdgeInv', Respects
    PROVE  Invites'
<1>1. EdgeInv /\ Follows
    BY RespectsFollows DEF Invites
<1>2. ASSUME NEW c \in Conns, NEW r \in Refs, up'[c], Answered(c, r), Arrived(r)
      PROVE  Answered(c, r)'
    BY <1>2 DEF Respects, DevicesGoOn, Answered
<1>3. ASSUME NEW r \in Refs, attempt[r].cref # NoRef
      PROVE  attempt'[r].cref # NoRef
    BY <1>3, EdgePortsAssumption DEF Respects, AttemptsGoOn
<1>4. ASSUME NEW r \in Refs PROVE Joined(r)'
    <2>1. ASSUME attempt'[r].cref # NoRef
          PROVE  /\ Arrived(attempt[r].cref)'
                 /\ up'[attempt'[r].to] => device'[attempt'[r].to][attempt'[r].cref] \in {"open", "closed"}
        <3>1. CASE attempt'[r].cref = attempt[r].cref
            <4>1. attempt[r].cref \in Refs /\ Arrived(r)
                BY <1>1, <2>1, <3>1, Types DEF Attempt, EdgeInv, Stage
            <4>2. attempt[r].to \in Conns /\ attempt'[r].to = attempt[r].to
                BY <1>1, <4>1, Opened, FollowsUp
            <4>3. Arrived(attempt[r].cref) /\ (up[attempt[r].to] => Answered(attempt[r].to, attempt[r].cref))
                BY <2>1, <3>1 DEF Invites, Joined
            <4>4. Arrived(attempt[r].cref)'
                BY <1>1, <3>1, <4>1, <4>3 DEF Follows
            <4>5. ASSUME up'[attempt[r].to]
                  PROVE  device'[attempt[r].to][attempt[r].cref] \in {"open", "closed"}
                BY <1>1, <4>1, <4>2, <4>3, <4>5 DEF Respects, DevicesGoOn, Follows
            <4> QED
                BY <3>1, <4>2, <4>4, <4>5 DEF Arrived
        <3>2. CASE /\ attempt'[r].cref \in Refs /\ Arrived(attempt'[r].cref)
                   /\ up'[attempt'[r].to] => device'[attempt'[r].to][attempt'[r].cref] \in {"open", "closed"}
            <4>1. PICK x \in Refs : x = attempt'[r].cref
                BY <3>2
            <4>2. Arrived(x)'
                BY <1>1, <3>2, <4>1 DEF Follows
            <4> QED
                BY <3>2, <4>1, <4>2 DEF Arrived
        <3> QED
            BY <3>1, <3>2 DEF Respects, AttemptsGoOn
    <2>2. ASSUME attempt'[r].pc \in Later PROVE attempt'[r].cref # NoRef
        BY <1>3, <2>2 DEF Respects, AttemptsGoOn, Invites, Joined
    <2> QED
        BY <2>1, <2>2 DEF Joined, Answered, Arrived, Later
<1>5. ASSUME NEW c \in Conns, NEW r \in Refs PROVE Heard(c, r)'
    <2>0. Heard(c, r)
        BY DEF Invites
    <2>1. ASSUME up'[c], Has(Due(c)', Oks, r) PROVE Answered(c, r)'
        <3>1. Has(Due(c), Oks, r) \/ device'[c][r] = "open"
            BY <2>1 DEF Respects, MessagesGoOn, Has
        <3>2. Has(Due(c), Oks, r) => Arrived(r)
            BY <1>1 DEF EdgeInv, Rule, Has, Oks
        <3>3. up[c]
            BY <2>1 DEF Respects
        <3> QED
            BY <1>2, <2>0, <2>1, <3>1, <3>2, <3>3 DEF Heard, Answered
    <2>2. ASSUME up'[c], ports'[c][r].state = "open", attempt'[r].to = c
          PROVE  Answered(c, r)'
        <3>1. CASE ports[c][r].state = "open"
            <4>1. attempt[r].to = c /\ Arrived(r)
                BY <1>1, <2>2, <3>1, OpenArrived DEF Follows
            <4>2. up[c]
                BY <2>2 DEF Respects
            <4> QED
                BY <1>2, <2>0, <2>2, <3>1, <4>1, <4>2 DEF Heard
        <3>2. CASE ports[c][r].state # "open"
            BY <2>2, <3>2 DEF Respects, PortsGoOn, Answered
        <3> QED
            BY <3>1, <3>2
    <2>3. ASSUME attempt'[r].from = c, r \in ports'[c][r].clients
          PROVE  attempt'[r].cref # NoRef
        <3>1. CASE r \in ports[c][r].clients
            <4>1. attempt[r].from = c
                BY <1>1, <2>3, <3>1, ClientOpened, FollowsUp
            <4> QED
                BY <1>3, <2>0, <3>1, <4>1 DEF Heard
        <3>2. CASE r \notin ports[c][r].clients
            BY <2>3, <3>2 DEF Respects, PortsGoOn
        <3> QED
            BY <3>1, <3>2
    <2>4. Has(Due(c), Oks, r)' <=> Has(Due(c)', Oks, r)
        BY DEF Has, Oks
    <2> QED
        BY <2>1, <2>2, <2>3, <2>4 DEF Heard, Answered
<1>6. ASSUME NEW p \in sent' PROVE Invited(p)'
    <2>1. Invited(p)
        BY DEF Respects, Invites
    <2>2. p[2] \in Refs /\ attempt[p[2]] # Unused
        BY <2>1 DEF Invited, Unused
    <2>3. attempt'[p[2]].pc # "idle" /\ attempt'[p[2]].to = attempt[p[2]].to
        BY <2>1, <2>2 DEF Invited, Respects, AttemptsGoOn
    <2> QED
        BY <1>3, <2>1, <2>2, <2>3 DEF Invited
<1> QED
    BY <1>4, <1>5, <1>6 DEF Invites

(* What does not change goes on.                                           *)
LEMMA Stands ==
    /\ UNCHANGED attempt => AttemptsGoOn
    /\ UNCHANGED ports => PortsGoOn
    /\ UNCHANGED device => DevicesGoOn
    /\ UNCHANGED sent => \A p \in sent' : p \in sent \/ Invited(p)
    /\ UNCHANGED up => \A c \in Conns : up'[c] => up[c]
<1>1. UNCHANGED attempt => AttemptsGoOn
    BY DEF AttemptsGoOn, Arrived
<1>2. UNCHANGED ports => PortsGoOn
    BY DEF PortsGoOn
<1>3. UNCHANGED device => DevicesGoOn
    BY DEF DevicesGoOn, Answered
<1> QED
    BY <1>1, <1>2, <1>3

LEMMA GoesOn ==
    ASSUME EdgeInv, NEW r \in Refs, NEW pc \in Progress, Goes(r, pc), pc # "idle",
           pc \in {"monitor", "call"} => ~Arrived(r),
           pc \in Later => attempt[r].pc \in Later
    PROVE  AttemptsGoOn
<1>1. /\ attempt'[r].pc = pc /\ attempt'[r].from = attempt[r].from /\ attempt'[r].to = attempt[r].to
      /\ attempt'[r].cref = attempt[r].cref
      /\ \A q \in Refs \ {r} : attempt'[q] = attempt[q]
    BY GoesTo
<1> QED
    BY <1>1 DEF AttemptsGoOn, Arrived

(* Messages are taken, or are of a kind that says nothing of an answer.     *)
LEMMA OldMessages ==
    ASSUME \A c \in Conns : Calls(c)' \subseteq Calls(c),
           \A c \in Conns : \A x \in Box(c)' : x \in Due(c) \/ x.op \notin {"portopen", "ok", "ok_call"}
    PROVE  MessagesGoOn
    BY DEF MessagesGoOn, Due, Oks

LEMMA Sends ==
    ASSUME EdgeInv, NEW c \in Conns, NEW op \in Ops, NEW r \in Refs, ToServer(c, Msg(op, r)),
           UNCHANGED jobs, op \in Oks => device'[c][r] = "open", op = "portopen" => ~Arrived(r)
    PROVE  MessagesGoOn
<1> DEFINE m == Msg(op, r)
           box == Append(inbox[c], m)
<1>1. m \in Messages /\ m.op = op /\ m.ref = r /\ inbox[c] \in Seq(Messages) /\ Held
    BY DEF Messages, Msg, EdgeInv, Held
<1> HIDE DEF m
<1>2. box \in Seq(Messages) /\ ToSet(box) = Box(c) \cup {m}
    BY <1>1, BoxAppend DEF Box
<1>3. inbox' = [inbox EXCEPT ![c] = box]
    BY DEF ToServer, m
<1> HIDE DEF box
<1>4. Box(c)' = Box(c) \cup {m} /\ \A d \in Conns \ {c} : Box(d)' = Box(d)
    BY <1>1, <1>2, <1>3, BoxSet
<1>5. \A d \in Conns : Calls(d)' = Calls(d)
    BY CallsSame
<1>6. ASSUME NEW d \in Conns, NEW x \in Due(d)', x \notin Due(d)
      PROVE  d = c /\ x = m
    BY <1>4, <1>5, <1>6 DEF Due
<1> QED
    BY <1>1, <1>6 DEF MessagesGoOn, Oks

LEMMA DeviceRespects ==
    ASSUME EdgeInv, NEW c \in Conns, NEW r \in Refs, Device(c, r)
    PROVE  Respects
<1>0. Held
    BY DEF EdgeInv
<1>1. ASSUME NEW d \in Conns, NEW f \in Rights[c], DeviceOpens(c, d, r, f)
      PROVE  Respects
    <2> DEFINE new == [pc |-> "monitor", from |-> c, to |-> d, rights |-> f, cref |-> NoRef]
               op == "monitor"
    <2>1. /\ attempt[r] = Unused /\ attempt' = [attempt EXCEPT ![r] = new] /\ ToServer(c, Msg(op, r))
          /\ UNCHANGED <<up, ports, jobs, device, sent>>
        BY <1>1 DEF DeviceOpens
    <2>2. op \in Ops /\ op \notin Oks /\ op # "portopen"
        BY DEF Ops, Oks
    <2>3. new.pc = "monitor" /\ new.cref = NoRef /\ attempt'[r] = new
          /\ \A q \in Refs \ {r} : attempt'[q] = attempt[q]
        BY <2>1, Types
    <2> HIDE DEF op, new
    <2>4. ~Arrived(r) /\ attempt[r].cref = NoRef /\ attempt[r].pc = "idle"
        BY <2>1 DEF Arrived, Unused
    <2>5. AttemptsGoOn
        BY <2>1, <2>3, <2>4 DEF AttemptsGoOn, Later, Arrived
    <2>6. MessagesGoOn
        BY <2>1, <2>2, Sends
    <2> QED
        BY <2>1, <2>5, <2>6, Stands DEF Respects
<1>2. ASSUME NEW op \in {"ok", "error", "portsend", "portclose"}, NEW s \in {"open", "closed"},
             ToServer(c, Msg(op, r)), device' = [device EXCEPT ![c][r] = s], op = "ok" => s = "open",
             UNCHANGED <<up, ports, jobs, attempt, sent>>
      PROVE  Respects
    <2>1. op \in Ops /\ op # "portopen" /\ (op \in Oks => op = "ok")
        BY DEF Ops, Oks
    <2>2. device'[c][r] = s /\ \A d \in Conns, q \in Refs : d # c \/ q # r => device'[d][q] = device[d][q]
        BY <1>0, <1>2 DEF Held
    <2>3. MessagesGoOn
        BY <1>2, <2>1, <2>2, Sends
    <2>4. DevicesGoOn
        BY <2>2 DEF DevicesGoOn, Answered
    <2> QED
        BY <1>2, <2>3, <2>4, Stands DEF Respects
<1>3. CASE DeviceAccepts(c, r)
    BY <1>2, <1>3 DEF DeviceAccepts
<1>4. CASE DeviceRefuses(c, r)
    BY <1>2, <1>4 DEF DeviceRefuses
<1>5. CASE DeviceSends(c, r)
    <2>1. device' = [device EXCEPT ![c][r] = "open"]
        BY <1>0, <1>5 DEF DeviceSends, Held
    <2> QED
        BY <1>2, <1>5, <2>1 DEF DeviceSends
<1>6. CASE DeviceCloses(c, r)
    BY <1>2, <1>6 DEF DeviceCloses
<1> QED
    BY <1>1, <1>3, <1>4, <1>5, <1>6 DEF Device

(* The task of r sends a message for it.                                    *)
SendsFor(r) ==
    \E t \in Conns, op \in Ops \ Oks :
        ToServer(t, Msg(op, r)) /\ (op = "portopen" => ~Arrived(r))

LEMMA TaskRespects ==
    ASSUME EdgeInv, NEW r \in Refs, Task(r) \/ CallTimesOut(r)
    PROVE  Respects
<1>1. ASSUME NEW pc \in Progress, Goes(r, pc), pc # "idle",
             pc \notin {"monitor", "call"}, pc \in Later => attempt[r].pc \in Later,
             UNCHANGED <<up, ports, jobs, device, sent>>,
             UNCHANGED inbox \/ SendsFor(r)
      PROVE  Respects
    <2>1. AttemptsGoOn
        BY <1>1, GoesOn
    <2>2. MessagesGoOn
        <3>1. CASE UNCHANGED inbox
            <4>1. \A c \in Conns : Due(c)' = Due(c)
                BY <1>1, <3>1 DEF Due, Box, Calls
            <4> QED
                BY <4>1 DEF MessagesGoOn
        <3>2. CASE SendsFor(r)
            <4>1. PICK t \in Conns, op \in Ops \ Oks :
                      ToServer(t, Msg(op, r)) /\ (op = "portopen" => ~Arrived(r))
                BY <3>2 DEF SendsFor
            <4> QED
                BY <1>1, <4>1, Sends
        <3> QED
            BY <1>1, <3>1, <3>2
    <2> QED
        BY <1>1, <2>1, <2>2, Stands DEF Respects
<1>2. CASE CallPeer(r)
    <2>1. attempt[r].pc = "call" /\ UNCHANGED <<up, ports, jobs, device, sent>>
        BY <1>2 DEF CallPeer, At
    <2>2. ~Arrived(r) /\ attempt[r].to \in Conns
        BY <2>1 DEF Arrived, EdgeInv, Stage
    <2>3. CASE up[attempt[r].to]
        <3>1. PICK pc \in {"wait", "dead"} : Goes(r, pc) /\ ToServer(attempt[r].to, Msg("portopen", r))
            BY <1>2, <2>3 DEF CallPeer
        <3>2. pc \in Progress /\ pc \notin Later /\ "portopen" \in Ops \ Oks
            BY DEF Progress, Later, Ops, Oks
        <3>3. SendsFor(r)
            BY <2>2, <3>1, <3>2 DEF SendsFor
        <3> QED
            BY <1>1, <2>1, <3>1, <3>2, <3>3
    <2>4. CASE ~up[attempt[r].to]
        <3>1. Goes(r, "failed") /\ UNCHANGED inbox
            BY <1>2, <2>4 DEF CallPeer
        <3> QED
            BY <1>1, <2>1, <3>1 DEF Progress, Later
    <2> QED
        BY <2>3, <2>4
<1>3. CASE CallExits(r) \/ CallTimesOut(r)
    <2>1. PICK pc \in {"failed", "late"} : Goes(r, pc) /\ UNCHANGED <<up, inbox, ports, jobs, device, sent>>
        BY <1>3 DEF CallExits, CallTimesOut
    <2> QED
        BY <1>1, <2>1 DEF Progress, Later
<1>4. CASE CallSelf(r) \/ Respond(r)
    <2>1. PICK pc \in {"put", "done"}, op \in {"put", "answer"} :
              /\ Goes(r, pc) /\ ToServer(Opener(r), Msg(op, r)) /\ attempt[r].pc \in {"replied", "respond"}
              /\ UNCHANGED <<up, ports, jobs, device, sent>>
        BY <1>4 DEF CallSelf, Respond, At
    <2>2. Opener(r) \in Conns
        BY <2>1 DEF EdgeInv, Stage, Opener
    <2>3. op \in Ops \ Oks /\ op # "portopen" /\ pc \in Progress /\ attempt[r].pc \in Later
        BY <2>1 DEF Ops, Oks, Progress, Later
    <2>4. SendsFor(r)
        BY <2>1, <2>2, <2>3 DEF SendsFor
    <2> QED
        BY <1>1, <2>1, <2>3, <2>4
<1> QED
    BY <1>2, <1>3, <1>4 DEF Task

LEMMA CallBackRespects ==
    ASSUME EdgeInv, NEW j \in jobs, CallBack(j)
    PROVE  Respects
<1> DEFINE c == j.conn
           m == j.msg
           box == Append(inbox[c], m)
<1>1. Held /\ c \in Conns /\ m \in Messages /\ m \in Calls(c)
    BY DEF EdgeInv, Held, Jobs, Messages, Ops, Calls
<1>2. inbox' = [inbox EXCEPT ![c] = box] /\ jobs' = jobs \ {j}
      /\ UNCHANGED <<up, ports, attempt, device, sent>>
    BY DEF CallBack, ToServer
<1> HIDE DEF c, m
<1>3. box \in Seq(Messages) /\ ToSet(box) = Box(c) \cup {m}
    <2>1. inbox[c] \in Seq(Messages)
        BY <1>1 DEF Held
    <2> QED
        BY <1>1, <2>1, BoxAppend DEF Box
<1> HIDE DEF box
<1>4. Box(c)' = Box(c) \cup {m} /\ \A d \in Conns \ {c} : Box(d)' = Box(d)
    BY <1>1, <1>2, <1>3, BoxSet
<1>5. \A d \in Conns : Calls(d)' \subseteq Calls(d)
    BY <1>2 DEF Calls
<1>6. \A d \in Conns : \A x \in Box(d)' : x \in Due(d)
    BY <1>1, <1>4 DEF Due
<1>7. MessagesGoOn
    BY <1>5, <1>6, OldMessages
<1> QED
    BY <1>2, <1>7, Stands DEF Respects

(* The mailboxes of the others get messages that a process is down or a     *)
(* port closed, or are emptied.                                            *)
LEMMA LossRespects ==
    ASSUME EdgeInv, NEW c \in Conns, NEW left, Down(c, left)
    PROVE  Respects
<1>1. /\ up' = [up EXCEPT ![c] = FALSE]
      /\ inbox' = [d \in Conns |-> IF d = c THEN <<>>
                                   ELSE IF up[d] THEN inbox[d] \o Downs(Fired(c, d)) ELSE <<>>]
      /\ ports' = [ports EXCEPT ![c] = NoPorts]
      /\ jobs' = {j \in jobs : j.conn # c}
      /\ device' = [device EXCEPT ![c] = Unknown]
      /\ UNCHANGED sent
    BY DEF Down
<1>2. ~up'[c] /\ \A d \in Conns : (up'[d] => up[d]) /\ (d # c => device'[d] = device[d])
    BY <1>1 DEF EdgeInv, Held
<1>3. AttemptsGoOn
    <2>1. ASSUME NEW q \in Refs
          PROVE  /\ attempt'[q].from = attempt[q].from /\ attempt'[q].to = attempt[q].to
                 /\ attempt'[q].cref = attempt[q].cref
                 /\ attempt'[q] = attempt[q] \/ attempt'[q].pc = "dead"
        <3> DEFINE a == attempt[q]
                   dead == [a EXCEPT !.pc = "dead"]
        <3>1. attempt'[q] = IF a.from = c /\ a.pc \notin left THEN dead ELSE a
            BY DEF Down
        <3>2. dead.pc = "dead" /\ dead.from = a.from /\ dead.to = a.to /\ dead.cref = a.cref
            BY Types DEF Attempt
        <3> HIDE DEF dead
        <3> QED
            BY <3>1, <3>2
    <2> QED
        BY <2>1 DEF AttemptsGoOn, Later, Arrived
<1>4. MessagesGoOn
    <2>1. ASSUME NEW d \in Conns, NEW x \in Box(d)' PROVE x \in Due(d) \/ x.op = "DOWN"
        <3>1. inbox[d] \in Seq(Messages) /\ Fired(c, d) \in SUBSET Refs
            BY DEF EdgeInv, Held, Fired
        <3> DEFINE t == Downs(Fired(c, d))
        <3>2. t \in Seq(Messages) /\ ToSet(t) = {Msg("DOWN", m) : m \in Fired(c, d)}
            BY <3>1, BoxDowns
        <3>3. inbox'[d] = <<>> \/ inbox'[d] = inbox[d] \o t
            BY <1>1
        <3> HIDE DEF t
        <3>4. CASE inbox'[d] = <<>>
            <4>1. Box(d)' = {}
                BY <3>4 DEF Box, ToSet
            <4> QED
                BY <2>1, <4>1
        <3>5. CASE inbox'[d] = inbox[d] \o t
            <4>1. Box(d)' = Box(d) \cup ToSet(t)
                BY <3>1, <3>2, <3>5, BoxConcat DEF Box
            <4> QED
                BY <2>1, <3>2, <4>1 DEF Due, Msg
        <3> QED
            BY <3>3, <3>4, <3>5
    <2>2. \A d \in Conns : Calls(d)' \subseteq Calls(d)
        BY <1>1 DEF Calls
    <2> QED
        BY <2>1, <2>2, OldMessages
<1>5. PortsGoOn
    <2>1. \A d \in Conns, r \in Refs :
              \/ ports'[d][r] = ports[d][r]
              \/ ports'[d][r].state = "none" /\ ports'[d][r].clients = {}
        BY <1>1, Types DEF NoPorts, NoPort
    <2> QED
        BY <2>1 DEF PortsGoOn
<1>6. DevicesGoOn
    BY <1>2 DEF DevicesGoOn, Answered
<1> QED
    BY <1>1, <1>2, <1>3, <1>4, <1>5, <1>6 DEF Respects

(* A server takes a message, and those of Oks only to hand them to a task.  *)
LEMMA TakesMessages ==
    ASSUME EdgeInv, NEW c \in Conns, NEW op, NEW r, Handles(c, op, r), Drop(c), UNCHANGED jobs
    PROVE  MessagesGoOn
<1>1. \A d \in Conns : Box(d)' \subseteq Box(d)
    BY Dropped
<1>2. \A d \in Conns : Calls(d)' = Calls(d)
    BY CallsSame
<1> QED
    BY <1>1, <1>2, OldMessages DEF Due

LEMMA SpawnMessages ==
    ASSUME EdgeInv, NEW c \in Conns, NEW op, NEW r, Handles(c, op, r), Drop(c),
           NEW m \in [op : {"ok_call", "close_call"}, ref : Refs, clients : SUBSET Refs], Spawn(c, m),
           m.op = "ok_call" => op = "ok" /\ m.ref = r
    PROVE  MessagesGoOn
<1>1. up[c] /\ Head(inbox[c]) \in Due(c) /\ Head(inbox[c]).op = op /\ Head(inbox[c]).ref = r
    BY Headed
<1>2. Calls(c)' = Calls(c) \cup {m} /\ \A d \in Conns \ {c} : Calls(d)' = Calls(d)
    BY <1>1, Spawned
<1>3. \A d \in Conns : Box(d)' \subseteq Box(d)
    BY Dropped
<1>4. \A d \in Conns : \A x \in Due(d)' : x \in Due(d) \/ (d = c /\ x = m)
    BY <1>2, <1>3 DEF Due
<1>5. m.op # "portopen" /\ (m.op \in Oks => Has(Due(c), Oks, m.ref))
    BY <1>1 DEF Oks, Has
<1> QED
    BY <1>4, <1>5 DEF MessagesGoOn

LEMMA MonitorMessages ==
    ASSUME EdgeInv, NEW c \in Conns, NEW r \in Refs, NEW op \in {"monitor", "portopen"},
           Handles(c, op, r), Monitored(c, r), UNCHANGED jobs
    PROVE  MessagesGoOn
<1>1. /\ \A d \in Conns : d # c => Box(d)' = Box(d)
      /\ \A x \in Box(c)' : x \in Box(c) \/ x = Msg("DOWN", r)
    BY MonitoredStep DEF Monitoring
<1>2. Msg("DOWN", r).op = "DOWN"
    BY DEF Msg
<1>3. \A d \in Conns : Calls(d)' = Calls(d)
    BY CallsSame
<1> QED
    BY <1>1, <1>2, <1>3, OldMessages DEF Due

(* A port gets an opener with a reference, or loses clients.                *)
Grows(c, r, p) ==
    /\ p.state = "open" =>
          ports[c][r].state = "open" \/ attempt'[r].to # c \/ device'[c][r] \in {"open", "closed"}
    /\ r \in p.clients =>
          r \in ports[c][r].clients \/ attempt'[r].from # c \/ attempt'[r].cref # NoRef

LEMMA PortsFrom ==
    ASSUME EdgeInv, NEW c \in Conns, NEW r \in Refs, NEW p, ports' = [ports EXCEPT ![c][r] = p],
           Grows(c, r, p)
    PROVE  PortsGoOn
<1>1. ports[c] \in [Refs -> [state : {"none", "pre_open", "open"}, clients : SUBSET Refs]]
      /\ DOMAIN ports = Conns
    BY Types
<1>2. ports'[c][r] = p /\ \A q \in Refs \ {r} : ports'[c][q] = ports[c][q]
    BY <1>1
<1>3. \A d \in Conns \ {c} : ports'[d] = ports[d]
    BY <1>1
<1> QED
    BY <1>2, <1>3 DEF PortsGoOn, Grows

LEMMA RemoveRespects ==
    ASSUME EdgeInv, NEW c \in Conns, NEW op, NEW y, Handles(c, op, y),
           NEW r \in Refs, NEW m \in ports[c][r].clients, RemoveClient(c, r, m),
           UNCHANGED <<up, jobs, attempt, sent>>
    PROVE  Respects
<1> DEFINE ms == {m}
           p == [ports[c][r] EXCEPT !.clients = @ \ ms]
           p2 == IF ports[c][r].clients = ms THEN NoPort ELSE p
<1>1. m \in Refs
    BY Types
<1>2. /\ inbox' = [inbox EXCEPT ![c] = Flush(Rest(c), ms)]
      /\ ports' = [ports EXCEPT ![c][r] = p2]
      /\ device' = [device EXCEPT ![c][r] = "closed"] \/ UNCHANGED device
    BY DEF RemoveClient
<1>3. /\ p2.state = "open" => ports[c][r].state = "open"
      /\ p2.clients \subseteq ports[c][r].clients
    BY Types DEF NoPort
<1>4. ms \in SUBSET Refs
    BY <1>1
<1> HIDE DEF ms, p2
<1>5. MessagesGoOn
    <2>1. \A d \in Conns : Box(d)' \subseteq Box(d)
        BY <1>2, <1>4, FlushSet DEF Took
    <2>2. \A d \in Conns : Calls(d)' = Calls(d)
        BY CallsSame
    <2> QED
        BY <2>1, <2>2, OldMessages DEF Due
<1>6. PortsGoOn
    BY <1>2, <1>3, PortsFrom DEF Grows
<1>7. DevicesGoOn
    <2>1. CASE device' = [device EXCEPT ![c][r] = "closed"]
        BY <2>1 DEF EdgeInv, Held, DevicesGoOn, Answered
    <2> QED
        BY <1>2, <2>1, Stands
<1> QED
    BY <1>5, <1>6, <1>7, Stands DEF Respects

LEMMA CloseRespects ==
    ASSUME EdgeInv, NEW c \in Conns, NEW r \in Refs,
           HandleCloseCall(c, r) \/ HandleCloseCast(c, r) \/ HandleDown(c, r)
    PROVE  Respects
<1>1. CASE HandleCloseCall(c, r)
    <2> DEFINE h == Head(inbox[c])
               S == h.clients
               cast == Msg("close_cast", r)
               told(d) == [i \in 1 .. Cardinality({m \in S : Peer(c, m) = d}) |-> cast]
    <2>1. /\ Handles(c, "close_call", r)
          /\ inbox' = [d \in Conns |-> IF d = c THEN Flush(Rest(c), S)
                                       ELSE IF up[d] THEN inbox[d] \o told(d) ELSE <<>>]
          /\ ports' = [ports EXCEPT ![c][r] = NoPort]
          /\ UNCHANGED <<up, jobs, attempt, device, sent>>
        BY <1>1 DEF HandleCloseCall
    <2>2. /\ h \in Messages /\ Rest(c) \in Seq(Messages) /\ Box(c) = ToSet(Rest(c)) \cup {h}
        BY <2>1, Headed
    <2>3. S \in SUBSET Refs /\ cast \in Messages /\ cast.op = "close_cast"
        BY <2>2 DEF Messages, Msg, Ops
    <2> HIDE DEF h, S, cast
    <2>4. ASSUME NEW d \in Conns, NEW x \in Box(d)'
          PROVE  x \in Box(d) \/ x = cast
        <3>1. inbox[d] \in Seq(Messages)
            BY DEF EdgeInv, Held
        <3>2. told(d) \in Seq(Messages) /\ ToSet(told(d)) \subseteq {cast}
            <4>1. {m \in S : Peer(c, m) = d} \in SUBSET Refs
                BY <2>3
            <4> QED
                BY <2>3, <4>1, BoxCopies
        <3> HIDE DEF told
        <3>3. CASE d = c
            <4>1. Box(d)' = ToSet(Flush(Rest(c), S))
                BY <2>1, <3>3 DEF Box
            <4>2. ToSet(Flush(Rest(c), S)) \subseteq ToSet(Rest(c))
                BY <2>2, <2>3, BoxFlush
            <4> QED
                BY <2>2, <2>4, <3>3, <4>1, <4>2
        <3>4. CASE d # c /\ up[d]
            <4>1. inbox'[d] = inbox[d] \o told(d)
                BY <2>1, <3>4
            <4>2. Box(d)' = Box(d) \cup ToSet(told(d))
                BY <3>1, <3>2, <4>1, BoxConcat DEF Box
            <4> QED
                BY <2>4, <3>2, <4>2
        <3>5. CASE d # c /\ ~up[d]
            <4>1. inbox'[d] = <<>>
                BY <2>1, <3>5
            <4> QED
                BY <2>4, <4>1 DEF Box, ToSet
        <3> QED
            BY <3>3, <3>4, <3>5
    <2>5. \A d \in Conns : Calls(d)' = Calls(d)
        BY <2>1, CallsSame
    <2>6. MessagesGoOn
        BY <2>3, <2>4, <2>5, OldMessages DEF Due
    <2>7. NoPort.state = "none" /\ NoPort.clients = {}
        BY DEF NoPort
    <2>8. PortsGoOn
        BY <2>1, <2>7, PortsFrom DEF Grows
    <2> QED
        BY <2>1, <2>6, <2>8, Stands DEF Respects
<1>2. ASSUME NEW op, Handles(c, op, r), Drop(c), UNCHANGED <<up, ports, jobs, attempt, device, sent>>
      PROVE  Respects
    BY <1>2, TakesMessages, Stands DEF Respects
<1>3. CASE HandleCloseCast(c, r)
    <2> DEFINE found == {p \in Refs \X Refs : p[2] \in ports[c][p[1]].clients /\ ClientRef(c, p[2]) = r}
    <2>1. /\ Handles(c, "close_cast", r) /\ UNCHANGED <<up, jobs, attempt, sent>>
          /\ \/ Drop(c) /\ UNCHANGED <<ports, monitors, device>>
             \/ \E p \in found : RemoveClient(c, p[1], p[2])
        BY <1>3 DEF HandleCloseCast
    <2>2. ASSUME NEW p \in found, RemoveClient(c, p[1], p[2]) PROVE Respects
        <3>1. p[1] \in Refs /\ p[2] \in ports[c][p[1]].clients
            OBVIOUS
        <3> QED
            BY <2>1, <2>2, <3>1, RemoveRespects
    <2> HIDE DEF found
    <2> QED
        BY <1>2, <2>1, <2>2
<1>4. CASE HandleDown(c, r)
    <2>1. /\ Handles(c, "DOWN", r) /\ UNCHANGED <<up, jobs, attempt, sent>>
          /\ \/ Drop(c) /\ UNCHANGED <<ports, monitors, device>>
             \/ \E q \in Refs : r \in ports[c][q].clients /\ RemoveClient(c, q, r)
        BY <1>4 DEF HandleDown
    <2> QED
        BY <1>2, <2>1, RemoveRespects
<1> QED
    BY <1>1, <1>3, <1>4

(* Data is sent to clients that hold the reference it is sent with, or that *)
(* are at the opener.                                                      *)
LEMMA PortsendRespects ==
    ASSUME Invites, NEW c \in Conns, NEW r \in Refs, HandlePortsend(c, r)
    PROVE  Respects
<1>1. /\ Handles(c, "portsend", r) /\ Drop(c) /\ EdgeInv
      /\ UNCHANGED <<up, ports, jobs, attempt, device>>
      /\ sent' = sent \cup {<<Peer(c, m), m>> : m \in {n \in ports[c][r].clients : MayWrite(c, n)}}
    BY DEF HandlePortsend, Invites
<1>2. ASSUME NEW m \in ports[c][r].clients PROVE Invited(<<Peer(c, m), m>>)
    <2>1. /\ m \in Refs /\ Belongs(c, r, m) /\ attempt[m].pc # "idle"
          /\ attempt[m].from # attempt[m].to
        BY <1>1, ClientOpened, Opened
    <2>2. CASE attempt[m].from = c
        <3>1. m = r
            BY <2>1, <2>2 DEF Belongs
        <3>2. attempt[m].cref # NoRef
            BY <2>1, <2>2, <3>1 DEF Invites, Heard
        <3> QED
            BY <2>1, <3>2 DEF Invited
    <2>3. CASE attempt[m].from # c
        <3>1. Peer(c, m) = attempt[m].from
            BY <2>3 DEF Peer, IsOpener
        <3> QED
            BY <2>1, <3>1 DEF Invited
    <2> QED
        BY <2>2, <2>3
<1>3. \A p \in sent' : p \in sent \/ Invited(p)
    BY <1>1, <1>2
<1> QED
    BY <1>1, <1>3, TakesMessages, Stands DEF Respects

LEMMA HandlePortopenRespects ==
    ASSUME Invites, NEW c \in Conns, NEW r \in Refs, HandlePortopen(c, r)
    PROVE  Respects
<1> DEFINE op == "portopen"
<1>1. /\ Handles(c, op, r) /\ Monitored(c, r) /\ EdgeInv /\ op \in {"monitor", "portopen"}
      /\ UNCHANGED <<up, jobs, sent>>
    BY DEF HandlePortopen, Invites
<1>2. Rule(c, Head(inbox[c])) /\ Head(inbox[c]).op = op /\ Head(inbox[c]).ref = r
      /\ Head(inbox[c]) \in Box(c) /\ up[c]
    BY <1>1, Headed
<1>3. attempt[r].to = c /\ ~Arrived(r) /\ attempt[r].from # c
    <2>1. attempt[r].to = c /\ ~Arrived(r)
        BY <1>2 DEF Rule, Arrived, Has
    <2> QED
        BY <1>1, <2>1, Opened
<1>4. MessagesGoOn
    BY <1>1, MonitorMessages
<1> HIDE DEF op
<1>5. CASE SharedPorts(c, r) = {}
    <2> DEFINE p == [state |-> "pre_open", clients |-> {r}]
    <2>1. /\ ports' = [ports EXCEPT ![c][r] = p] /\ device' = [device EXCEPT ![c][r] = "asked"]
          /\ UNCHANGED attempt
        BY <1>5 DEF HandlePortopen
    <2>2. p.state # "open" /\ attempt'[r].from # c
        BY <1>3, <2>1
    <2> HIDE DEF p
    <2>3. PortsGoOn
        BY <1>1, <2>1, <2>2, PortsFrom DEF Grows
    <2>4. \A d \in Conns, q \in Refs : d # c \/ q # r => device'[d][q] = device[d][q]
        BY <1>1, <2>1 DEF EdgeInv, Held
    <2>5. DevicesGoOn
        BY <1>3, <2>4 DEF DevicesGoOn, Answered
    <2> QED
        BY <1>1, <1>4, <2>1, <2>3, <2>5, Stands DEF Respects
<1>6. CASE SharedPorts(c, r) # {}
    <2>1. PICK x \in SharedPorts(c, r) : /\ ports' = [ports EXCEPT ![c][x].clients = @ \cup {r}]
                                        /\ Replied(r, x) /\ UNCHANGED device
        BY <1>6 DEF HandlePortopen
    <2>2. x \in Refs /\ ports[c][x].state = "open"
        BY DEF SharedPorts
    <2> DEFINE p == [ports[c][x] EXCEPT !.clients = @ \cup {r}]
    <2>3. ports' = [ports EXCEPT ![c][x] = p]
        BY <2>1
    <2>4. p.clients = ports[c][x].clients \cup {r} /\ p.state = "open"
        BY <1>1, <2>2, Types
    <2> HIDE DEF p
    <2>5. attempt[x].to = c /\ Arrived(x) /\ Answered(c, x)
        <3>1. PICK m \in ports[c][x].clients : attempt[m].from # c
            BY DEF SharedPorts, Shared, IsOpener
        <3>2. attempt[x].to = c /\ Arrived(x)
            BY <1>1, <2>2, <3>1, ClientOpened DEF Belongs
        <3> QED
            BY <1>2, <2>2, <3>2 DEF Invites, Heard
    <2>6. /\ \A q \in Refs \ {r} : attempt'[q] = attempt[q]
          /\ attempt'[r].from = attempt[r].from /\ attempt'[r].to = c
          /\ \/ attempt[r].pc = "wait" /\ attempt'[r].pc = "replied" /\ attempt'[r].cref = x
             \/ attempt'[r] = attempt[r]
        BY <1>1, <1>3, <2>1, <2>2, RepliedTo
    <2>7. AttemptsGoOn
        BY <1>3, <2>1, <2>2, <2>5, <2>6, EdgePortsAssumption DEF AttemptsGoOn, Arrived, Answered
    <2>8. x # r
        BY <1>3, <2>5
    <2>9. PortsGoOn
        BY <1>1, <2>2, <2>3, <2>4, <2>8, PortsFrom DEF Grows
    <2> QED
        BY <1>1, <1>4, <2>1, <2>7, <2>9, Stands DEF Respects
<1> QED
    BY <1>5, <1>6

LEMMA ServeRespects ==
    ASSUME Invites, NEW c \in Conns, Serve(c)
    PROVE  Respects
<1>0. EdgeInv /\ Held
    BY DEF Invites, EdgeInv
<1>1. PICK r \in Refs :
        \/ HandleMonitor(c, r) \/ HandlePortopen(c, r) \/ HandlePut(c, r) \/ HandleAnswer(c, r)
        \/ HandleOk(c, r) \/ HandleOkCall(c, r) \/ HandleError(c, r) \/ HandleDeviceClose(c, r)
        \/ HandleCloseCall(c, r) \/ HandleCloseCast(c, r) \/ HandleDown(c, r)
        \/ HandlePortsend(c, r) \/ HandlerCrashes(c, r)
    BY DEF Serve
<1>2. CASE HandleMonitor(c, r)
    <2>1. /\ Handles(c, "monitor", r) /\ Monitored(c, r) /\ Goes(r, "call")
          /\ UNCHANGED <<up, ports, jobs, device, sent>>
        BY <1>2 DEF HandleMonitor
    <2>2. ~Arrived(r)
        <3> DEFINE h == Head(inbox[c])
        <3>1. h.op = "monitor" /\ h.ref = r /\ Rule(c, h)
            BY <1>0, <2>1, Headed
        <3> HIDE DEF h
        <3> QED
            BY <3>1 DEF Rule, Arrived
    <2>3. MessagesGoOn
        BY <1>0, <2>1, MonitorMessages
    <2>4. AttemptsGoOn
        BY <1>0, <2>1, <2>2, GoesOn DEF Progress, Later
    <2> QED
        BY <2>1, <2>3, <2>4, Stands DEF Respects
<1>3. CASE HandlePut(c, r)
    <2> DEFINE p == [state |-> "open", clients |-> {r}]
    <2>1. /\ Handles(c, "put", r) /\ Drop(c) /\ Goes(r, "respond") /\ ports' = [ports EXCEPT ![c][r] = p]
          /\ UNCHANGED <<up, jobs, device, sent>>
        BY <1>3 DEF HandlePut
    <2> HIDE DEF p
    <2>2. attempt[r].from = c /\ attempt[r].pc \in Later
        <3> DEFINE h == Head(inbox[c])
        <3>1. h.op = "put" /\ h.ref = r /\ Rule(c, h)
            BY <1>0, <2>1, Headed
        <3> HIDE DEF h
        <3> QED
            BY <3>1 DEF Rule, Later
    <2>3. attempt[r].cref # NoRef /\ attempt[r].to # c
        BY <1>0, <2>2, Opened DEF Invites, Joined
    <2>4. attempt'[r].to = attempt[r].to /\ attempt'[r].cref = attempt[r].cref
        BY <1>0, <2>1, GoesTo
    <2>5. AttemptsGoOn
        BY <1>0, <2>1, <2>2, GoesOn DEF Progress
    <2>6. PortsGoOn
        BY <1>0, <2>1, <2>3, <2>4, PortsFrom DEF Grows
    <2>7. MessagesGoOn
        BY <1>0, <2>1, TakesMessages
    <2> QED
        BY <2>1, <2>5, <2>6, <2>7, Stands DEF Respects
<1>4. CASE HandleAnswer(c, r)
    <2>1. /\ Handles(c, "answer", r) /\ Drop(c) /\ device' = [device EXCEPT ![c][r] = "open"]
          /\ UNCHANGED <<up, ports, jobs, attempt, sent>>
        BY <1>4 DEF HandleAnswer
    <2>2. DevicesGoOn
        BY <1>0, <2>1 DEF Held, DevicesGoOn, Answered
    <2> QED
        BY <1>0, <2>1, <2>2, TakesMessages, Stands DEF Respects
<1>5. CASE HandleOk(c, r)
    <2> DEFINE m == Msg("ok_call", r)
    <2>1. /\ Handles(c, "ok", r) /\ Drop(c) /\ Spawn(c, m)
          /\ UNCHANGED <<up, ports, attempt, device, sent>>
        BY <1>5 DEF HandleOk
    <2>2. m \in [op : {"ok_call", "close_call"}, ref : Refs, clients : SUBSET Refs] /\ m.ref = r
        BY DEF Msg
    <2> HIDE DEF m
    <2>3. MessagesGoOn
        BY <1>0, <2>1, <2>2, SpawnMessages
    <2> QED
        BY <2>1, <2>3, Stands DEF Respects
<1>6. CASE HandleOkCall(c, r)
    <2> DEFINE p == [ports[c][r] EXCEPT !.state = "open"]
    <2>1. /\ Handles(c, "ok_call", r) /\ Drop(c) /\ Replied(r, r) /\ ports' = [ports EXCEPT ![c][r] = p]
          /\ UNCHANGED <<up, jobs, device, sent>>
        BY <1>6 DEF HandleOkCall
    <2>2. p.clients = ports[c][r].clients
        BY <1>0, Types
    <2> HIDE DEF p
    <2>3. up[c] /\ Arrived(r) /\ attempt[r].to = c /\ Has(Due(c), Oks, r)
        BY <1>0, <2>1, Headed DEF Rule, Has, Oks
    <2>4. Answered(c, r)
        BY <2>3 DEF Invites, Heard
    <2>5. /\ \A q \in Refs \ {r} : attempt'[q] = attempt[q]
          /\ attempt'[r].from = attempt[r].from /\ attempt'[r].to = c
          /\ \/ attempt[r].pc = "wait" /\ attempt'[r].pc = "replied" /\ attempt'[r].cref = r
             \/ attempt'[r] = attempt[r]
        BY <1>0, <2>1, <2>3, RepliedTo
    <2>6. AttemptsGoOn
        BY <2>1, <2>3, <2>4, <2>5, EdgePortsAssumption DEF AttemptsGoOn, Arrived, Answered
    <2>7. PortsGoOn
        BY <1>0, <2>1, <2>2, <2>4, PortsFrom DEF Grows, Answered
    <2>8. MessagesGoOn
        BY <1>0, <2>1, TakesMessages
    <2> QED
        BY <2>1, <2>6, <2>7, <2>8, Stands DEF Respects
<1>7. CASE HandleError(c, r) \/ HandleDeviceClose(c, r)
    <2> DEFINE m == CloseMsg(r, ports[c][r].clients)
    <2>1. PICK op : /\ Handles(c, op, r) /\ Drop(c) /\ (Spawn(c, m) \/ UNCHANGED jobs)
                    /\ Goes(r, "failed") \/ UNCHANGED attempt
                    /\ UNCHANGED <<up, ports, device, sent>>
        BY <1>7 DEF HandleError, HandleDeviceClose
    <2>2. /\ m \in [op : {"ok_call", "close_call"}, ref : Refs, clients : SUBSET Refs]
          /\ m.op = "close_call"
        BY <1>0, Types DEF CloseMsg
    <2> HIDE DEF m
    <2>3. MessagesGoOn
        BY <1>0, <2>1, <2>2, SpawnMessages, TakesMessages
    <2>4. AttemptsGoOn
        BY <1>0, <2>1, GoesOn, Stands DEF Progress, Later
    <2> QED
        BY <2>1, <2>3, <2>4, Stands DEF Respects
<1>8. CASE HandlerCrashes(c, r)
    BY <1>0, <1>8, LossRespects DEF HandlerCrashes
<1> QED
    BY <1>0, <1>1, <1>2, <1>3, <1>4, <1>5, <1>6, <1>7, <1>8,
       HandlePortopenRespects, CloseRespects, PortsendRespects

LEMMA InvitesInit == Init => Invites
<1> SUFFICES ASSUME Init PROVE Invites
    OBVIOUS
<1>1. \A r \in Refs : attempt[r].pc = "idle" /\ attempt[r].cref = NoRef /\ attempt[r].from = NoConn
    BY DEF Init, Unused
<1>2. \A r \in Refs : Joined(r)
    BY <1>1 DEF Joined, Later
<1>3. ASSUME NEW c \in Conns, NEW r \in Refs PROVE Heard(c, r)
    <2>1. Due(c) = {} /\ ports[c][r].state = "none" /\ ports[c][r].clients = {}
        BY DEF Init, Due, Box, ToSet, Calls, NoPorts, NoPort
    <2> QED
        BY <2>1 DEF Heard, Has
<1> QED
    BY <1>2, <1>3, EdgeInit DEF Init, Invites

LEMMA InvitesStep == Invites /\ [Next]_vars => Invites'
<1> SUFFICES ASSUME Invites, [Next]_vars PROVE Invites'
    OBVIOUS
<1>1. EdgeInv /\ EdgeInv'
    BY EdgeStep DEF Invites
<1>2. ASSUME NEW c \in Conns, Lose(c) PROVE Respects
    BY <1>1, <1>2, LossRespects DEF Lose
<1>3. CASE UNCHANGED vars
    <2>1. UNCHANGED <<up, inbox, ports, jobs, attempt, device, sent>>
        BY <1>3 DEF vars
    <2>2. \A c \in Conns : Due(c)' = Due(c)
        BY <2>1 DEF Due, Box, Calls
    <2>3. MessagesGoOn
        BY <2>2 DEF MessagesGoOn
    <2>4. Respects
        BY <2>1, <2>3, Stands DEF Respects
    <2> QED
        BY <1>1, <2>4, InvitesKept
<1>4. CASE Next
    <2>1. Respects
        BY <1>1, <1>2, <1>4, DeviceRespects, TaskRespects, CallBackRespects, ServeRespects DEF Next
    <2> QED
        BY <1>1, <2>1, InvitesKept
<1> QED
    BY <1>3, <1>4

(* No device gets data on a port before it has answered the open request    *)
(* for it: the ok of the device, the call of the task that hears it, the    *)
(* reply, and the put of the opener come before the first data, also when   *)
(* the opener joins a port that another attempt had asked for.              *)
THEOREM DataAwaitsTheAnswer == Spec => []DataIsInvited
<1>1. Invites => DataIsInvited
    <2> SUFFICES ASSUME Invites, NEW p \in sent, up[p[1]], p[1] = attempt[p[2]].to
                 PROVE  device[p[1]][attempt[p[2]].cref] \in {"open", "closed"}
        BY DEF DataIsInvited
    <2>1. p[2] \in Refs /\ attempt[p[2]].cref # NoRef
        BY DEF Invites, Invited
    <2> QED
        BY <2>1 DEF Invites, Joined, Answered
<1> QED
    BY <1>1, InvitesInit, InvitesStep, PTL DEF Spec
=============================================================================
