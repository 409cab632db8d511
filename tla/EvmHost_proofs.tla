---------------------------- MODULE EvmHost_proofs ----------------------------
(***************************************************************************)
(* Proofs about EvmHost for every set of accounts, keys, values and codes,  *)
(* and every depth of calls.                                               *)
(***************************************************************************)
EXTENDS EvmHost, HostMap_proofs

-----------------------------------------------------------------------------
(* The types of what the processes hold and say.                           *)

Entry == EntryOf(Vals)
Table == {map \in TableOf(Vals) : Sound(map) /\ Sized(map)}

Frames == [port : Ports, kind : Kinds, self : Addrs, from : Addrs, value : Nat,
           chain : Accounts, dead : SUBSET Addrs, will : BOOLEAN]

Process == [mode : {"cmd", "run", "gs", "query", "result", "seed"},
            self : Addrs \cup {Nothing}, value : Nat,
            pend : [key : Keys \cup {Nothing}, val : Vals \cup {Nothing}],
            cache : Table, writes : Table, complete : SUBSET Addrs]

CallMsg == [port : Ports, op : {"ca"}, kind : Kinds, to : Addrs, value : Nat]
ReadMsg == [port : Ports, op : {"gs"}, addr : Addrs, key : Keys]
QueryMsg == [port : Ports, op : {"query"}, beyond : BOOLEAN]
LogMsg == [port : Ports, op : {"lo"}, topics : 0 .. 4]
UpdateMsg == [port : Ports, op : {"su"}, entries : Seq(Entry)]
DeathMsg == [port : Ports, op : {"sd"}]
EndMsg == [port : Ports, op : {"ok"}, ok : BOOLEAN]
Message == CallMsg \cup ReadMsg \cup QueryMsg \cup LogMsg \cup UpdateMsg \cup DeathMsg \cup EndMsg

ContextCmd == [op : {"c"}]
SeedCmd == [op : {"p"}, addr : Addrs, all : BOOLEAN,
            slots : {s \in Seq(Keys) : Len(s) \in Targets}, vals : [Keys -> Vals]]
RunCmd == [op : {"r"}, self : Addrs, value : Nat]
ValueCmd == [op : {"value"}, val : Vals]
AnswerCmd == [op : {"answer"}]
ResultCmd == [op : {"result"}, ok : BOOLEAN]
Command == ContextCmd \cup SeedCmd \cup RunCmd \cup ValueCmd \cup AnswerCmd \cup ResultCmd

FramesOK == frames \in Seq(Frames) /\ Len(frames) <= MaxDepth
VmOK == vm \in [Ports -> Process]
Typed ==
    /\ world \in Accounts /\ FramesOK
    /\ pending \in CallMsg \cup {Nothing}
    /\ mailbox \in Seq(Message)
    /\ pool \in Seq(Ports) /\ opened \in 0 .. MaxDepth
    /\ toVm \in [Ports -> Seq(Command)] /\ VmOK
    /\ budget \in 0 .. Budget /\ evals \in 0 .. MaxEvals

(* Every open port serves one message or lies in the pool once.            *)
PortsAreHeld ==
    /\ opened = Len(frames) + Len(pool)
    /\ \A i \in 1 .. Len(frames) : frames[i].port <= opened
    /\ \A i \in 1 .. Len(pool) : pool[i] <= opened
    /\ \A p \in 1 .. opened : \/ \E i \in 1 .. Len(frames) : frames[i].port = p
                              \/ \E i \in 1 .. Len(pool) : pool[i] = p
    /\ \A i, j \in 1 .. Len(frames) : frames[i].port = frames[j].port => i = j
    /\ \A i, j \in 1 .. Len(pool) : pool[i] = pool[j] => i = j
    /\ \A i \in 1 .. Len(pool), j \in 1 .. Len(frames) : frames[j].port # pool[i]

(* What lies in the pipe of a process, by what the process is at.          *)
Piped(q, mode) ==
    /\ mode = "cmd" =>
          \/ Len(q) = 0
          \/ Len(q) = 1 /\ q[1].op = "r"
          \/ Len(q) = 2 /\ q[1].op = "p" /\ q[2].op = "r"
          \/ Len(q) = 3 /\ q[1].op = "c" /\ q[2].op = "p" /\ q[3].op = "r"
    /\ mode = "run" => Len(q) = 0
    /\ mode = "gs" => Len(q) = 0 \/ (Len(q) = 1 /\ q[1].op = "value")
    /\ mode = "query" => Len(q) = 0 \/ (Len(q) = 1 /\ q[1].op = "answer")
    /\ mode = "result" =>
          \/ Len(q) = 0
          \/ Len(q) = 1 /\ q[1].op = "result" /\ ~q[1].ok
          \/ Len(q) = 2 /\ q[1].op = "result" /\ q[1].ok /\ q[2].op = "p"
    /\ mode = "seed" => Len(q) = 1 /\ q[1].op = "p"

(* What the mailbox may hold, by what the innermost process is at.         *)
SaidBy(mode) ==
    CASE mode = "run"    -> {"lo"}
      [] mode = "gs"     -> {"lo", "gs"}
      [] mode = "query"  -> {"lo", "query"}
      [] mode = "result" -> {"lo", "ca", "su"}
      [] mode = "cmd"    -> {"lo", "sd", "su", "ok"}
      [] OTHER           -> {}

Said(box, mode, port, depth, call) ==
    \A i \in 1 .. Len(box) :
        /\ box[i].port = port
        /\ box[i].op \in SaidBy(mode)
        /\ box[i].op \in {"gs", "query", "ok"} => i = Len(box)
        /\ box[i].op = "sd" => i + 2 = Len(box) /\ box[i + 1].op = "su"
        /\ box[i].op = "ca" => i + 1 = Len(box) /\ box[i + 1].op = "su" /\ depth < MaxDepth
        /\ mode = "result" /\ box[i].op = "su" =>
              IF i = 1 THEN call # Nothing ELSE box[i - 1].op = "ca"
        /\ mode = "cmd" /\ box[i].op = "su" => i + 1 = Len(box) /\ box[i + 1].op = "ok"

(* A process that runs has a self, one that waits for a value knows which.  *)
Placed(m) ==
    /\ m.mode # "cmd" => m.self \in Addrs
    /\ m.mode = "gs" => m.pend.key \in Keys

(* A call that waits for its updates has them next.                         *)
Waiting(call, box, mode, depth) ==
    call # Nothing =>
        Len(box) = 1 /\ box[1].op = "su" /\ mode = "result" /\ depth < MaxDepth

TopMode == vm[This.port].mode

(* The innermost process runs, the others wait for it or are at rest.      *)
InStep ==
    /\ \A p \in Ports : Piped(toVm[p], vm[p].mode)
    /\ \A p \in Ports : (\A i \in 1 .. Len(frames) : frames[i].port # p) =>
                            vm[p].mode = "cmd" /\ Len(toVm[p]) = 0
    /\ \A i \in 1 .. Len(frames) - 1 :
          vm[frames[i].port].mode = "result" /\ Len(toVm[frames[i].port]) = 0
    /\ \A p \in Ports : Placed(vm[p])
    /\ frames = <<>> => mailbox = <<>> /\ pending = Nothing
    /\ frames # <<>> =>
          /\ Said(mailbox, TopMode, This.port, Len(frames), pending)
          /\ mailbox # <<>> => Len(toVm[This.port]) = 0
          /\ Waiting(pending, mailbox, TopMode, Len(frames))

HostInv == Typed /\ PortsAreHeld /\ InStep

-----------------------------------------------------------------------------
(* The operators keep the types.                                           *)

(* The accounts after one entry of an "su".                                 *)
Put(acc, e) == [acc EXCEPT ![e.key[1]].slots[e.key[2]] = e.val, ![e.key[1]].live = TRUE]

LEMMA EntryTyped ==
    ASSUME NEW acc \in Accounts, NEW e \in Entry
    PROVE  /\ Put(acc, e) \in Accounts
           /\ \A a \in Addrs :
                 /\ Put(acc, e)[a].code = acc[a].code /\ Put(acc, e)[a].bal = acc[a].bal
                 /\ Put(acc, e)[a].live = (acc[a].live \/ e.key[1] = a)
           /\ \A a \in Addrs, k \in Keys :
                 Put(acc, e)[a].slots[k] = IF e.key = <<a, k>> THEN e.val ELSE acc[a].slots[k]
<1> DEFINE a == e.key[1]
           k == e.key[2]
           old == acc[a]
           slots == [old.slots EXCEPT ![k] = e.val]
           yes == TRUE
           new == [live |-> yes, code |-> old.code, slots |-> slots, bal |-> old.bal]
<1>1. a \in Addrs /\ k \in Keys /\ e.val \in Vals /\ e.key = <<a, k>>
    BY EvmHostAssumption DEF Entry, EntryOf
<1>2. old \in [live : BOOLEAN, code : BOOLEAN, slots : [Keys -> Vals], bal : Int]
    BY <1>1 DEF Accounts
<1>3. slots \in [Keys -> Vals]
    <2> HIDE DEF old, k
    <2> QED BY <1>1, <1>2
<1>4. new \in [live : BOOLEAN, code : BOOLEAN, slots : [Keys -> Vals], bal : Int]
    <2> HIDE DEF old, slots
    <2> QED BY <1>2, <1>3
<1>5. [[old EXCEPT !.slots = slots] EXCEPT !.live = yes] = new
    <2> DEFINE mid == [old EXCEPT !.slots = slots]
    <2>1. mid = [live |-> old.live, code |-> old.code, slots |-> slots, bal |-> old.bal]
        <3> HIDE DEF old, slots
        <3> QED BY <1>2
    <2>2. [mid EXCEPT !.live = yes] = new
        <3> HIDE DEF mid, old, slots, yes
        <3> QED BY <2>1
    <2> QED BY <2>2
<1>6. Put(acc, e) = [acc EXCEPT ![a] = new]
    <2> DEFINE mid == [old EXCEPT !.slots = slots]
               once == [acc EXCEPT ![a] = mid]
    <2>1. [acc EXCEPT ![a].slots[k] = e.val, ![a].live = yes] = [once EXCEPT ![a] = [@ EXCEPT !.live = yes]]
        OBVIOUS
    <2>2. once[a] = mid /\ once \in [Addrs -> {acc[b] : b \in Addrs} \cup {mid}]
        <3> HIDE DEF mid, a
        <3> QED BY <1>1 DEF Accounts
    <2>3. [once EXCEPT ![a] = [@ EXCEPT !.live = yes]] = [once EXCEPT ![a] = new]
        <3> HIDE DEF once, a, new, old, slots, yes
        <3> QED BY <2>2, <1>5
    <2>4. [once EXCEPT ![a] = new] = [acc EXCEPT ![a] = new]
        <3> HIDE DEF mid, a, new
        <3> QED BY <1>1 DEF Accounts
    <2> QED
        BY <2>1, <2>3, <2>4 DEF Put
<1>7. /\ new.live = TRUE /\ new.code = old.code /\ new.bal = old.bal
      /\ \A x \in Keys : new.slots[x] = IF x = k THEN e.val ELSE old.slots[x]
    <2>1. \A x \in Keys : slots[x] = IF x = k THEN e.val ELSE old.slots[x]
        <3> HIDE DEF old, k
        <3> QED BY <1>1, <1>2
    <2> HIDE DEF slots, old
    <2> QED BY <2>1
<1> HIDE DEF new
<1>8. /\ \A b \in Addrs : Put(acc, e)[b] = IF b = a THEN new ELSE acc[b]
      /\ Put(acc, e) \in Accounts
    <2> HIDE DEF a
    <2> QED BY <1>1, <1>4, <1>6 DEF Accounts
<1>9. \A b \in Addrs : acc[b].live \in BOOLEAN
    BY DEF Accounts
<1>10. \A b \in Addrs, x \in Keys : e.key = <<b, x>> <=> (b = a /\ x = k)
    <2> HIDE DEF a, k
    <2> QED BY <1>1
<1> HIDE DEF a, k
<1>11. \A b \in Addrs :
          /\ Put(acc, e)[b].code = acc[b].code /\ Put(acc, e)[b].bal = acc[b].bal
          /\ Put(acc, e)[b].live = (acc[b].live \/ b = a)
    BY <1>7, <1>8, <1>9
<1>12. \A b \in Addrs, x \in Keys :
          Put(acc, e)[b].slots[x] = IF b = a /\ x = k THEN e.val ELSE acc[b].slots[x]
    BY <1>7, <1>8
<1>13. \A b \in Addrs, x \in Keys :
          Put(acc, e)[b].slots[x] = IF e.key = <<b, x>> THEN e.val ELSE acc[b].slots[x]
    <2> HIDE DEF old
    <2> QED BY <1>10, <1>12
<1> QED
    BY <1>8, <1>11, <1>13 DEF a

(* process_updates enters one entry after the other.                        *)
LEMMA UpdatedFold ==
    ASSUME NEW acc \in Accounts, NEW entries \in Seq(Entry)
    PROVE  \E h : /\ h[0] = acc /\ h[Len(entries)] = Updated(acc, entries)
                  /\ \A j \in 0 .. Len(entries) : h[j] \in Accounts
                  /\ \A j \in 0 .. Len(entries) - 1 : h[j + 1] = Put(h[j], entries[j + 1])
<1> DEFINE G == [x \in Accounts \X Entry |-> Put(x[1], x[2])]
           L == Len(entries)
           Rec(f) == [s \in SUBSET DOMAIN entries |->
                         IF s = {} THEN acc ELSE Put(f[s \ {Max(s)}], entries[Max(s)])]
           it == CHOOSE f : f = Rec(f)
           h == [j \in 0 .. L |-> it[1 .. j]]
<1>1. Updated(acc, entries) = it[DOMAIN entries]
    BY DEF Updated, FoldLeft, MapThenFoldSet, Put
<1>2. \A a \in Accounts, e \in Entry : Put(a, e) \in Accounts
    BY EntryTyped
<1>3. DOMAIN entries = 1 .. L /\ L \in Nat
    OBVIOUS
<1>4. G \in [Accounts \X Entry -> Accounts]
    BY <1>2
<1>5. PICK f : Folds(f, Accounts, G, acc, entries)
    <2> HIDE DEF G
    <2> QED BY <1>4, FoldExists
<1>6. f = Rec(f)
    <2>1. f \in [SUBSET (1 .. L) -> Accounts] /\ f[{}] = acc
        BY <1>5 DEF Folds
    <2>2. ASSUME NEW s \in SUBSET (1 .. L), s # {}
          PROVE  f[s] = Put(f[s \ {Max(s)}], entries[Max(s)])
        <3>1. /\ f[s] = G[<<f[s \ {Max(s)}], entries[Max(s)]>>]
              /\ f[s \ {Max(s)}] \in Accounts /\ entries[Max(s)] \in Entry
            <4> HIDE DEF G
            <4> QED BY <1>5, <2>2, FoldStep
        <3> QED
            BY <3>1
    <2> HIDE DEF G
    <2> QED
        BY <1>3, <2>1, <2>2
<1>7. it = Rec(it)
    <2> HIDE DEF Rec
    <2> QED BY <1>6
<1> HIDE DEF it
<1>8. it[{}] = acc /\ \A s \in SUBSET (1 .. L) : s # {} => it[s] = Put(it[s \ {Max(s)}], entries[Max(s)])
    BY <1>3, <1>7
<1>9. ASSUME NEW j \in 0 .. L
      PROVE  it[1 .. j] \in Accounts
    <2>1. j \in Nat /\ SUBSET (1 .. j) \subseteq SUBSET (1 .. L) /\ 1 .. j \subseteq 1 .. L
        BY <1>3
    <2>2. ASSUME NEW s \in SUBSET (1 .. j), s # {}, Max(s) \in 1 .. j, it[s \ {Max(s)}] \in Accounts
          PROVE  it[s] \in Accounts
        <3>1. s \in SUBSET (1 .. L) /\ Max(s) \in 1 .. L
            BY <2>1, <2>2
        <3>2. entries[Max(s)] \in Entry
            BY <1>3, <3>1
        <3> QED
            BY <1>2, <1>8, <2>2, <3>1, <3>2
    <2> QED
        BY <1>8, <2>1, <2>2, FoldTyped
<1> HIDE DEF L
<1>10. ASSUME NEW j \in 0 .. L - 1
       PROVE  h[j + 1] = Put(h[j], entries[j + 1])
    <2>1. /\ (1 .. j + 1) \in SUBSET (1 .. L) /\ 1 .. j + 1 # {}
          /\ Max(1 .. j + 1) = j + 1 /\ (1 .. j + 1) \ {j + 1} = 1 .. j
        BY <1>3, PrefixStep
    <2>2. j \in 0 .. L /\ j + 1 \in 0 .. L
        BY <1>3
    <2> QED
        BY <1>8, <2>1, <2>2
<1>11. h[0] = acc /\ h[L] = it[DOMAIN entries] /\ \A j \in 0 .. L : h[j] \in Accounts
    <2>1. 1 .. 0 = {} /\ 0 \in 0 .. L /\ L \in 0 .. L
        BY <1>3
    <2> QED BY <1>3, <1>8, <1>9, <2>1
<1> HIDE DEF h
<1> QED
    BY <1>1, <1>10, <1>11 DEF L

LEMMA UpdatedTyped ==
    ASSUME NEW acc \in Accounts, NEW entries \in Seq(Entry)
    PROVE  Updated(acc, entries) \in Accounts
<1>1. Len(entries) \in 0 .. Len(entries)
    OBVIOUS
<1> QED
    BY <1>1, UpdatedFold

(* A value a table holds for a slot.                                        *)
Held(map, a, k) == Lookup(map, <<a, k>>, Nothing)

(* An "su" leaves in the accounts what the table it lists holds.            *)
LEMMA UpdatedFields ==
    ASSUME NEW acc \in Accounts, NEW map \in Table
    PROVE  LET new == Updated(acc, map.data) IN
           /\ \A a \in Addrs :
                 /\ new[a].code = acc[a].code /\ new[a].bal = acc[a].bal
                 /\ new[a].live = (acc[a].live \/ \E k \in Keys : Held(map, a, k) # Nothing)
           /\ \A a \in Addrs, k \in Keys :
                 new[a].slots[k] = IF Held(map, a, k) = Nothing THEN acc[a].slots[k] ELSE Held(map, a, k)
<1> DEFINE d == map.data
           new == Updated(acc, d)
<1>1. d \in Seq(Entry) /\ Len(d) \in Nat /\ map \in TableOf(Vals) /\ Sound(map) /\ Sized(map)
    BY TableFields DEF Table, Entry
<1>2. \A i, j \in 1 .. Len(d) : d[i].key = d[j].key => i = j
    BY <1>1 DEF Sound, Size
<1>3. PICK h : /\ h[0] = acc /\ h[Len(d)] = new
               /\ \A j \in 0 .. Len(d) : h[j] \in Accounts
               /\ \A j \in 0 .. Len(d) - 1 : h[j + 1] = Put(h[j], d[j + 1])
    <2> HIDE DEF d
    <2> QED BY <1>1, UpdatedFold
<1> HIDE DEF d, new
<1> DEFINE Same(j, a) ==
               /\ h[j][a].code = acc[a].code /\ h[j][a].bal = acc[a].bal
               /\ h[j][a].live = (acc[a].live \/ \E i \in 1 .. j : d[i].key[1] = a)
           Slots(j, a, k) ==
               /\ (\A i \in 1 .. j : d[i].key # <<a, k>>) => h[j][a].slots[k] = acc[a].slots[k]
               /\ \A i \in 1 .. j : d[i].key = <<a, k>> => h[j][a].slots[k] = d[i].val
           Good(j) == \A a \in Addrs : Same(j, a) /\ \A k \in Keys : Slots(j, a, k)
           All == {j \in Nat : j <= Len(d) => Good(j)}
<1>4. 0 \in All
    <2>1. \A a \in Addrs : acc[a].live \in BOOLEAN
        BY DEF Accounts
    <2>2. Good(0)
        BY <1>3, <2>1
    <2> HIDE DEF Good
    <2> QED BY <2>2
<1>5. ASSUME NEW j \in All PROVE j + 1 \in All
    <2>1. ASSUME j + 1 <= Len(d) PROVE Good(j + 1)
        <3> DEFINE e == d[j + 1]
        <3>1. Good(j)
            <4> HIDE DEF Good
            <4> QED BY <1>1, <2>1
        <3> HIDE DEF Good
        <3>2. /\ j \in 0 .. Len(d) - 1 /\ j \in 0 .. Len(d) /\ j + 1 \in 1 .. Len(d)
            BY <1>1, <2>1
        <3>3. e \in Entry /\ h[j] \in Accounts /\ h[j + 1] = Put(h[j], e)
            BY <1>1, <1>3, <3>2
        <3>4. /\ \A i \in 1 .. j + 1 : i \in 1 .. j \/ i = j + 1
              /\ j + 1 \in 1 .. j + 1
              /\ \A i \in 1 .. j : i \in 1 .. j + 1 /\ i \in 1 .. Len(d) /\ i # j + 1
            BY <1>1, <3>2
        <3> HIDE DEF e
        <3>5. ASSUME NEW a \in Addrs
              PROVE  Same(j + 1, a) /\ \A k \in Keys : Slots(j + 1, a, k)
            <4> HIDE DEF Same, Slots
            <4>1. Same(j, a) /\ \A k \in Keys : Slots(j, a, k)
                BY <3>1 DEF Good
            <4>2. /\ h[j + 1][a].code = h[j][a].code /\ h[j + 1][a].bal = h[j][a].bal
                  /\ h[j + 1][a].live = (h[j][a].live \/ e.key[1] = a)
                  /\ \A k \in Keys :
                        h[j + 1][a].slots[k] = IF e.key = <<a, k>> THEN e.val ELSE h[j][a].slots[k]
                <5>1. PICK g \in Accounts : g = h[j]
                    BY <3>3
                <5>2. PICK x \in Entry : x = e
                    BY <3>3
                <5>3. /\ Put(g, x)[a].code = g[a].code /\ Put(g, x)[a].bal = g[a].bal
                      /\ Put(g, x)[a].live = (g[a].live \/ x.key[1] = a)
                    BY EntryTyped
                <5>4. \A k \in Keys :
                         Put(g, x)[a].slots[k] = IF x.key = <<a, k>> THEN x.val ELSE g[a].slots[k]
                    BY EntryTyped
                <5> QED
                    BY <3>3, <5>1, <5>2, <5>3, <5>4
            <4>3. Same(j + 1, a)
                <5>1. (\E i \in 1 .. j + 1 : d[i].key[1] = a)
                      <=> ((\E i \in 1 .. j : d[i].key[1] = a) \/ e.key[1] = a)
                    BY <3>4 DEF e
                <5> QED
                    BY <4>1, <4>2, <5>1 DEF Same
            <4>4. ASSUME NEW k \in Keys PROVE Slots(j + 1, a, k)
                <5>1. ASSUME \A i \in 1 .. j + 1 : d[i].key # <<a, k>>
                      PROVE  h[j + 1][a].slots[k] = acc[a].slots[k]
                    <6>1. e.key # <<a, k>> /\ \A i \in 1 .. j : d[i].key # <<a, k>>
                        BY <3>4, <5>1 DEF e
                    <6> QED BY <4>1, <4>2, <6>1 DEF Slots
                <5>2. ASSUME NEW i \in 1 .. j + 1, d[i].key = <<a, k>>
                      PROVE  h[j + 1][a].slots[k] = d[i].val
                    <6>1. CASE i = j + 1
                        BY <4>2, <5>2, <6>1 DEF e
                    <6>2. CASE i \in 1 .. j
                        <7>1. e.key # <<a, k>>
                            BY <1>2, <3>2, <3>4, <5>2, <6>2 DEF e
                        <7> QED BY <4>1, <4>2, <5>2, <6>2, <7>1 DEF Slots
                    <6> QED BY <3>4, <6>1, <6>2
                <5> QED BY <5>1, <5>2 DEF Slots
            <4> QED BY <4>3, <4>4
        <3> HIDE DEF Same, Slots
        <3> QED BY <3>5 DEF Good
    <2> HIDE DEF Good
    <2> QED BY <2>1
<1>6. Good(Len(d))
    <2> HIDE DEF Good
    <2>1. All \in SUBSET Nat
        OBVIOUS
    <2>2. All = Nat
        <3> HIDE DEF All
        <3> QED BY <1>4, <1>5, <2>1, NatSetInduction
    <2> QED BY <1>1, <2>2
<1> HIDE DEF Same, Slots
<1>7. \A a \in Addrs : Same(Len(d), a) /\ \A k \in Keys : Slots(Len(d), a, k)
    BY <1>6
<1> HIDE DEF Good
<1>8. ASSUME NEW a \in Addrs, NEW k \in Keys
      PROVE  /\ \A i \in 1 .. Len(d) : d[i].key = <<a, k>> => Held(map, a, k) = d[i].val
             /\ (\A i \in 1 .. Len(d) : d[i].key # <<a, k>>) => Held(map, a, k) = Nothing
    <2>1. <<a, k>> \in MapKeys
        BY EvmHostAssumption
    <2> QED BY <1>1, <2>1, LookupSays DEF Held, d
<1>9. \A i \in 1 .. Len(d) : d[i].val \in Vals /\ d[i].val # Nothing /\ d[i].key[1] \in Addrs
                             /\ d[i].key[2] \in Keys /\ d[i].key = <<d[i].key[1], d[i].key[2]>>
    <2>1. Entry = [key : Addrs \X Keys, val : Vals] /\ Nothing \notin Vals
        BY EvmHostAssumption DEF Entry, EntryOf
    <2>2. \A e \in Entry : /\ e.val \in Vals /\ e.val # Nothing /\ e.key[1] \in Addrs
                            /\ e.key[2] \in Keys /\ e.key = <<e.key[1], e.key[2]>>
        BY <2>1
    <2>3. \A i \in 1 .. Len(d) : d[i] \in Entry
        BY <1>1
    <2> QED BY <2>2, <2>3
<1>10. ASSUME NEW a \in Addrs
       PROVE  (\E i \in 1 .. Len(d) : d[i].key[1] = a) <=> \E k \in Keys : Held(map, a, k) # Nothing
    <2>1. ASSUME NEW i \in 1 .. Len(d), d[i].key[1] = a PROVE \E k \in Keys : Held(map, a, k) # Nothing
        BY <1>8, <1>9, <2>1
    <2>2. ASSUME NEW k \in Keys, Held(map, a, k) # Nothing PROVE \E i \in 1 .. Len(d) : d[i].key[1] = a
        <3>1. PICK i \in 1 .. Len(d) : d[i].key = <<a, k>>
            BY <1>8, <2>2
        <3> QED BY <3>1
    <2> QED BY <2>1, <2>2
<1>11. \A a \in Addrs, k \in Keys :
          new[a].slots[k] = IF Held(map, a, k) = Nothing THEN acc[a].slots[k] ELSE Held(map, a, k)
    BY <1>3, <1>7, <1>8, <1>9 DEF Slots
<1>12. \A a \in Addrs :
          /\ new[a].code = acc[a].code /\ new[a].bal = acc[a].bal
          /\ new[a].live = (acc[a].live \/ \E k \in Keys : Held(map, a, k) # Nothing)
    BY <1>3, <1>7, <1>10 DEF Same
<1> QED
    BY <1>11, <1>12 DEF new, d

(* The slots of an account that are not zero, in some order.                *)
LEMMA SlotsTyped ==
    ASSUME NEW used \in SUBSET Keys
    PROVE  /\ Cardinality(used) \in Nat
           /\ SetToSeq(used) \in Seq(Keys) /\ Len(SetToSeq(used)) = Cardinality(used)
           /\ \A k \in used : \E i \in 1 .. Cardinality(used) : SetToSeq(used)[i] = k
           /\ \A i \in 1 .. Cardinality(used) : SetToSeq(used)[i] \in used
<1>1. IsFiniteSet(used)
    BY EvmHostAssumption, FS_Subset
<1>2. Cardinality(used) \in Nat
    BY <1>1, FS_CardinalityType
<1>3. \E f : f \in Bijection(1 .. Cardinality(used), used)
    BY <1>1, FS_CardinalityType DEF ExistsBijection
<1>4. \E f \in [1 .. Cardinality(used) -> used] : IsInjective(f)
    BY <1>3 DEF Bijection, Injection, Surjection, IsInjective
<1>5. SetToSeq(used) \in [1 .. Cardinality(used) -> used] /\ IsInjective(SetToSeq(used))
    BY <1>4 DEF SetToSeq
<1>6. SetToSeq(used) \in Injection(1 .. Cardinality(used), used)
    BY <1>5 DEF Injection
<1>7. Cardinality(1 .. Cardinality(used)) = Cardinality(used)
    <2>1. PICK c \in Nat : c = Cardinality(used)
        BY <1>2
    <2>2. Cardinality(1 .. c) = IF 1 > c THEN 0 ELSE c - 1 + 1
        BY FS_Interval
    <2> QED BY <2>1, <2>2
<1>8. SetToSeq(used) \in Surjection(1 .. Cardinality(used), used)
    BY <1>1, <1>6, <1>7, FS_Injection
<1> QED
    BY <1>2, <1>5, <1>8 DEF Surjection

LEMMA SeedTyped ==
    ASSUME NEW acc \in Accounts, NEW a \in Addrs
    PROVE  Seed(acc, a) \in SeedCmd
<1> DEFINE used == {k \in Keys : acc[a].slots[k] # 0}
           all == Cardinality(used) < SeedLimit
<1>1. used \in SUBSET Keys
    OBVIOUS
<1>2. SetToSeq(used) \in Seq(Keys)
    <2> HIDE DEF used
    <2> QED BY <1>1, SlotsTyped
<1>3. acc[a].slots \in [Keys -> Vals]
    BY DEF Accounts
<1>4. Seed(acc, a) = [op |-> "p", addr |-> a, all |-> all,
                      slots |-> IF all THEN SetToSeq(used) ELSE <<>>, vals |-> acc[a].slots]
    BY DEF Seed
<1>5. Len(IF all THEN SetToSeq(used) ELSE <<>>) \in Targets
    <2>1. Cardinality(used) \in Nat /\ Len(SetToSeq(used)) = Cardinality(used)
        <3> HIDE DEF used
        <3> QED BY <1>1, SlotsTyped
    <2>2. CASE all
        <3>1. Cardinality(used) \in 0 .. SeedLimit - 1
            <4> HIDE DEF used
            <4> QED BY <2>1, <2>2, EvmHostAssumption
        <3> HIDE DEF used, all
        <3> QED BY <2>1, <2>2, <3>1, EvmHostAssumption
    <2>3. CASE ~all
        <3> HIDE DEF used, all
        <3> QED BY <2>3, ProbeAssumption
    <2> QED BY <2>2, <2>3
<1> DEFINE slots == IF all THEN SetToSeq(used) ELSE <<>>
<1>6. slots \in Seq(Keys) /\ all \in BOOLEAN
    <2> HIDE DEF used
    <2> QED BY <1>2
<1>7. slots \in {s \in Seq(Keys) : Len(s) \in Targets}
    <2> HIDE DEF used, all
    <2> QED BY <1>5, <1>6
<1> HIDE DEF used, all, slots
<1> QED
    BY <1>3, <1>4, <1>6, <1>7 DEF SeedCmd, slots

(* One field of a process at a time.                                       *)
LEMMA SetMode ==
    ASSUME NEW m \in Process, NEW v \in {"cmd", "run", "gs", "query", "result", "seed"}
    PROVE  LET r == [m EXCEPT !.mode = v] IN
           /\ r \in Process /\ r.mode = v
           /\ r.self = m.self /\ r.value = m.value /\ r.pend = m.pend
           /\ r.cache = m.cache /\ r.writes = m.writes /\ r.complete = m.complete
    BY DEF Process

LEMMA SetSelf ==
    ASSUME NEW m \in Process, NEW v \in Addrs \cup {Nothing}
    PROVE  LET r == [m EXCEPT !.self = v] IN
           /\ r \in Process /\ r.self = v
           /\ r.mode = m.mode /\ r.value = m.value /\ r.pend = m.pend
           /\ r.cache = m.cache /\ r.writes = m.writes /\ r.complete = m.complete
    BY DEF Process

LEMMA SetValue ==
    ASSUME NEW m \in Process, NEW v \in Nat
    PROVE  LET r == [m EXCEPT !.value = v] IN
           /\ r \in Process /\ r.value = v
           /\ r.mode = m.mode /\ r.self = m.self /\ r.pend = m.pend
           /\ r.cache = m.cache /\ r.writes = m.writes /\ r.complete = m.complete
    BY DEF Process

LEMMA SetPend ==
    ASSUME NEW m \in Process, NEW v \in [key : Keys \cup {Nothing}, val : Vals \cup {Nothing}]
    PROVE  LET r == [m EXCEPT !.pend = v] IN
           /\ r \in Process /\ r.pend = v
           /\ r.mode = m.mode /\ r.self = m.self /\ r.value = m.value
           /\ r.cache = m.cache /\ r.writes = m.writes /\ r.complete = m.complete
    BY DEF Process

LEMMA SetCache ==
    ASSUME NEW m \in Process, NEW v \in Table
    PROVE  LET r == [m EXCEPT !.cache = v] IN
           /\ r \in Process /\ r.cache = v
           /\ r.mode = m.mode /\ r.self = m.self /\ r.value = m.value
           /\ r.pend = m.pend /\ r.writes = m.writes /\ r.complete = m.complete
    BY DEF Process

LEMMA SetWrites ==
    ASSUME NEW m \in Process, NEW v \in Table
    PROVE  LET r == [m EXCEPT !.writes = v] IN
           /\ r \in Process /\ r.writes = v
           /\ r.mode = m.mode /\ r.self = m.self /\ r.value = m.value
           /\ r.pend = m.pend /\ r.cache = m.cache /\ r.complete = m.complete
    BY DEF Process

LEMMA SetComplete ==
    ASSUME NEW m \in Process, NEW v \in SUBSET Addrs
    PROVE  LET r == [m EXCEPT !.complete = v] IN
           /\ r \in Process /\ r.complete = v
           /\ r.mode = m.mode /\ r.self = m.self /\ r.value = m.value
           /\ r.pend = m.pend /\ r.cache = m.cache /\ r.writes = m.writes
    BY DEF Process

LEMMA ResetTyped ==
    ASSUME NEW m \in Process
    PROVE  /\ Reset(m) \in Process
           /\ Reset(m).mode = m.mode /\ Reset(m).self = m.self /\ Reset(m).pend = m.pend
           /\ Reset(m).value = m.value /\ Reset(m).cache = EmptyMap /\ Reset(m).writes = EmptyMap
           /\ Reset(m).complete = {}
<1> DEFINE m1 == [m EXCEPT !.cache = EmptyMap]
           m2 == [m1 EXCEPT !.writes = EmptyMap]
           m3 == [m2 EXCEPT !.complete = {}]
<1>1. Reset(m) = m3
    BY DEF Reset
<1>2. /\ m1 \in Process /\ m1.mode = m.mode /\ m1.self = m.self /\ m1.pend = m.pend
      /\ m1.value = m.value /\ m1.cache = EmptyMap
    BY EmptyTable, SetCache DEF Table
<1> HIDE DEF m1
<1>3. /\ m2 \in Process /\ m2.mode = m.mode /\ m2.self = m.self /\ m2.pend = m.pend
      /\ m2.value = m.value /\ m2.cache = EmptyMap /\ m2.writes = EmptyMap
    BY <1>2, EmptyTable, SetWrites DEF Table
<1> HIDE DEF m2
<1>4. {} \in SUBSET Addrs
    OBVIOUS
<1> QED
    BY <1>1, <1>3, <1>4, SetComplete

(* The cache a seed fills.                                                 *)
SeedTable(msg) ==
    FoldLeft(LAMBDA c, k : Store(c, <<msg.addr, k>>, msg.vals[k]),
             Resize(EmptyMap, Len(msg.slots)), msg.slots)

LEMMA SeedFold ==
    ASSUME NEW msg \in SeedCmd
    PROVE  \E h : /\ h[0] \in Table /\ h[0].data = <<>> /\ h[Len(msg.slots)] = SeedTable(msg)
                  /\ \A j \in 0 .. Len(msg.slots) : h[j] \in Table
                  /\ \A j \in 0 .. Len(msg.slots) - 1 :
                        h[j + 1] = Store(h[j], <<msg.addr, msg.slots[j + 1]>>, msg.vals[msg.slots[j + 1]])
<1> DEFINE slots == msg.slots
           Op(c, k) == Store(c, <<msg.addr, k>>, msg.vals[k])
           base == Resize(EmptyMap, Len(slots))
           G == [x \in Table \X Keys |-> Op(x[1], x[2])]
           L == Len(slots)
           Rec(f) == [s \in SUBSET DOMAIN slots |->
                         IF s = {} THEN base ELSE Op(f[s \ {Max(s)}], slots[Max(s)])]
           it == CHOOSE f : f = Rec(f)
           h == [j \in 0 .. L |-> it[1 .. j]]
<1>1. SeedTable(msg) = it[DOMAIN slots]
    BY DEF SeedTable, FoldLeft, MapThenFoldSet
<1>2. \A c \in Table, k \in Keys : Op(c, k) \in Table
    <2> SUFFICES ASSUME NEW c \in Table, NEW k \in Keys
                 PROVE  Op(c, k) \in Table
        OBVIOUS
    <2>1. <<msg.addr, k>> \in MapKeys /\ msg.vals[k] \in Vals
        BY EvmHostAssumption DEF SeedCmd
    <2> QED
        BY <2>1, StoreKeepsTable DEF Table
<1> HIDE DEF Op
<1>3. slots \in Seq(Keys) /\ DOMAIN slots = 1 .. L /\ L \in Nat
    BY DEF SeedCmd
<1>4. base \in Table /\ base.data = <<>>
    <2>1. Len(slots) \in Targets
        BY DEF SeedCmd
    <2>2. Size(EmptyMap) * Load <= Len(slots) * Spread
        <3>1. Size(EmptyMap) = 0 /\ Len(slots) * Spread \in Nat /\ 0 * Load = 0
            BY <1>3, EmptyTable, MapAssumption DEF Size
        <3> QED BY <3>1
    <2> QED BY <2>1, <2>2, EmptyTable, ResizeKeeps DEF Table
<1> HIDE DEF slots, base
<1>5. G \in [Table \X Keys -> Table]
    BY <1>2
<1>6. PICK f : Folds(f, Table, G, base, slots)
    <2> HIDE DEF G
    <2> QED BY <1>3, <1>4, <1>5, FoldExists
<1>7. f = Rec(f)
    <2>1. f \in [SUBSET (1 .. L) -> Table] /\ f[{}] = base
        BY <1>6 DEF Folds
    <2>2. ASSUME NEW s \in SUBSET (1 .. L), s # {}
          PROVE  f[s] = Op(f[s \ {Max(s)}], slots[Max(s)])
        <3>1. /\ f[s] = G[<<f[s \ {Max(s)}], slots[Max(s)]>>]
              /\ f[s \ {Max(s)}] \in Table /\ slots[Max(s)] \in Keys
            <4> HIDE DEF G
            <4> QED BY <1>3, <1>6, <2>2, FoldStep
        <3> QED
            BY <3>1
    <2> HIDE DEF G
    <2> QED
        BY <1>3, <2>1, <2>2
<1>8. it = Rec(it)
    <2> HIDE DEF Rec
    <2> QED BY <1>7
<1> HIDE DEF it
<1>9. it[{}] = base /\ \A s \in SUBSET (1 .. L) : s # {} => it[s] = Op(it[s \ {Max(s)}], slots[Max(s)])
    BY <1>3, <1>8
<1>10. ASSUME NEW j \in 0 .. L
       PROVE  it[1 .. j] \in Table
    <2>1. j \in Nat /\ SUBSET (1 .. j) \subseteq SUBSET (1 .. L) /\ 1 .. j \subseteq 1 .. L
        BY <1>3
    <2>2. ASSUME NEW s \in SUBSET (1 .. j), s # {}, Max(s) \in 1 .. j, it[s \ {Max(s)}] \in Table
          PROVE  it[s] \in Table
        <3>1. s \in SUBSET (1 .. L) /\ Max(s) \in 1 .. L
            BY <2>1, <2>2
        <3>2. slots[Max(s)] \in Keys
            BY <1>3, <3>1
        <3> QED
            BY <1>2, <1>9, <2>2, <3>1, <3>2
    <2> QED
        BY <1>4, <1>9, <2>1, <2>2, FoldTyped
<1> HIDE DEF L
<1>11. ASSUME NEW j \in 0 .. L - 1
       PROVE  h[j + 1] = Op(h[j], slots[j + 1])
    <2>1. /\ (1 .. j + 1) \in SUBSET (1 .. L) /\ 1 .. j + 1 # {}
          /\ Max(1 .. j + 1) = j + 1 /\ (1 .. j + 1) \ {j + 1} = 1 .. j
        BY <1>3, PrefixStep
    <2>2. j \in 0 .. L /\ j + 1 \in 0 .. L
        BY <1>3
    <2> QED
        BY <1>9, <2>1, <2>2
<1>12. h[0] = base /\ h[L] = it[DOMAIN slots] /\ \A j \in 0 .. L : h[j] \in Table
    <2>1. 1 .. 0 = {} /\ 0 \in 0 .. L /\ L \in 0 .. L
        BY <1>3
    <2> QED BY <1>3, <1>9, <1>10, <2>1
<1> HIDE DEF h
<1> QED
    BY <1>1, <1>4, <1>11, <1>12 DEF L, Op, slots

(* The process after a seed.                                               *)
LEMMA ReadUpdatesTyped ==
    ASSUME NEW m \in Process, NEW msg \in SeedCmd
    PROVE  LET r == ReadUpdates(m, msg) IN
           /\ r \in Process /\ r.mode = m.mode /\ r.self = m.self /\ r.pend = m.pend
           /\ r.writes = EmptyMap
           /\ r.cache = IF msg.all THEN SeedTable(msg) ELSE EmptyMap
           /\ r.complete = IF msg.all THEN {msg.addr} ELSE {}
<1> DEFINE filled == SeedTable(msg)
           m1 == [Reset(m) EXCEPT !.cache = filled]
           m2 == [m1 EXCEPT !.complete = {msg.addr}]
<1>1. ReadUpdates(m, msg) = IF ~msg.all THEN Reset(m) ELSE m2
    BY DEF ReadUpdates, SeedTable
<1>2. filled \in Table
    <2>1. Len(msg.slots) \in 0 .. Len(msg.slots)
        BY DEF SeedCmd
    <2> QED BY <2>1, SeedFold
<1>3. {msg.addr} \in SUBSET Addrs /\ msg.all \in BOOLEAN
    BY DEF SeedCmd
<1> HIDE DEF filled
<1>4. /\ m1 \in Process /\ m1.mode = m.mode /\ m1.self = m.self /\ m1.pend = m.pend
      /\ m1.cache = filled /\ m1.writes = EmptyMap
    BY <1>2, ResetTyped, SetCache
<1> HIDE DEF m1
<1>5. /\ m2 \in Process /\ m2.mode = m.mode /\ m2.self = m.self /\ m2.pend = m.pend
      /\ m2.cache = filled /\ m2.writes = EmptyMap /\ m2.complete = {msg.addr}
    BY <1>3, <1>4, SetComplete
<1> HIDE DEF m2
<1> DEFINE r == ReadUpdates(m, msg)
           old == Reset(m)
<1>6. r = IF ~msg.all THEN old ELSE m2
    BY <1>1
<1>7. /\ old \in Process /\ old.mode = m.mode /\ old.self = m.self /\ old.pend = m.pend
      /\ old.cache = EmptyMap /\ old.writes = EmptyMap /\ old.complete = {}
    BY ResetTyped
<1> HIDE DEF r, old
<1>8. /\ r \in Process /\ r.mode = m.mode /\ r.self = m.self /\ r.pend = m.pend
      /\ r.writes = EmptyMap
      /\ r.cache = IF msg.all THEN filled ELSE EmptyMap
      /\ r.complete = IF msg.all THEN {msg.addr} ELSE {}
    BY <1>5, <1>6, <1>7
<1> QED
    BY <1>8 DEF r, filled

(* What an empty table and one that is written to hold.                     *)
LEMMA EmptyHolds ==
    ASSUME NEW map \in Table, map.data = <<>>, NEW a \in Addrs, NEW k \in Keys
    PROVE  Held(map, a, k) = Nothing
<1>1. map \in TableOf(Vals) /\ Sound(map) /\ Sized(map) /\ <<a, k>> \in MapKeys
    BY EvmHostAssumption DEF Table
<1>2. Lookup(map, <<a, k>>, Nothing) = Nothing
    BY <1>1, NothingIsFound
<1> QED
    BY <1>2 DEF Held

LEMMA StoreHolds ==
    ASSUME NEW map \in Table, NEW a \in Addrs, NEW k \in Keys, NEW val \in Vals,
           NEW b \in Addrs, NEW x \in Keys
    PROVE  /\ Store(map, <<a, k>>, val) \in Table
           /\ Held(Store(map, <<a, k>>, val), b, x) = IF b = a /\ x = k THEN val ELSE Held(map, b, x)
<1>1. /\ map \in TableOf(Vals) /\ Sound(map) /\ Sized(map)
      /\ <<a, k>> \in MapKeys /\ <<b, x>> \in MapKeys
    BY EvmHostAssumption DEF Table
<1>2. Lookup(Store(map, <<a, k>>, val), <<b, x>>, Nothing)
         = IF <<b, x>> = <<a, k>> THEN val ELSE Lookup(map, <<b, x>>, Nothing)
    <2>1. PICK key \in MapKeys : key = <<a, k>>
        BY <1>1
    <2>2. PICK other \in MapKeys : other = <<b, x>>
        BY <1>1
    <2>3. Lookup(Store(map, key, val), other, Nothing) = IF other = key THEN val ELSE Lookup(map, other, Nothing)
        BY <1>1, StoreIsFound
    <2> QED
        BY <2>1, <2>2, <2>3
<1>3. Store(map, <<a, k>>, val) \in Table
    BY <1>1, StoreKeepsTable DEF Table
<1> QED
    BY <1>2, <1>3 DEF Held

LEMMA GrownHolds ==
    ASSUME NEW map \in Table, NEW a \in Addrs, NEW k \in Keys
    PROVE  Grown(map) \in Table /\ Held(Grown(map), a, k) = Held(map, a, k)
<1>1. map \in TableOf(Vals) /\ Sound(map) /\ Sized(map) /\ <<a, k>> \in MapKeys
    BY EvmHostAssumption DEF Table
<1> QED
    BY <1>1, GrownKeeps, GrownIsFound DEF Table, Held

LEMMA HeldTyped ==
    ASSUME NEW map \in Table, NEW a \in Addrs, NEW k \in Keys
    PROVE  Held(map, a, k) \in Vals \cup {Nothing}
<1>1. map \in TableOf(Vals) /\ Sound(map) /\ Sized(map) /\ <<a, k>> \in MapKeys
    BY EvmHostAssumption DEF Table
<1>2. \A i \in 1 .. Len(map.data) : map.data[i].val \in Vals
    <2>1. \A e \in EntryOf(Vals) : e.val \in Vals
        BY DEF EntryOf
    <2>2. \A i \in 1 .. Len(map.data) : map.data[i] \in EntryOf(Vals)
        BY <1>1, TableFields
    <2> QED BY <2>1, <2>2
<1> QED
    BY <1>1, <1>2, LookupFinds DEF Held

(* A seeded cache holds the slots that are not zero, or nothing.            *)
LEMMA SeedHolds ==
    ASSUME NEW acc \in Accounts, NEW a \in Addrs, NEW m \in Process, NEW k \in Keys
    PROVE  LET r == ReadUpdates(m, Seed(acc, a)) IN
           /\ Held(r.writes, a, k) = Nothing
           /\ Held(r.cache, a, k) # Nothing => Held(r.cache, a, k) = acc[a].slots[k]
           /\ Held(r.cache, a, k) = Nothing /\ a \in r.complete => acc[a].slots[k] = 0
<1> DEFINE used == {x \in Keys : acc[a].slots[x] # 0}
           all == Cardinality(used) < SeedLimit
           msg == Seed(acc, a)
           r == ReadUpdates(m, msg)
           L == Len(msg.slots)
<1>1. /\ msg \in SeedCmd /\ msg.addr = a /\ msg.vals = acc[a].slots /\ msg.all = all
      /\ all => msg.slots = SetToSeq(used)
    <2>1. msg = [op |-> "p", addr |-> a, all |-> all,
                 slots |-> IF all THEN SetToSeq(used) ELSE <<>>, vals |-> acc[a].slots]
        BY DEF Seed
    <2>2. msg \in SeedCmd
        BY SeedTyped
    <2> HIDE DEF msg, used, all
    <2> QED BY <2>1, <2>2
<1>2. /\ r.writes = EmptyMap /\ r.cache = (IF msg.all THEN SeedTable(msg) ELSE EmptyMap)
      /\ r.complete = (IF msg.all THEN {msg.addr} ELSE {})
    <2> HIDE DEF msg
    <2> QED BY <1>1, ReadUpdatesTyped
<1> HIDE DEF r
<1>3. Held(EmptyMap, a, k) = Nothing
    BY EmptyTable, EmptyHolds DEF Table
<1>4. CASE ~all
    BY <1>1, <1>2, <1>3, <1>4 DEF r
<1>5. CASE all
    <2>1. /\ L \in Nat /\ \A i \in 1 .. L : msg.slots[i] \in used
          /\ \A x \in used : \E i \in 1 .. L : msg.slots[i] = x
        <3>1. /\ Cardinality(used) \in Nat /\ Len(SetToSeq(used)) = Cardinality(used)
              /\ \A x \in used : \E i \in 1 .. Cardinality(used) : SetToSeq(used)[i] = x
              /\ \A i \in 1 .. Cardinality(used) : SetToSeq(used)[i] \in used
            <4>1. used \in SUBSET Keys
                OBVIOUS
            <4> HIDE DEF used
            <4> QED BY <4>1, SlotsTyped
        <3> HIDE DEF used, msg, all
        <3> QED BY <1>1, <1>5, <3>1
    <2> HIDE DEF msg, L
    <2>2. PICK h : /\ h[0] \in Table /\ h[0].data = <<>> /\ h[L] = SeedTable(msg)
                   /\ \A j \in 0 .. L : h[j] \in Table
                   /\ \A j \in 0 .. L - 1 :
                        h[j + 1] = Store(h[j], <<msg.addr, msg.slots[j + 1]>>, msg.vals[msg.slots[j + 1]])
        BY <1>1, SeedFold DEF L
    <2> DEFINE Good(j) == Held(h[j], a, k) =
                              IF \E i \in 1 .. j : msg.slots[i] = k THEN acc[a].slots[k] ELSE Nothing
               All == {j \in Nat : j <= L => Good(j)}
    <2>3. 0 \in All
        <3>1. Held(h[0], a, k) = Nothing
            BY <2>2, EmptyHolds
        <3> QED BY <3>1
    <2>4. ASSUME NEW j \in All PROVE j + 1 \in All
        <3>1. ASSUME j + 1 <= L PROVE Good(j + 1)
            <4> DEFINE x == msg.slots[j + 1]
            <4>1. Good(j) /\ j \in 0 .. L - 1 /\ j \in 0 .. L /\ j + 1 \in 1 .. L
                BY <2>1, <3>1
            <4>2. x \in Keys /\ acc[a].slots[x] \in Vals /\ h[j] \in Table
                BY <2>1, <2>2, <4>1 DEF Accounts
            <4>3. h[j + 1] = Store(h[j], <<a, x>>, acc[a].slots[x])
                BY <1>1, <2>2, <4>1
            <4>4. (\E i \in 1 .. j + 1 : msg.slots[i] = k) <=> (x = k \/ \E i \in 1 .. j : msg.slots[i] = k)
                <5>1. \A i \in 1 .. j + 1 : i \in 1 .. j \/ i = j + 1
                    OBVIOUS
                <5>2. j + 1 \in 1 .. j + 1 /\ \A i \in 1 .. j : i \in 1 .. j + 1
                    OBVIOUS
                <5> QED BY <5>1, <5>2
            <4> HIDE DEF x
            <4>5. Held(h[j + 1], a, k) = IF k = x THEN acc[a].slots[x] ELSE Held(h[j], a, k)
                BY <4>2, <4>3, StoreHolds
            <4> QED BY <4>1, <4>4, <4>5
        <3> HIDE DEF Good
        <3> QED BY <3>1
    <2>5. Good(L)
        <3> HIDE DEF Good
        <3>1. All \in SUBSET Nat
            OBVIOUS
        <3>2. All = Nat
            <4> HIDE DEF All
            <4> QED BY <2>3, <2>4, <3>1, NatSetInduction
        <3> QED BY <2>1, <3>2
    <2>6. acc[a].slots[k] \in Vals /\ Nothing \notin Vals
        BY EvmHostAssumption DEF Accounts
    <2>7. r.cache = h[L] /\ r.writes = EmptyMap
        BY <1>1, <1>2, <1>5, <2>2
    <2> HIDE DEF used
    <2>8. (\E i \in 1 .. L : msg.slots[i] = k) <=> k \in used
        BY <2>1
    <2> QED
        BY <1>3, <2>5, <2>6, <2>7, <2>8 DEF r, used, msg
<1> QED
    BY <1>4, <1>5

-----------------------------------------------------------------------------
(* A step of the innermost message, or of its process.                      *)

SamePorts ==
    /\ Len(frames') = Len(frames)
    /\ \A i \in 1 .. Len(frames) : frames'[i].port = frames[i].port

LEMMA ThisTyped ==
    ASSUME FramesOK, frames # <<>>
    PROVE  /\ Len(frames) \in 1 .. MaxDepth /\ This \in Frames /\ This.port \in Ports
           /\ \A i \in 1 .. Len(frames) : frames[i] \in Frames /\ frames[i].port \in Ports
<1>1. Len(frames) \in Nat /\ MaxDepth \in Nat /\ Len(frames) # 0
    BY EvmHostAssumption DEF FramesOK
<1>2. \A i \in 1 .. Len(frames) : frames[i] \in Frames
    BY DEF FramesOK
<1>3. \A f \in Frames : f.port \in Ports
    BY DEF Frames
<1>4. Len(frames) \in 1 .. Len(frames) /\ Len(frames) \in 1 .. MaxDepth
    BY <1>1 DEF FramesOK
<1> QED
    BY <1>2, <1>3, <1>4 DEF This

LEMMA PortsKept ==
    ASSUME PortsAreHeld, SamePorts, UNCHANGED <<pool, opened>>
    PROVE  PortsAreHeld'
<1>1. pool' = pool /\ opened' = opened /\ Len(frames') = Len(frames)
    BY DEF SamePorts
<1>2. \A i \in 1 .. Len(frames) : frames'[i].port = frames[i].port
    BY DEF SamePorts
<1>3. (opened = Len(frames) + Len(pool))'
    BY <1>1 DEF PortsAreHeld
<1>4. (\A i \in 1 .. Len(frames) : frames[i].port <= opened)'
    BY <1>1, <1>2 DEF PortsAreHeld
<1>5. (\A i \in 1 .. Len(pool) : pool[i] <= opened)'
    BY <1>1 DEF PortsAreHeld
<1>6. (\A p \in 1 .. opened : \/ \E i \in 1 .. Len(frames) : frames[i].port = p
                              \/ \E i \in 1 .. Len(pool) : pool[i] = p)'
    BY <1>1, <1>2 DEF PortsAreHeld
<1>7. (\A i, j \in 1 .. Len(frames) : frames[i].port = frames[j].port => i = j)'
    BY <1>1, <1>2 DEF PortsAreHeld
<1>8. (\A i, j \in 1 .. Len(pool) : pool[i] = pool[j] => i = j)'
    BY <1>1 DEF PortsAreHeld
<1>9. (\A i \in 1 .. Len(pool), j \in 1 .. Len(frames) : frames[j].port # pool[i])'
    BY <1>1, <1>2 DEF PortsAreHeld
<1> QED
    BY <1>3, <1>4, <1>5, <1>6, <1>7, <1>8, <1>9 DEF PortsAreHeld

LEMMA TopStep ==
    ASSUME HostInv, frames # <<>>, SamePorts, frames' \in Seq(Frames),
           NEW q \in Seq(Command), NEW m \in Process,
           toVm' = [toVm EXCEPT ![This.port] = q], vm' = [vm EXCEPT ![This.port] = m],
           mailbox' \in Seq(Message), pending' \in CallMsg \cup {Nothing},
           UNCHANGED <<world, pool, opened, evals>>, budget' \in 0 .. Budget,
           Piped(q, m.mode), Placed(m),
           Said(mailbox', m.mode, This.port, Len(frames), pending'),
           mailbox' # <<>> => Len(q) = 0,
           Waiting(pending', mailbox', m.mode, Len(frames))
    PROVE  HostInv'
<1>1. FramesOK /\ Len(frames) \in 1 .. MaxDepth /\ This.port \in Ports
    BY ThisTyped DEF HostInv, Typed
<1>2. Typed'
    BY <1>1 DEF HostInv, Typed, FramesOK, VmOK, SamePorts
<1>3. PortsAreHeld'
    BY PortsKept DEF HostInv
<1>4. /\ This'.port = This.port /\ TopMode' = m.mode /\ toVm'[This'.port] = q /\ frames' # <<>>
      /\ \A p \in Ports : p # This.port => vm'[p] = vm[p] /\ toVm'[p] = toVm[p]
      /\ vm'[This.port] = m /\ toVm'[This.port] = q
    BY <1>1 DEF HostInv, Typed, FramesOK, VmOK, SamePorts, This, TopMode
<1>5. ASSUME NEW p \in Ports
      PROVE  Piped(toVm'[p], vm'[p].mode) /\ Placed(vm'[p])
    BY <1>4 DEF HostInv, InStep
<1>6. ASSUME NEW p \in Ports, \A i \in 1 .. Len(frames') : frames'[i].port # p
      PROVE  vm'[p].mode = "cmd" /\ Len(toVm'[p]) = 0
    <2>1. \A i \in 1 .. Len(frames) : frames[i].port # p
        BY <1>6 DEF SamePorts
    <2>2. p # This.port
        BY <2>1, <1>1 DEF This
    <2> QED
        BY <1>4, <2>1, <2>2 DEF HostInv, InStep
<1>7. ASSUME NEW i \in 1 .. Len(frames') - 1
      PROVE  vm'[frames'[i].port].mode = "result" /\ Len(toVm'[frames'[i].port]) = 0
    <2>1. i \in 1 .. Len(frames) - 1 /\ i \in 1 .. Len(frames) /\ Len(frames) \in 1 .. Len(frames)
        BY <1>1 DEF SamePorts
    <2>2. frames'[i].port = frames[i].port /\ frames[i].port \in Ports
        BY <2>1, ThisTyped DEF SamePorts, HostInv, Typed
    <2>3. frames[i].port # This.port
        BY <2>1 DEF HostInv, PortsAreHeld, This
    <2> QED
        BY <1>4, <2>1, <2>2, <2>3 DEF HostInv, InStep
<1>8. Said(mailbox', TopMode', This'.port, Len(frames'), pending')
    BY <1>4 DEF SamePorts
<1>9. Waiting(pending', mailbox', TopMode', Len(frames'))
    BY <1>4 DEF SamePorts
<1>10. InStep'
    BY <1>4, <1>5, <1>6, <1>7, <1>8, <1>9 DEF InStep
<1> QED
    BY <1>2, <1>3, <1>10 DEF HostInv

(* The process whose pipe is not empty is that of the innermost message.    *)
LEMMA ReaderIsTop ==
    ASSUME HostInv, NEW p \in Ports, toVm[p] # <<>>
    PROVE  /\ frames # <<>> /\ p = This.port /\ mailbox = <<>> /\ pending = Nothing
           /\ vm[p] \in Process /\ toVm[p] \in Seq(Command) /\ toVm[p][1] \in Command
           /\ Len(toVm[p]) > 0 /\ Tail(toVm[p]) \in Seq(Command)
           /\ Piped(toVm[p], vm[p].mode) /\ Placed(vm[p])
<1>1. /\ vm[p] \in Process /\ toVm[p] \in Seq(Command) /\ Len(toVm[p]) > 0
      /\ toVm[p][1] \in Command /\ Tail(toVm[p]) \in Seq(Command)
    BY DEF HostInv, Typed, VmOK
<1>2. PICK i \in 1 .. Len(frames) : frames[i].port = p
    BY <1>1 DEF HostInv, InStep
<1>3. Len(frames) \in Nat
    BY DEF HostInv, Typed, FramesOK
<1>4. i = Len(frames)
    <2> SUFFICES ASSUME i # Len(frames) PROVE FALSE
        OBVIOUS
    <2>1. i \in 1 .. Len(frames) - 1
        BY <1>3
    <2> QED
        BY <1>1, <1>2, <2>1 DEF HostInv, InStep
<1>5. frames # <<>> /\ p = This.port
    BY <1>2, <1>3, <1>4 DEF This
<1>6. mailbox = <<>>
    BY <1>1, <1>5 DEF HostInv, InStep
<1>7. pending = Nothing
    BY <1>5, <1>6 DEF HostInv, InStep, Waiting
<1> QED
    BY <1>1, <1>5, <1>6, <1>7 DEF HostInv, InStep

LEMMA SilenceSaid ==
    ASSUME NEW mode, NEW port, NEW depth, NEW call
    PROVE  Said(<<>>, mode, port, depth, call)
    BY DEF Said

LEMMA ReadStep ==
    ASSUME HostInv, NEW p \in Ports, toVm[p] # <<>>, NEW m \in Process,
           Become(p, m), Get(p), UNCHANGED <<elixir, mailbox, budget>>,
           Piped(Tail(toVm[p]), m.mode), Placed(m)
    PROVE  HostInv'
<1>1. /\ frames # <<>> /\ p = This.port /\ mailbox = <<>> /\ pending = Nothing
      /\ Tail(toVm[p]) \in Seq(Command)
    BY ReaderIsTop
<1>2. SamePorts /\ frames' \in Seq(Frames) /\ mailbox' \in Seq(Message) /\ budget' \in 0 .. Budget
    BY DEF SamePorts, elixir, HostInv, Typed, FramesOK
<1>3. /\ toVm' = [toVm EXCEPT ![This.port] = Tail(toVm[p])] /\ vm' = [vm EXCEPT ![This.port] = m]
      /\ mailbox' = <<>> /\ pending' = Nothing /\ UNCHANGED <<world, pool, opened, evals>>
    BY <1>1 DEF Get, Become, elixir
<1>4. /\ Said(mailbox', m.mode, This.port, Len(frames), pending')
      /\ Waiting(pending', mailbox', m.mode, Len(frames))
    BY <1>3, SilenceSaid DEF Waiting
<1> QED
    BY <1>1, <1>2, <1>3, <1>4, TopStep

-----------------------------------------------------------------------------
(* What a C++ process reads.                                               *)

LEMMA Cmds ==
    ASSUME NEW c \in Command
    PROVE  /\ c.op = "p" => c \in SeedCmd
           /\ c.op = "r" => c \in RunCmd
           /\ c.op = "value" => c \in ValueCmd
           /\ c.op = "result" => c \in ResultCmd
    BY DEF Command, ContextCmd, SeedCmd, RunCmd, ValueCmd, AnswerCmd, ResultCmd

(* The pipe after its first command.                                       *)
LEMMA TailPiped ==
    ASSUME NEW q \in Seq(Command), q # <<>>, NEW mode, Piped(q, mode)
    PROVE  /\ Len(Tail(q)) = Len(q) - 1 /\ Tail(q) \in Seq(Command) /\ Head(q) = q[1]
           /\ \A i \in 1 .. Len(q) - 1 : Tail(q)[i] = q[i + 1]
    OBVIOUS

LEMMA ReadContextStep ==
    ASSUME HostInv, NEW p \in Ports, ReadContext(p)
    PROVE  HostInv'
<1>1. /\ vm[p] \in Process /\ toVm[p] \in Seq(Command) /\ Piped(toVm[p], vm[p].mode) /\ Placed(vm[p])
      /\ Len(toVm[p]) > 0 /\ vm[p].mode = "cmd" /\ toVm[p][1].op = "c" /\ toVm[p] # <<>>
    BY ReaderIsTop DEF ReadContext
<1>2. /\ Len(toVm[p]) = 3 /\ toVm[p][2].op = "p" /\ toVm[p][3].op = "r"
    BY <1>1 DEF Piped
<1>3. Piped(Tail(toVm[p]), "cmd")
    BY <1>1, <1>2, TailPiped DEF Piped
<1>4. Reset(vm[p]) \in Process /\ Reset(vm[p]).mode = "cmd"
    BY <1>1, ResetTyped
<1> QED
    BY <1>1, <1>3, <1>4, ReadStep DEF ReadContext, Placed

LEMMA ReadSeedStep ==
    ASSUME HostInv, NEW p \in Ports, ReadSeed(p)
    PROVE  HostInv'
<1> DEFINE r == ReadUpdates(vm[p], Head(toVm[p]))
           mode == IF r.mode = "seed" THEN "run" ELSE "cmd"
           m == [r EXCEPT !.mode = mode]
<1>1. /\ vm[p] \in Process /\ toVm[p] \in Seq(Command) /\ Piped(toVm[p], vm[p].mode) /\ Placed(vm[p])
      /\ Len(toVm[p]) > 0 /\ vm[p].mode \in {"cmd", "seed"} /\ toVm[p][1].op = "p" /\ toVm[p] # <<>>
      /\ toVm[p][1] \in Command /\ Head(toVm[p]) = toVm[p][1]
    BY ReaderIsTop DEF ReadSeed
<1>2. /\ r \in Process /\ r.mode = vm[p].mode /\ r.self = vm[p].self
    BY <1>1, Cmds, ReadUpdatesTyped
<1>3. Become(p, m) /\ Get(p) /\ UNCHANGED <<elixir, mailbox, budget>>
    BY DEF ReadSeed
<1> HIDE DEF r
<1>4. m \in Process /\ m.mode = mode /\ m.self = vm[p].self
    <2>1. mode \in {"cmd", "run", "gs", "query", "result", "seed"}
        OBVIOUS
    <2> HIDE DEF mode
    <2>2. r \in Process
        BY <1>2
    <2>3. m \in Process /\ m.mode = mode /\ m.self = r.self
        BY <2>1, <2>2, SetMode
    <2> HIDE DEF m
    <2> QED
        BY <1>2, <2>3
<1>5. CASE vm[p].mode = "cmd"
    <2>1. Len(toVm[p]) = 2 /\ toVm[p][2].op = "r"
        BY <1>1, <1>5 DEF Piped
    <2>2. Piped(Tail(toVm[p]), "cmd")
        BY <1>1, <1>5, <2>1, TailPiped DEF Piped
    <2>3. m.mode = "cmd"
        BY <1>2, <1>4, <1>5
    <2> HIDE DEF m
    <2> QED
        BY <1>1, <1>3, <1>4, <2>2, <2>3, ReadStep DEF Placed
<1>6. CASE vm[p].mode = "seed"
    <2>1. Len(toVm[p]) = 1
        BY <1>1, <1>6 DEF Piped
    <2>2. Piped(Tail(toVm[p]), "run")
        BY <1>1, <1>6, <2>1, TailPiped DEF Piped
    <2>3. m.mode = "run" /\ m.self \in Addrs
        BY <1>1, <1>2, <1>4, <1>6 DEF Placed
    <2> HIDE DEF m
    <2> QED
        BY <1>1, <1>3, <1>4, <2>2, <2>3, ReadStep DEF Placed
<1> QED
    BY <1>1, <1>5, <1>6

LEMMA ReadRunStep ==
    ASSUME HostInv, NEW p \in Ports, ReadRun(p)
    PROVE  HostInv'
<1> DEFINE c == Head(toVm[p])
           m1 == [vm[p] EXCEPT !.mode = "run"]
           m2 == [m1 EXCEPT !.self = c.self]
           m == [m2 EXCEPT !.value = c.value]
<1>1. /\ vm[p] \in Process /\ toVm[p] \in Seq(Command) /\ Piped(toVm[p], vm[p].mode)
      /\ Len(toVm[p]) > 0 /\ vm[p].mode = "cmd" /\ toVm[p][1].op = "r" /\ toVm[p] # <<>>
      /\ toVm[p][1] \in Command /\ c = toVm[p][1]
    BY ReaderIsTop DEF ReadRun
<1>2. c.self \in Addrs /\ c.value \in Nat
    BY <1>1, Cmds DEF RunCmd
<1>3. Become(p, m) /\ Get(p) /\ UNCHANGED <<elixir, mailbox, budget>>
    BY DEF ReadRun
<1> HIDE DEF c
<1>4. m1 \in Process /\ m1.mode = "run"
    BY <1>1, SetMode
<1> HIDE DEF m1
<1>5. m2 \in Process /\ m2.mode = "run" /\ m2.self \in Addrs
    BY <1>2, <1>4, SetSelf
<1> HIDE DEF m2
<1>6. m \in Process /\ m.mode = "run" /\ m.self \in Addrs
    BY <1>2, <1>5, SetValue
<1> HIDE DEF m
<1>7. Len(toVm[p]) = 1
    BY <1>1 DEF Piped
<1>8. Piped(Tail(toVm[p]), "run")
    BY <1>1, <1>7, TailPiped DEF Piped
<1> QED
    BY <1>1, <1>3, <1>6, <1>8, ReadStep DEF Placed

LEMMA WrittenTyped ==
    ASSUME NEW m \in Process, m.self \in Addrs, NEW k \in Keys, NEW v \in Vals
    PROVE  LET r == Written(m, k, v) IN
           /\ r \in Process /\ r.mode = m.mode /\ r.self = m.self
           /\ r.pend = m.pend /\ r.complete = m.complete
           /\ r.cache = Store(m.cache, At(m, k), v) /\ r.writes = Store(m.writes, At(m, k), v)
<1> DEFINE m1 == [m EXCEPT !.cache = Store(@, At(m, k), v)]
           m2 == [m1 EXCEPT !.writes = Store(@, At(m, k), v)]
<1>1. At(m, k) \in MapKeys
    BY EvmHostAssumption DEF At
<1>2. /\ Store(m.cache, At(m, k), v) \in Table /\ Store(m.writes, At(m, k), v) \in Table
    BY <1>1, StoreKeepsTable DEF Process, Table
<1>3. m1 = [m EXCEPT !.cache = Store(m.cache, At(m, k), v)]
    BY DEF Process
<1>4. /\ m1 \in Process /\ m1.mode = m.mode /\ m1.self = m.self /\ m1.writes = m.writes
      /\ m1.pend = m.pend /\ m1.complete = m.complete /\ m1.cache = Store(m.cache, At(m, k), v)
    <2> HIDE DEF m1
    <2> QED BY <1>2, <1>3, SetCache
<1>5. Written(m, k, v) = m2
    BY DEF Written
<1> HIDE DEF m1
<1>6. m2 = [m1 EXCEPT !.writes = Store(m.writes, At(m, k), v)]
    BY <1>4 DEF Process
<1> HIDE DEF m2
<1>7. /\ m2 \in Process /\ m2.mode = m.mode /\ m2.self = m.self
      /\ m2.pend = m.pend /\ m2.complete = m.complete
      /\ m2.cache = Store(m.cache, At(m, k), v) /\ m2.writes = Store(m.writes, At(m, k), v)
    BY <1>2, <1>4, <1>6, SetWrites
<1> QED
    BY <1>5, <1>7

LEMMA ReadValueStep ==
    ASSUME HostInv, NEW p \in Ports, ReadValue(p)
    PROVE  HostInv'
<1> DEFINE c == Head(toVm[p])
           k == vm[p].pend.key
           v == vm[p].pend.val
           new == Store(vm[p].cache, At(vm[p], k), c.val)
           m1 == [vm[p] EXCEPT !.mode = "run"]
           m2 == [m1 EXCEPT !.pend = NoPend]
           m3 == [m2 EXCEPT !.cache = new]
           m == IF v = Nothing THEN m3 ELSE Written(m3, k, v)
<1>1. /\ vm[p] \in Process /\ toVm[p] \in Seq(Command) /\ Piped(toVm[p], vm[p].mode) /\ Placed(vm[p])
      /\ Len(toVm[p]) > 0 /\ vm[p].mode = "gs" /\ toVm[p] # <<>>
      /\ toVm[p][1] \in Command /\ c = toVm[p][1]
    BY ReaderIsTop DEF ReadValue
<1>2. Len(toVm[p]) = 1 /\ c.op = "value" /\ c.val \in Vals
    BY <1>1, Cmds DEF Piped, ValueCmd
<1>3. vm[p].self \in Addrs /\ k \in Keys /\ v \in Vals \cup {Nothing} /\ vm[p].cache \in Table
    BY <1>1 DEF Placed, Process
<1>4. new \in Table
    <2>1. At(vm[p], k) \in MapKeys
        BY <1>3, EvmHostAssumption DEF At
    <2> QED
        BY <1>2, <1>3, <2>1, StoreKeepsTable DEF Table
<1>5. m1 \in Process /\ m1.mode = "run" /\ m1.self = vm[p].self /\ m1.cache = vm[p].cache
    BY <1>1, SetMode
<1>6. Become(p, m) /\ Get(p) /\ UNCHANGED <<elixir, mailbox, budget>>
    <2>1. NoPend \in [key : Keys \cup {Nothing}, val : Vals \cup {Nothing}]
        BY DEF NoPend
    <2>2. m2 \in Process /\ m2.cache = vm[p].cache
        <3> HIDE DEF m1
        <3> QED BY <1>5, <2>1, SetPend
    <2>3. m3 = [m2 EXCEPT !.cache = Store(@, At(vm[p], k), c.val)]
        <3> HIDE DEF m2, c, k
        <3> QED BY <2>2 DEF Process
    <2> QED
        BY <2>3 DEF ReadValue
<1> HIDE DEF m1
<1>7. m2 \in Process /\ m2.mode = "run" /\ m2.self = vm[p].self
    <2>1. NoPend \in [key : Keys \cup {Nothing}, val : Vals \cup {Nothing}]
        BY DEF NoPend
    <2> QED BY <1>5, <2>1, SetPend
<1> HIDE DEF m2, new
<1>8. m3 \in Process /\ m3.mode = "run" /\ m3.self = vm[p].self
    BY <1>4, <1>7, SetCache
<1> HIDE DEF m3, k, v
<1>9. m \in Process /\ m.mode = "run" /\ m.self \in Addrs
    BY <1>3, <1>8, WrittenTyped
<1>10. Piped(Tail(toVm[p]), "run")
    BY <1>1, <1>2, TailPiped DEF Piped
<1> HIDE DEF m
<1> QED
    BY <1>1, <1>6, <1>9, <1>10, ReadStep DEF Placed

LEMMA ReadAnswerStep ==
    ASSUME HostInv, NEW p \in Ports, ReadAnswer(p)
    PROVE  HostInv'
<1> DEFINE m == [vm[p] EXCEPT !.mode = "run"]
<1>1. /\ vm[p] \in Process /\ toVm[p] \in Seq(Command) /\ Piped(toVm[p], vm[p].mode) /\ Placed(vm[p])
      /\ Len(toVm[p]) > 0 /\ vm[p].mode = "query" /\ toVm[p] # <<>>
    BY ReaderIsTop DEF ReadAnswer
<1>2. m \in Process /\ m.mode = "run" /\ m.self = vm[p].self
    BY <1>1, SetMode
<1>3. Piped(Tail(toVm[p]), "run")
    BY <1>1, TailPiped DEF Piped
<1>4. Become(p, m) /\ Get(p) /\ UNCHANGED <<elixir, mailbox, budget>>
    BY DEF ReadAnswer
<1> HIDE DEF m
<1> QED
    BY <1>1, <1>2, <1>3, <1>4, ReadStep DEF Placed

LEMMA ReadResultStep ==
    ASSUME HostInv, NEW p \in Ports, ReadResult(p)
    PROVE  HostInv'
<1> DEFINE mode == IF Head(toVm[p]).ok THEN "seed" ELSE "run"
           m == [vm[p] EXCEPT !.mode = mode]
<1>1. /\ vm[p] \in Process /\ toVm[p] \in Seq(Command) /\ Piped(toVm[p], vm[p].mode) /\ Placed(vm[p])
      /\ Len(toVm[p]) > 0 /\ vm[p].mode = "result" /\ toVm[p] # <<>>
      /\ Head(toVm[p]) = toVm[p][1]
    BY ReaderIsTop DEF ReadResult
<1>2. m \in Process /\ m.mode = mode /\ m.self = vm[p].self
    <2>1. mode \in {"cmd", "run", "gs", "query", "result", "seed"}
        OBVIOUS
    <2> HIDE DEF mode
    <2> QED
        BY <1>1, <2>1, SetMode
<1>3. Piped(Tail(toVm[p]), mode)
    <2>1. CASE Head(toVm[p]).ok
        <3>1. Len(toVm[p]) = 2 /\ toVm[p][2].op = "p"
            BY <1>1, <2>1 DEF Piped
        <3> QED
            BY <1>1, <2>1, <3>1, TailPiped DEF Piped
    <2>2. CASE ~Head(toVm[p]).ok
        <3>1. Len(toVm[p]) = 1
            BY <1>1, <2>2 DEF Piped
        <3> QED
            BY <1>1, <2>2, <3>1, TailPiped DEF Piped
    <2> QED
        BY <2>1, <2>2
<1>4. Become(p, m) /\ Get(p) /\ UNCHANGED <<elixir, mailbox, budget>>
    BY DEF ReadResult
<1>5. mode # "gs"
    OBVIOUS
<1> HIDE DEF m, mode
<1> QED
    BY <1>1, <1>2, <1>3, <1>4, <1>5, ReadStep DEF Placed

-----------------------------------------------------------------------------
(* What a C++ process says.                                                *)

(* A process that runs is that of the innermost message, and the mailbox    *)
(* holds nothing but its logs.                                             *)
LEMMA RunnerIsTop ==
    ASSUME HostInv, NEW p \in Ports, vm[p].mode = "run"
    PROVE  /\ frames # <<>> /\ p = This.port /\ pending = Nothing
           /\ vm[p] \in Process /\ vm[p].self \in Addrs /\ toVm[p] \in Seq(Command)
           /\ Len(toVm[p]) = 0 /\ mailbox \in Seq(Message)
           /\ \A i \in 1 .. Len(mailbox) : mailbox[i].op = "lo" /\ mailbox[i].port = p
<1>1. vm[p] \in Process /\ toVm[p] \in Seq(Command) /\ mailbox \in Seq(Message) /\ Len(frames) \in Nat
    BY DEF HostInv, Typed, VmOK, FramesOK
<1>2. PICK i \in 1 .. Len(frames) : frames[i].port = p
    BY DEF HostInv, InStep
<1>3. i = Len(frames)
    <2> SUFFICES ASSUME i # Len(frames) PROVE FALSE
        OBVIOUS
    <2>1. i \in 1 .. Len(frames) - 1
        BY <1>1
    <2> QED
        BY <1>2, <2>1 DEF HostInv, InStep
<1>4. frames # <<>> /\ p = This.port /\ TopMode = "run"
    BY <1>1, <1>2, <1>3 DEF This, TopMode
<1>5. pending = Nothing
    BY <1>4 DEF HostInv, InStep, Waiting
<1>6. \A j \in 1 .. Len(mailbox) : mailbox[j].op = "lo" /\ mailbox[j].port = p
    BY <1>4 DEF HostInv, InStep, Said, SaidBy
<1>7. Len(toVm[p]) = 0 /\ vm[p].self \in Addrs
    BY DEF HostInv, InStep, Piped, Placed
<1> QED
    BY <1>1, <1>4, <1>5, <1>6, <1>7

(* Messages after logs.                                                    *)
LEMMA SaidAfterLogs ==
    ASSUME NEW box \in Seq(Message), NEW msgs \in Seq(Message),
           NEW mode \in {"run", "gs", "query", "result", "cmd"}, NEW port, NEW depth, NEW call,
           \A i \in 1 .. Len(box) : box[i].op = "lo" /\ box[i].port = port,
           Said(msgs, mode, port, depth, call),
           mode = "result" => Len(msgs) = 0 \/ msgs[1].op # "su"
    PROVE  Said(box \o msgs, mode, port, depth, call)
<1> DEFINE all == box \o msgs
           n == Len(box)
<1>1. n \in Nat /\ Len(msgs) \in Nat /\ Len(all) = n + Len(msgs)
    OBVIOUS
<1>2. \A i \in 1 .. n : all[i] = box[i]
    OBVIOUS
<1>3. \A i \in 1 .. Len(msgs) : all[n + i] = msgs[i]
    OBVIOUS
<1> HIDE DEF all
<1>4. SUFFICES ASSUME NEW i \in 1 .. Len(all)
               PROVE
        /\ all[i].port = port
        /\ all[i].op \in SaidBy(mode)
        /\ all[i].op \in {"gs", "query", "ok"} => i = Len(all)
        /\ all[i].op = "sd" => i + 2 = Len(all) /\ all[i + 1].op = "su"
        /\ all[i].op = "ca" => i + 1 = Len(all) /\ all[i + 1].op = "su" /\ depth < MaxDepth
        /\ mode = "result" /\ all[i].op = "su" =>
              IF i = 1 THEN call # Nothing ELSE all[i - 1].op = "ca"
        /\ mode = "cmd" /\ all[i].op = "su" => i + 1 = Len(all) /\ all[i + 1].op = "ok"
    BY DEF Said, all
<1>5. CASE i <= n
    <2>1. all[i].op = "lo" /\ all[i].port = port
        BY <1>1, <1>2, <1>5
    <2> QED
        BY <2>1 DEF SaidBy
<1>6. CASE i > n
    <2> DEFINE j == i - n
    <2>1. j \in 1 .. Len(msgs) /\ i = n + j
        BY <1>1, <1>6
    <2>2. all[i] = msgs[j] /\ (j < Len(msgs) => all[i + 1] = msgs[j + 1])
        <3>1. j < Len(msgs) => j + 1 \in 1 .. Len(msgs) /\ i + 1 = n + (j + 1)
            BY <1>1, <2>1
        <3> QED
            BY <1>3, <2>1, <3>1
    <2>3. j > 1 => all[i - 1] = msgs[j - 1] /\ i # 1
        <3>1. j > 1 => j - 1 \in 1 .. Len(msgs) /\ i - 1 = n + (j - 1) /\ i # 1
            BY <1>1, <2>1
        <3> QED
            BY <1>3, <3>1
    <2> HIDE DEF j
    <2>4. /\ msgs[j].port = port
          /\ msgs[j].op \in SaidBy(mode)
          /\ msgs[j].op \in {"gs", "query", "ok"} => j = Len(msgs)
          /\ msgs[j].op = "sd" => j + 2 = Len(msgs) /\ msgs[j + 1].op = "su"
          /\ msgs[j].op = "ca" => j + 1 = Len(msgs) /\ msgs[j + 1].op = "su" /\ depth < MaxDepth
          /\ mode = "result" /\ msgs[j].op = "su" =>
                IF j = 1 THEN call # Nothing ELSE msgs[j - 1].op = "ca"
          /\ mode = "cmd" /\ msgs[j].op = "su" => j + 1 = Len(msgs) /\ msgs[j + 1].op = "ok"
        BY <2>1 DEF Said
    <2>5. mode = "result" /\ msgs[j].op = "su" => j > 1
        BY <2>1
    <2>6. i + 1 = Len(all) <=> j + 1 = Len(msgs)
        <3>1. i + 1 = n + (j + 1) /\ j + 1 \in Int
            BY <1>1, <2>1
        <3> HIDE DEF n
        <3> QED
            BY <1>1, <3>1
    <2>7. i = Len(all) <=> j = Len(msgs)
        BY <1>1, <2>1
    <2>10. i + 2 = Len(all) <=> j + 2 = Len(msgs)
        <3>1. i + 2 = n + (j + 2) /\ j + 2 \in Int
            BY <1>1, <2>1
        <3> HIDE DEF n
        <3> QED
            BY <1>1, <3>1
    <2>8. (j + 1 = Len(msgs) => j < Len(msgs)) /\ (j + 2 = Len(msgs) => j < Len(msgs))
        BY <1>1, <2>1
    <2>9. mode = "result" /\ all[i].op = "su" => i # 1 /\ all[i - 1].op = "ca"
        BY <2>2, <2>3, <2>4, <2>5
    <2> QED
        BY <2>2, <2>4, <2>6, <2>7, <2>8, <2>9, <2>10
<1> QED
    BY <1>1, <1>5, <1>6

LEMMA SpeakStep ==
    ASSUME HostInv, NEW p \in Ports, vm[p].mode = "run", NEW msgs \in Seq(Message),
           NEW m \in Process, m.mode \in {"run", "gs", "query", "result", "cmd"}, Placed(m),
           vm' = [vm EXCEPT ![p] = m], Send(msgs), UNCHANGED <<elixir, toVm>>, budget' \in 0 .. Budget,
           Said(msgs, m.mode, p, Len(frames), Nothing),
           m.mode = "result" => Len(msgs) = 0 \/ msgs[1].op # "su"
    PROVE  HostInv'
<1>1. /\ frames # <<>> /\ p = This.port /\ pending = Nothing
      /\ toVm[p] \in Seq(Command) /\ Len(toVm[p]) = 0 /\ mailbox \in Seq(Message)
      /\ \A i \in 1 .. Len(mailbox) : mailbox[i].op = "lo" /\ mailbox[i].port = p
    BY RunnerIsTop
<1>2. SamePorts /\ frames' \in Seq(Frames) /\ pending' = Nothing /\ UNCHANGED <<world, pool, opened, evals>>
    BY <1>1 DEF SamePorts, elixir, HostInv, Typed, FramesOK
<1>3. toVm' = [toVm EXCEPT ![This.port] = toVm[p]] /\ vm' = [vm EXCEPT ![This.port] = m]
    BY <1>1 DEF HostInv, Typed
<1>4. mailbox' = mailbox \o msgs /\ mailbox' \in Seq(Message)
    BY <1>1 DEF Send
<1>5. Said(mailbox', m.mode, This.port, Len(frames), pending')
    BY <1>1, <1>2, <1>4, SaidAfterLogs
<1>6. Piped(toVm[p], m.mode)
    BY <1>1 DEF Piped
<1>7. Waiting(pending', mailbox', m.mode, Len(frames))
    BY <1>2 DEF Waiting
<1> QED
    BY <1>1, <1>2, <1>3, <1>4, <1>5, <1>6, <1>7, TopStep

(* One message after which the process waits or goes on.                    *)
LEMMA OneMessage ==
    ASSUME NEW x \in Message, NEW mode, NEW port, NEW depth, NEW call,
           x.port = port, x.op \in SaidBy(mode) \ {"sd", "ca", "su"}
    PROVE  <<x>> \in Seq(Message) /\ Len(<<x>>) = 1 /\ Said(<<x>>, mode, port, depth, call)
    BY DEF Said

LEMMA RunningTyped ==
    ASSUME HostInv, NEW p \in Ports, Running(p), Spend
    PROVE  vm[p].mode = "run" /\ budget' \in 0 .. Budget
    BY EvmHostAssumption DEF Running, Spend, HostInv, Typed

LEMMA AskStep ==
    ASSUME HostInv, NEW p \in Ports, Running(p), Spend, NEW k \in Keys, NEW v \in Vals \cup {Nothing},
           Ask(p, k, v), UNCHANGED <<elixir, toVm>>
    PROVE  HostInv'
<1> DEFINE old == vm[p]
           msg == [port |-> p, op |-> "gs", addr |-> old.self, key |-> k]
           m1 == [old EXCEPT !.mode = "gs"]
           m2 == [m1 EXCEPT !.cache = Grown(old.cache)]
           pend == [key |-> k, val |-> v]
           m == [m2 EXCEPT !.pend = pend]
<1>1. /\ old.mode = "run" /\ budget' \in 0 .. Budget /\ old \in Process /\ old.self \in Addrs
    BY RunningTyped, RunnerIsTop
<1>2. m1 \in Process /\ m1.mode = "gs" /\ m1.self = old.self /\ m1.cache = old.cache
    BY <1>1, SetMode
<1>3. Grown(old.cache) \in Table
    BY <1>1, GrownKeeps DEF Process, Table
<1>4. vm' = [vm EXCEPT ![p] = m] /\ Send(<<msg>>)
    <2>1. m2 = [m1 EXCEPT !.cache = Grown(@)]
        <3> HIDE DEF m1
        <3> QED BY <1>2 DEF Process
    <2> QED
        BY <2>1 DEF Ask, Become
<1> HIDE DEF m1
<1>5. m2 \in Process /\ m2.mode = "gs" /\ m2.self = old.self
    BY <1>2, <1>3, SetCache
<1> HIDE DEF m2
<1>6. m \in Process /\ m.mode = "gs" /\ m.self = old.self /\ m.pend = pend
    BY <1>5, SetPend
<1>7. Placed(m)
    BY <1>1, <1>6 DEF Placed
<1>8. msg \in Message /\ msg.port = p /\ msg.op = "gs"
    BY <1>1 DEF Message, ReadMsg
<1> HIDE DEF m, msg, old
<1>9. <<msg>> \in Seq(Message) /\ Said(<<msg>>, "gs", p, Len(frames), Nothing)
    BY <1>8, OneMessage DEF SaidBy
<1> QED
    BY <1>1, <1>4, <1>6, <1>7, <1>9, SpeakStep DEF old

(* The process goes on without a word.                                     *)
LEMMA SilentStep ==
    ASSUME HostInv, NEW p \in Ports, Running(p), Spend, NEW m \in Process,
           m.mode = "run", m.self \in Addrs, Become(p, m), UNCHANGED <<elixir, mailbox, toVm>>
    PROVE  HostInv'
<1>1. vm[p].mode = "run" /\ budget' \in 0 .. Budget
    BY RunningTyped
<1>2. <<>> \in Seq(Message) /\ Send(<<>>)
    BY DEF Send, HostInv, Typed
<1> QED
    BY <1>1, <1>2, SilenceSaid, SpeakStep DEF Become, Placed

LEMMA LoadSlotStep ==
    ASSUME HostInv, NEW p \in Ports, NEW k \in Keys, LoadSlot(p, k)
    PROVE  HostInv'
<1>1. CASE Cached(vm[p], k) # Nothing
    <2> DEFINE m == [vm[p] EXCEPT !.cache = Grown(@)]
    <2>1. vm[p].mode = "run" /\ vm[p] \in Process /\ vm[p].self \in Addrs
        BY RunningTyped, RunnerIsTop DEF LoadSlot
    <2>2. Grown(vm[p].cache) \in Table /\ m = [vm[p] EXCEPT !.cache = Grown(vm[p].cache)]
        BY <2>1, GrownKeeps DEF Process, Table
    <2>3. Become(p, m) /\ UNCHANGED <<elixir, mailbox, toVm>>
        BY <1>1 DEF LoadSlot
    <2> HIDE DEF m
    <2>4. m \in Process /\ m.mode = "run" /\ m.self \in Addrs
        BY <2>1, <2>2, SetCache
    <2> QED
        BY <2>3, <2>4, SilentStep DEF LoadSlot
<1>2. CASE Cached(vm[p], k) = Nothing
    BY <1>2, AskStep DEF LoadSlot
<1> QED
    BY <1>1, <1>2

LEMMA StoreSlotStep ==
    ASSUME HostInv, NEW p \in Ports, NEW k \in Keys, NEW v \in Vals, StoreSlot(p, k, v)
    PROVE  HostInv'
<1>1. CASE Cached(vm[p], k) # Nothing
    <2>1. vm[p].mode = "run" /\ vm[p] \in Process /\ vm[p].self \in Addrs
        BY RunningTyped, RunnerIsTop DEF StoreSlot
    <2>2. Become(p, Written(vm[p], k, v)) /\ UNCHANGED <<elixir, mailbox, toVm>>
        BY <1>1 DEF StoreSlot
    <2> QED
        BY <2>1, <2>2, WrittenTyped, SilentStep DEF StoreSlot
<1>2. CASE Cached(vm[p], k) = Nothing
    BY <1>2, AskStep DEF StoreSlot
<1> QED
    BY <1>1, <1>2

LEMMA QueryStep ==
    ASSUME HostInv, NEW p \in Ports, NEW beyond \in BOOLEAN, Query(p, beyond)
    PROVE  HostInv'
<1> DEFINE m == [vm[p] EXCEPT !.mode = "query"]
           msg == [port |-> p, op |-> "query", beyond |-> beyond]
<1>1. /\ vm[p].mode = "run" /\ vm[p] \in Process /\ vm[p].self \in Addrs /\ budget' \in 0 .. Budget
    BY RunningTyped, RunnerIsTop DEF Query
<1>2. m \in Process /\ m.mode = "query" /\ m.self = vm[p].self
    BY <1>1, SetMode
<1>3. msg \in Message /\ msg.port = p /\ msg.op = "query"
    BY DEF Message, QueryMsg
<1>4. vm' = [vm EXCEPT ![p] = m] /\ Send(<<msg>>) /\ UNCHANGED <<elixir, toVm>>
    BY DEF Query, Become
<1> HIDE DEF m, msg
<1>5. <<msg>> \in Seq(Message) /\ Said(<<msg>>, "query", p, Len(frames), Nothing)
    BY <1>3, OneMessage DEF SaidBy
<1> QED
    BY <1>1, <1>2, <1>4, <1>5, SpeakStep DEF Placed

LEMMA EmitLogStep ==
    ASSUME HostInv, NEW p \in Ports, NEW topics \in 0 .. 4, EmitLog(p, topics)
    PROVE  HostInv'
<1> DEFINE msg == [port |-> p, op |-> "lo", topics |-> topics]
<1>1. /\ vm[p].mode = "run" /\ vm[p] \in Process /\ vm[p].self \in Addrs /\ budget' \in 0 .. Budget
    BY RunningTyped, RunnerIsTop DEF EmitLog
<1>2. msg \in Message /\ msg.port = p /\ msg.op = "lo"
    BY DEF Message, LogMsg
<1>3. vm' = [vm EXCEPT ![p] = vm[p]] /\ Send(<<msg>>) /\ UNCHANGED <<elixir, toVm>>
    BY DEF EmitLog, HostInv, Typed, VmOK
<1> HIDE DEF msg
<1>4. <<msg>> \in Seq(Message) /\ Said(<<msg>>, "run", p, Len(frames), Nothing)
    BY <1>2, OneMessage DEF SaidBy
<1> QED
    BY <1>1, <1>3, <1>4, SpeakStep DEF Placed

(* A sequence of one and one of two.                                       *)
LEMMA OneAndTwo ==
    ASSUME NEW S, NEW s \in Seq(S), NEW t \in Seq(S), Len(s) = 1, Len(t) = 2
    PROVE  /\ s \o t \in Seq(S) /\ Len(s \o t) = 3
           /\ (s \o t)[1] = s[1] /\ (s \o t)[2] = t[1] /\ (s \o t)[3] = t[2]
<1> DEFINE r == s \o t
<1>1. /\ r \in Seq(S) /\ Len(r) = Len(s) + Len(t)
      /\ \A i \in 1 .. Len(s) + Len(t) : r[i] = IF i <= Len(s) THEN s[i] ELSE t[i - Len(s)]
    BY ConcatProperties
<1> HIDE DEF r
<1>2. Len(r) = 3 /\ \A i \in 1 .. 3 : r[i] = IF i <= 1 THEN s[i] ELSE t[i - 1]
    BY <1>1
<1>3. r[1] = s[1] /\ r[2] = t[1] /\ r[3] = t[2]
    BY <1>2
<1> QED
    BY <1>1, <1>2, <1>3 DEF r

LEMMA UpdatesTyped ==
    ASSUME HostInv, NEW p \in Ports
    PROVE  Updates(p) \in Message /\ Updates(p).port = p /\ Updates(p).op = "su"
<1>1. vm[p].writes.data \in Seq(Entry)
    BY DEF HostInv, Typed, VmOK, Process, Table, TableOf, Entry
<1> QED
    BY <1>1 DEF Updates, Entries, Message, UpdateMsg

LEMMA CallStep ==
    ASSUME HostInv, NEW p \in Ports, NEW kind \in Kinds, NEW to \in Addrs, NEW value \in Nat,
           Call(p, kind, to, value)
    PROVE  HostInv'
<1> DEFINE m == [vm[p] EXCEPT !.mode = "result"]
           worth == IF kind = "delegate" THEN vm[p].value ELSE value
           msg == [port |-> p, op |-> "ca", kind |-> kind, to |-> to, value |-> worth]
           msgs == <<msg, Updates(p)>>
<1>1. /\ vm[p].mode = "run" /\ vm[p] \in Process /\ vm[p].self \in Addrs /\ budget' \in 0 .. Budget
    BY RunningTyped, RunnerIsTop DEF Call
<1>2. m \in Process /\ m.mode = "result" /\ m.self = vm[p].self
    BY <1>1, SetMode
<1>3. worth \in Nat
    BY <1>1 DEF Process
<1>4. vm' = [vm EXCEPT ![p] = m] /\ Send(msgs) /\ UNCHANGED <<elixir, toVm>> /\ Len(frames) < MaxDepth
    BY DEF Call, Become
<1> HIDE DEF worth
<1>5. msg \in Message /\ msg.port = p /\ msg.op = "ca"
    BY <1>3 DEF Message, CallMsg
<1>6. Updates(p) \in Message /\ Updates(p).port = p /\ Updates(p).op = "su"
    BY UpdatesTyped
<1> HIDE DEF m, msg
<1>7. msgs \in Seq(Message) /\ Len(msgs) = 2 /\ msgs[1] = msg /\ msgs[2] = Updates(p)
    BY <1>5, <1>6
<1> HIDE DEF msgs
<1>8. Said(msgs, "result", p, Len(frames), Nothing)
    BY <1>4, <1>5, <1>6, <1>7 DEF Said, SaidBy
<1> QED
    BY <1>1, <1>2, <1>4, <1>5, <1>7, <1>8, SpeakStep DEF Placed

LEMMA FinishStep ==
    ASSUME HostInv, NEW p \in Ports, NEW ok \in BOOLEAN, NEW dies \in BOOLEAN, Finish(p, ok, dies)
    PROVE  HostInv'
<1> DEFINE m == [vm[p] EXCEPT !.mode = "cmd"]
           last == [port |-> p, op |-> "ok", ok |-> ok]
           death == [port |-> p, op |-> "sd"]
           msgs == selfdestruct(p, dies) \o <<Updates(p), last>>
<1>1. /\ vm[p].mode = "run" /\ vm[p] \in Process /\ budget' \in 0 .. Budget
    BY DEF Finish, HostInv, Typed, VmOK
<1>2. m \in Process /\ m.mode = "cmd" /\ m.self = vm[p].self
    BY <1>1, SetMode
<1>3. vm' = [vm EXCEPT ![p] = m] /\ Send(msgs) /\ UNCHANGED <<elixir, toVm>>
    BY DEF Finish, Become
<1>4. last \in Message /\ last.port = p /\ last.op = "ok"
    BY DEF Message, EndMsg
<1>5. Updates(p) \in Message /\ Updates(p).port = p /\ Updates(p).op = "su"
    BY UpdatesTyped
<1>6. death \in Message /\ death.port = p /\ death.op = "sd"
    BY DEF Message, DeathMsg
<1> DEFINE rest == <<Updates(p), last>>
<1>7. msgs = (IF dies THEN <<death>> ELSE <<>>) \o rest
    BY DEF selfdestruct, Msg
<1> HIDE DEF m, msgs, last, death
<1>8. rest \in Seq(Message) /\ Len(rest) = 2 /\ rest[1] = Updates(p) /\ rest[2] = last
    BY <1>4, <1>5
<1> HIDE DEF rest
<1>9. msgs \in Seq(Message) /\ Said(msgs, "cmd", p, Len(frames), Nothing)
    <2>1. CASE dies
        <3> DEFINE first == <<death>>
        <3>1. first \in Seq(Message) /\ Len(first) = 1 /\ first[1] = death
            BY <1>6
        <3>2. msgs = first \o rest
            BY <1>7, <2>1
        <3> HIDE DEF first
        <3>3. /\ msgs \in Seq(Message) /\ Len(msgs) = 3
              /\ msgs[1] = death /\ msgs[2] = Updates(p) /\ msgs[3] = last
            BY <1>8, <3>1, <3>2, OneAndTwo
        <3> QED
            BY <1>4, <1>5, <1>6, <3>3 DEF Said, SaidBy
    <2>2. CASE ~dies
        <3>1. msgs = rest
            BY <1>7, <1>8, <2>2
        <3>2. msgs \in Seq(Message) /\ Len(msgs) = 2 /\ msgs[1] = Updates(p) /\ msgs[2] = last
            BY <1>8, <3>1
        <3> QED
            BY <1>4, <1>5, <3>2 DEF Said, SaidBy
    <2> QED
        BY <2>1, <2>2
<1> QED
    BY <1>1, <1>2, <1>3, <1>9, SpeakStep DEF Placed

LEMMA VmStepKeeps ==
    ASSUME HostInv, NEW p \in Ports, VmStep(p)
    PROVE  HostInv'
<1>1. CASE \/ ReadContext(p) \/ ReadSeed(p) \/ ReadRun(p) \/ ReadValue(p) \/ ReadAnswer(p)
           \/ ReadResult(p)
    BY <1>1, ReadContextStep, ReadSeedStep, ReadRunStep, ReadValueStep, ReadAnswerStep, ReadResultStep
<1>2. CASE Running(p) /\ \E step \in Does[vm[p].self] : CodeStep(p, step)
    <2>1. vm[p].self \in Addrs
        BY <1>2, RunnerIsTop DEF Running
    <2>2. PICK step \in Does[vm[p].self] : CodeStep(p, step)
        BY <1>2
    <2>3. step \in Steps
        BY <2>1, <2>2, EvmHostAssumption
    <2>4. CASE step.op = "load" /\ LoadSlot(p, step.key)
        <3>1. step.key \in Keys
            BY <2>3, <2>4 DEF Steps
        <3> QED
            BY <2>4, <3>1, LoadSlotStep
    <2>5. CASE step.op = "store" /\ StoreSlot(p, step.key, step.val)
        <3>1. step.key \in Keys /\ step.val \in Vals
            BY <2>3, <2>5 DEF Steps
        <3> QED
            BY <2>5, <3>1, StoreSlotStep
    <2>6. CASE step.op = "query" /\ Query(p, step.beyond)
        <3>1. step.beyond \in BOOLEAN
            BY <2>3, <2>6 DEF Steps
        <3> QED
            BY <2>6, <3>1, QueryStep
    <2>7. CASE step.op = "log" /\ EmitLog(p, step.topics)
        <3>1. step.topics \in 0 .. 4
            BY <2>3, <2>7 DEF Steps
        <3> QED
            BY <2>7, <3>1, EmitLogStep
    <2>8. CASE step.op = "call" /\ Call(p, step.kind, step.to, step.value)
        <3>1. step.kind \in Kinds /\ step.to \in Addrs /\ step.value \in Nat
            BY <2>3, <2>8 DEF Steps
        <3> QED
            BY <2>8, <3>1, CallStep
    <2> QED
        BY <2>2, <2>4, <2>5, <2>6, <2>7, <2>8 DEF CodeStep
<1>3. CASE \E ok, dies \in BOOLEAN : Finish(p, ok, dies)
    BY <1>3, FinishStep
<1> QED
    BY <1>1, <1>2, <1>3 DEF VmStep

-----------------------------------------------------------------------------
(* What the Elixir process does with a message.                             *)

AccountT == [live : BOOLEAN, code : BOOLEAN, slots : [Keys -> Vals], bal : Int]

LEMMA TransferredTyped ==
    ASSUME NEW acc \in Accounts, NEW from \in Addrs, NEW to \in Addrs, NEW value \in Nat
    PROVE  Transferred(acc, from, to, value) \in Accounts
<1> DEFINE yes == TRUE
           payer == [acc[from] EXCEPT !.bal = @ - value]
           acc1 == [acc EXCEPT ![from] = payer]
           mid == [acc1[to] EXCEPT !.bal = @ + value]
           acc2 == [acc1 EXCEPT ![to] = mid]
           payee == [acc2[to] EXCEPT !.live = yes]
           acc3 == [acc2 EXCEPT ![to] = payee]
<1>2. \A b \in AccountT : [b EXCEPT !.live = yes] \in AccountT
    BY DEF AccountT
<1>3. acc \in [Addrs -> AccountT]
    BY DEF Accounts, AccountT
<1>4. payer \in AccountT
    BY <1>3 DEF AccountT
<1>5. acc1 \in [Addrs -> AccountT]
    <2> HIDE DEF payer
    <2> QED BY <1>3, <1>4
<1>6. mid \in AccountT
    <2> HIDE DEF acc1
    <2> QED BY <1>5 DEF AccountT
<1>7. acc2 \in [Addrs -> AccountT]
    <2> HIDE DEF mid, acc1
    <2> QED BY <1>5, <1>6
<1>8. payee \in AccountT
    <2> HIDE DEF acc2, yes
    <2> QED BY <1>2, <1>7
<1>9. acc3 \in [Addrs -> AccountT]
    <2> HIDE DEF payee, acc2
    <2> QED BY <1>7, <1>8
<1>10. Transferred(acc, from, to, value) = IF value = 0 \/ from = to THEN acc ELSE acc3
    BY DEF Transferred
<1> HIDE DEF acc3
<1> QED
    BY <1>9, <1>10 DEF Accounts, AccountT

LEMMA CreatedTyped ==
    ASSUME NEW acc \in Accounts, NEW from \in Addrs, NEW to \in Addrs, NEW value \in Nat
    PROVE  Created(acc, from, to, value) \in Accounts
<1> DEFINE payer == [acc[from] EXCEPT !.bal = @ - value]
           acc1 == [acc EXCEPT ![from] = payer]
           made == [live |-> TRUE, code |-> FALSE, slots |-> NoSlots, bal |-> value]
<1>1. acc \in [Addrs -> AccountT]
    BY DEF Accounts, AccountT
<1>2. payer \in AccountT
    BY <1>1 DEF AccountT
<1>3. made \in AccountT
    BY EvmHostAssumption DEF AccountT, NoSlots
<1>4. acc1 \in [Addrs -> AccountT]
    <2> HIDE DEF payer
    <2> QED BY <1>1, <1>2
<1>5. Created(acc, from, to, value) = [acc1 EXCEPT ![to] = made]
    BY DEF Created
<1> HIDE DEF acc1, made
<1> QED
    BY <1>3, <1>4, <1>5 DEF Accounts, AccountT

LEMMA EndedTyped ==
    ASSUME NEW f \in Frames, NEW hasOutput \in BOOLEAN
    PROVE  Ended(f, hasOutput) \in Accounts
<1> DEFINE old == f.chain[f.self]
           code == old.code \/ hasOutput
           new == [old EXCEPT !.code = code]
<1>1. f.chain \in [Addrs -> AccountT] /\ f.self \in Addrs
    BY DEF Frames, Accounts, AccountT
<1>2. new \in AccountT
    <2>1. old \in AccountT /\ code \in BOOLEAN
        BY <1>1
    <2> HIDE DEF old, code
    <2> QED BY <2>1 DEF AccountT
<1>3. Ended(f, hasOutput) = IF f.kind = "create" THEN [f.chain EXCEPT ![f.self] = new] ELSE f.chain
    BY DEF Ended
<1> HIDE DEF new
<1> QED
    BY <1>1, <1>2, <1>3 DEF Accounts, AccountT

(* One field of a frame at a time.                                         *)
LEMMA SetChain ==
    ASSUME NEW f \in Frames, NEW v \in Accounts
    PROVE  LET g == [f EXCEPT !.chain = v] IN
           /\ g \in Frames /\ g.port = f.port /\ g.self = f.self /\ g.from = f.from
           /\ g.kind = f.kind /\ g.value = f.value
           /\ g.chain = v /\ g.dead = f.dead /\ g.will = f.will
    BY DEF Frames

LEMMA SetDead ==
    ASSUME NEW f \in Frames, NEW v \in SUBSET Addrs
    PROVE  LET g == [f EXCEPT !.dead = v] IN
           /\ g \in Frames /\ g.port = f.port /\ g.self = f.self /\ g.from = f.from
           /\ g.kind = f.kind /\ g.value = f.value
           /\ g.chain = f.chain /\ g.dead = v /\ g.will = f.will
    BY DEF Frames

LEMMA SetWill ==
    ASSUME NEW f \in Frames
    PROVE  LET g == [f EXCEPT !.will = TRUE] IN
           /\ g \in Frames /\ g.port = f.port /\ g.self = f.self /\ g.from = f.from
           /\ g.kind = f.kind /\ g.value = f.value
           /\ g.chain = f.chain /\ g.dead = f.dead
<1> DEFINE yes == TRUE
           g == [f EXCEPT !.will = yes]
<1>1. yes \in BOOLEAN
    OBVIOUS
<1>2. /\ g \in Frames /\ g.port = f.port /\ g.self = f.self /\ g.from = f.from
      /\ g.kind = f.kind /\ g.value = f.value
      /\ g.chain = f.chain /\ g.dead = f.dead
    <2> HIDE DEF yes
    <2> QED BY <1>1 DEF Frames
<1> QED
    BY <1>2

LEMMA Msgs ==
    ASSUME NEW c \in Message
    PROVE  /\ c.op = "ca" => c \in CallMsg
           /\ c.op = "gs" => c \in ReadMsg
           /\ c.op = "su" => c \in UpdateMsg
           /\ c.op = "ok" => c \in EndMsg
    BY DEF Message, CallMsg, ReadMsg, QueryMsg, LogMsg, UpdateMsg, DeathMsg, EndMsg

LEMMA OuterTyped ==
    ASSUME FramesOK, frames # <<>>
    PROVE  /\ Outer \in Seq(Frames) /\ Len(Outer) = Len(frames) - 1
           /\ \A i \in 1 .. Len(frames) - 1 : Outer[i] = frames[i]
<1>1. Len(frames) \in 1 .. MaxDepth /\ \A i \in 1 .. Len(frames) : frames[i] \in Frames
    BY ThisTyped
<1> DEFINE n == Len(frames) - 1
<1>2. n \in Nat /\ \A i \in 1 .. n : frames[i] \in Frames
    BY <1>1
<1>3. Outer = SubSeq(frames, 1, n)
    BY DEF Outer
<1> HIDE DEF n
<1>4. /\ Outer \in Seq(Frames) /\ Len(Outer) = (IF 1 <= n THEN n - 1 + 1 ELSE 0)
      /\ \A i \in 1 .. n - 1 + 1 : Outer[i] = frames[1 + i - 1]
    BY <1>2, <1>3, SubSeqProperties
<1>5. Len(Outer) = n /\ \A i \in 1 .. n : Outer[i] = frames[i]
    BY <1>2, <1>4
<1> QED
    BY <1>4, <1>5 DEF n

(* The innermost message goes on as f.                                     *)
LEMMA TopReplaced ==
    ASSUME FramesOK, frames # <<>>, NEW f \in Frames, f.port = This.port, frames' = Append(Outer, f)
    PROVE  SamePorts /\ frames' \in Seq(Frames)
<1>1. /\ Outer \in Seq(Frames) /\ Len(Outer) = Len(frames) - 1 /\ Len(frames) \in Nat \ {0}
      /\ \A i \in 1 .. Len(frames) - 1 : Outer[i] = frames[i]
    BY OuterTyped, ThisTyped, EvmHostAssumption
<1>2. frames' \in Seq(Frames) /\ Len(frames') = Len(frames)
    BY <1>1
<1>3. \A i \in 1 .. Len(frames) : frames'[i] = IF i = Len(frames) THEN f ELSE frames[i]
    BY <1>1
<1> QED
    BY <1>2, <1>3 DEF SamePorts, This

(* The state in which the process takes a message.                          *)
LEMMA Taken ==
    ASSUME HostInv, frames # <<>>, mailbox # <<>>
    PROVE  /\ FramesOK /\ This.port \in Ports /\ This \in Frames /\ Len(frames) \in 1 .. MaxDepth
           /\ vm[This.port] \in Process /\ Placed(vm[This.port])
           /\ TopMode \in {"cmd", "run", "gs", "query", "result", "seed"}
           /\ toVm[This.port] \in Seq(Command) /\ Len(toVm[This.port]) = 0
           /\ Said(mailbox, TopMode, This.port, Len(frames), pending)
           /\ Waiting(pending, mailbox, TopMode, Len(frames))
           /\ Len(mailbox) \in Nat \ {0} /\ Head(mailbox) = mailbox[1] /\ mailbox[1] \in Message
           /\ mailbox[1].op \in SaidBy(TopMode)
           /\ Tail(mailbox) \in Seq(Message) /\ Len(Tail(mailbox)) = Len(mailbox) - 1
           /\ \A i \in 1 .. Len(mailbox) - 1 : Tail(mailbox)[i] = mailbox[i + 1]
<1>1. FramesOK /\ This.port \in Ports /\ This \in Frames /\ Len(frames) \in 1 .. MaxDepth
    BY ThisTyped DEF HostInv, Typed
<1>2. vm[This.port] \in Process /\ toVm[This.port] \in Seq(Command) /\ mailbox \in Seq(Message)
    BY <1>1 DEF HostInv, Typed, VmOK
<1>3. TopMode \in {"cmd", "run", "gs", "query", "result", "seed"}
    BY <1>2 DEF TopMode, Process
<1>4. /\ Placed(vm[This.port]) /\ Len(toVm[This.port]) = 0
      /\ Said(mailbox, TopMode, This.port, Len(frames), pending)
      /\ Waiting(pending, mailbox, TopMode, Len(frames))
    BY <1>1 DEF HostInv, InStep
<1>5. Len(mailbox) \in Nat \ {0} /\ Head(mailbox) = mailbox[1] /\ mailbox[1] \in Message
    BY <1>2
<1>6. mailbox[1].op \in SaidBy(TopMode)
    BY <1>4, <1>5 DEF Said
<1>7. /\ Tail(mailbox) \in Seq(Message) /\ Len(Tail(mailbox)) = Len(mailbox) - 1
      /\ \A i \in 1 .. Len(mailbox) - 1 : Tail(mailbox)[i] = mailbox[i + 1]
    BY <1>2, HeadTailProperties
<1> QED
    BY <1>1, <1>2, <1>3, <1>4, <1>5, <1>6, <1>7

(* TopStep where the C++ process does nothing.                             *)
LEMMA ElixirStep ==
    ASSUME HostInv, frames # <<>>, mailbox # <<>>, SamePorts, frames' \in Seq(Frames),
           NEW q \in Seq(Command), toVm' = [toVm EXCEPT ![This.port] = q],
           mailbox' \in Seq(Message), pending' \in CallMsg \cup {Nothing},
           UNCHANGED <<world, pool, opened, evals, vm, budget>>, Piped(q, TopMode),
           Said(mailbox', TopMode, This.port, Len(frames), pending'),
           mailbox' # <<>> => Len(q) = 0,
           Waiting(pending', mailbox', TopMode, Len(frames))
    PROVE  HostInv'
<1>1. vm[This.port] \in Process /\ Placed(vm[This.port]) /\ This.port \in Ports
    BY Taken
<1>2. vm' = [vm EXCEPT ![This.port] = vm[This.port]] /\ budget' \in 0 .. Budget
    BY <1>1 DEF HostInv, Typed, VmOK
<1> QED
    BY <1>1, <1>2, TopStep DEF TopMode

(* The process is lost: everything starts again.                            *)
LEMMA DieStep ==
    ASSUME HostInv, Die
    PROVE  HostInv'
<1>1. Fresh \in Process /\ Placed(Fresh) /\ Fresh.mode = "cmd"
    BY EmptyTable DEF Fresh, Process, NoPend, Placed, Table
<1>2. /\ frames' = <<>> /\ pending' = Nothing /\ mailbox' = <<>> /\ pool' = <<>> /\ opened' = 0
      /\ \A p \in Ports : toVm'[p] = <<>> /\ vm'[p] = Fresh
      /\ UNCHANGED <<world, evals, budget>>
    BY DEF Die
<1>3. toVm' \in [Ports -> Seq(Command)] /\ vm' \in [Ports -> Process]
    BY <1>1 DEF Die
<1>4. Typed'
    BY <1>2, <1>3, EvmHostAssumption DEF HostInv, Typed, FramesOK, VmOK
<1>5. PortsAreHeld'
    BY <1>2 DEF PortsAreHeld
<1>6. InStep'
    BY <1>1, <1>2 DEF InStep, Piped
<1> QED
    BY <1>4, <1>5, <1>6 DEF HostInv

(* The mailbox without its first message.                                   *)
LEMMA TailSaid ==
    ASSUME NEW box \in Seq(Message), box # <<>>, NEW mode, NEW port, NEW depth,
           NEW call, Said(box, mode, port, depth, call), box[1].op \in {"lo", "sd", "su"},
           mode = "result" => box[1].op = "lo"
    PROVE  Said(Tail(box), mode, port, depth, call)
<1> DEFINE new == Tail(box)
<1>1. /\ new \in Seq(Message) /\ Len(box) \in Nat \ {0} /\ Len(new) = Len(box) - 1
      /\ \A i \in 1 .. Len(box) - 1 : new[i] = box[i + 1]
    BY HeadTailProperties
<1> HIDE DEF new
<1>2. SUFFICES ASSUME NEW i \in 1 .. Len(new)
               PROVE
        /\ new[i].port = port
        /\ new[i].op \in SaidBy(mode)
        /\ new[i].op \in {"gs", "query", "ok"} => i = Len(new)
        /\ new[i].op = "sd" => i + 2 = Len(new) /\ new[i + 1].op = "su"
        /\ new[i].op = "ca" => i + 1 = Len(new) /\ new[i + 1].op = "su" /\ depth < MaxDepth
        /\ mode = "result" /\ new[i].op = "su" =>
              IF i = 1 THEN call # Nothing ELSE new[i - 1].op = "ca"
        /\ mode = "cmd" /\ new[i].op = "su" => i + 1 = Len(new) /\ new[i + 1].op = "ok"
    BY DEF Said, new
<1> DEFINE j == i + 1
<1>3. /\ j \in 1 .. Len(box) /\ j # 1 /\ j - 1 = i /\ new[i] = box[j]
      /\ j < Len(box) => new[i + 1] = box[j + 1]
    BY <1>1
<1>4. i = 1 => box[j - 1].op \in {"lo", "sd", "su"}
    BY <1>3
<1>5. i # 1 => new[i - 1] = box[j - 1]
    BY <1>1
<1>6. /\ i = Len(new) <=> j = Len(box)
      /\ (i + 1 = Len(new) <=> j + 1 = Len(box)) /\ (j + 1 = Len(box) => j < Len(box))
      /\ (i + 2 = Len(new) <=> j + 2 = Len(box)) /\ (j + 2 = Len(box) => j < Len(box))
    BY <1>1
<1> HIDE DEF j
<1>7. /\ box[j].port = port
      /\ box[j].op \in SaidBy(mode)
      /\ box[j].op \in {"gs", "query", "ok"} => j = Len(box)
      /\ box[j].op = "sd" => j + 2 = Len(box) /\ box[j + 1].op = "su"
      /\ box[j].op = "ca" => j + 1 = Len(box) /\ box[j + 1].op = "su" /\ depth < MaxDepth
      /\ mode = "result" /\ box[j].op = "su" => box[j - 1].op = "ca"
      /\ mode = "cmd" /\ box[j].op = "su" => j + 1 = Len(box) /\ box[j + 1].op = "ok"
    BY <1>3 DEF Said
<1> QED
    BY <1>3, <1>4, <1>5, <1>6, <1>7

LEMMA AnswerReadStep ==
    ASSUME HostInv, AnswerRead
    PROVE  HostInv'
<1> DEFINE c == Head(mailbox)
           val == This.chain[c.addr].slots[c.key]
           msg == [op |-> "value", val |-> val]
           q == Append(toVm[This.port], msg)
<1>1. frames # <<>> /\ mailbox # <<>> /\ c.op = "gs" /\ pending = Nothing
    BY DEF AnswerRead, Awaited
<1>2. /\ toVm[This.port] \in Seq(Command) /\ Len(toVm[This.port]) = 0
      /\ c = mailbox[1] /\ Len(mailbox) \in Nat \ {0} /\ This \in Frames /\ FramesOK
      /\ c \in Message /\ Said(mailbox, TopMode, This.port, Len(frames), pending)
      /\ c.op \in SaidBy(TopMode) /\ TopMode \in {"cmd", "run", "gs", "query", "result", "seed"}
      /\ Tail(mailbox) \in Seq(Message) /\ Len(Tail(mailbox)) = Len(mailbox) - 1
    BY <1>1, Taken
<1>3. TopMode = "gs"
    BY <1>1, <1>2 DEF SaidBy
<1>4. Len(mailbox) = 1
    BY <1>1, <1>2 DEF Said
<1>5. msg \in Command /\ msg.op = "value"
    <2>1. c.addr \in Addrs /\ c.key \in Keys
        BY <1>1, <1>2, Msgs DEF ReadMsg
    <2>2. This.chain \in [Addrs -> AccountT]
        BY <1>2 DEF Frames, Accounts, AccountT
    <2>3. val \in Vals
        BY <2>1, <2>2 DEF AccountT
    <2> HIDE DEF val
    <2> QED
        BY <2>3 DEF Command, ValueCmd
<1>6. /\ toVm' = [toVm EXCEPT ![This.port] = q] /\ mailbox' = Tail(mailbox)
      /\ pending' = Nothing /\ UNCHANGED <<world, pool, opened, evals, vm, budget>> /\ frames' = frames
    BY <1>1 DEF AnswerRead, elixir
<1> HIDE DEF msg, c
<1>7. q \in Seq(Command) /\ Len(q) = 1 /\ q[1] = msg
    BY <1>2, <1>5
<1> HIDE DEF q
<1>8. mailbox' = <<>> /\ SamePorts /\ frames' \in Seq(Frames)
    BY <1>2, <1>4, <1>6 DEF SamePorts, FramesOK
<1>9. Piped(q, TopMode)
    BY <1>3, <1>5, <1>7 DEF Piped
<1>10. Said(mailbox', TopMode, This.port, Len(frames), pending') /\ mailbox' \in Seq(Message)
    BY <1>8, SilenceSaid
<1>11. Waiting(pending', mailbox', TopMode, Len(frames)) /\ pending' \in CallMsg \cup {Nothing}
    BY <1>6 DEF Waiting
<1> QED
    BY <1>1, <1>6, <1>7, <1>8, <1>9, <1>10, <1>11, ElixirStep

LEMMA AnswerQueryStep ==
    ASSUME HostInv, AnswerQuery
    PROVE  HostInv'
<1> DEFINE c == Head(mailbox)
           msg == [op |-> "answer"]
           q == Append(toVm[This.port], msg)
<1>1. frames # <<>> /\ mailbox # <<>> /\ c.op = "query" /\ pending = Nothing
    BY DEF AnswerQuery, Awaited
<1>2. /\ toVm[This.port] \in Seq(Command) /\ Len(toVm[This.port]) = 0
      /\ c = mailbox[1] /\ Len(mailbox) \in Nat \ {0} /\ This \in Frames /\ FramesOK
      /\ Said(mailbox, TopMode, This.port, Len(frames), pending)
      /\ c.op \in SaidBy(TopMode) /\ TopMode \in {"cmd", "run", "gs", "query", "result", "seed"}
      /\ Tail(mailbox) \in Seq(Message) /\ Len(Tail(mailbox)) = Len(mailbox) - 1
    BY <1>1, Taken
<1>3. TopMode = "query"
    BY <1>1, <1>2 DEF SaidBy
<1>4. Len(mailbox) = 1
    BY <1>1, <1>2 DEF Said
<1>5. msg \in Command /\ msg.op = "answer"
    BY DEF Command, AnswerCmd
<1>6. ASSUME ~c.beyond
      PROVE  /\ toVm' = [toVm EXCEPT ![This.port] = q] /\ mailbox' = Tail(mailbox) /\ frames' = frames
             /\ pending' = Nothing /\ UNCHANGED <<world, pool, opened, evals, vm, budget>>
    BY <1>1, <1>6 DEF AnswerQuery, elixir
<1>7. c.beyond => Die
    BY DEF AnswerQuery
<1> HIDE DEF msg, c
<1>8. q \in Seq(Command) /\ Len(q) = 1 /\ q[1] = msg
    BY <1>2, <1>5
<1> HIDE DEF q
<1>9. Piped(q, TopMode)
    BY <1>3, <1>5, <1>8 DEF Piped
<1>10. CASE ~c.beyond
    <2>1. mailbox' = <<>> /\ SamePorts /\ frames' \in Seq(Frames)
        BY <1>2, <1>4, <1>6, <1>10 DEF SamePorts, FramesOK
    <2>2. pending' = Nothing /\ toVm' = [toVm EXCEPT ![This.port] = q]
          /\ UNCHANGED <<world, pool, opened, evals, vm, budget>>
        BY <1>6, <1>10
    <2>3. Said(mailbox', TopMode, This.port, Len(frames), pending')
        BY <2>1, SilenceSaid
    <2>4. Waiting(pending', mailbox', TopMode, Len(frames)) /\ pending' \in CallMsg \cup {Nothing}
        BY <2>2 DEF Waiting
    <2>5. mailbox' \in Seq(Message)
        BY <2>1
    <2> QED
        BY <1>1, <1>8, <1>9, <2>1, <2>2, <2>3, <2>4, <2>5, ElixirStep
<1> QED
    BY <1>7, <1>10, DieStep

(* A message that is taken off the mailbox and answered by nothing.         *)
LEMMA TakenOff ==
    ASSUME HostInv, frames # <<>>, mailbox # <<>>, pending = Nothing,
           mailbox[1].op \in {"lo", "sd", "su"},
           SamePorts, frames' \in Seq(Frames), mailbox' = Tail(mailbox),
           UNCHANGED <<world, pending, pool, opened, evals, toVm, vm, budget>>
    PROVE  HostInv'
<1>1. /\ toVm[This.port] \in Seq(Command) /\ Len(toVm[This.port]) = 0 /\ This.port \in Ports
      /\ Len(mailbox) \in Nat \ {0}
      /\ Said(mailbox, TopMode, This.port, Len(frames), pending)
      /\ mailbox[1].op \in SaidBy(TopMode) /\ mailbox' \in Seq(Message)
    BY Taken
<1>2. TopMode = "result" => mailbox[1].op = "lo"
    BY <1>1 DEF Said, SaidBy
<1>3. mailbox \in Seq(Message)
    BY DEF HostInv, Typed
<1>4. Said(mailbox', TopMode, This.port, Len(frames), pending')
    BY <1>1, <1>2, <1>3, TailSaid
<1>5. toVm' = [toVm EXCEPT ![This.port] = toVm[This.port]] /\ Piped(toVm[This.port], TopMode)
    BY <1>1 DEF HostInv, Typed, InStep, TopMode
<1>6. Waiting(pending', mailbox', TopMode, Len(frames)) /\ pending' \in CallMsg \cup {Nothing}
    BY DEF Waiting
<1> QED
    BY <1>1, <1>4, <1>5, <1>6, ElixirStep

LEMMA TakeUpdatesStep ==
    ASSUME HostInv, TakeUpdates
    PROVE  HostInv'
<1> DEFINE entries == Head(mailbox).entries
           f == [This EXCEPT !.chain = Updated(@, entries)]
<1>1. frames # <<>> /\ mailbox # <<>> /\ Head(mailbox).op = "su" /\ pending = Nothing
    BY DEF TakeUpdates, Awaited
<1>2. Head(mailbox) = mailbox[1] /\ This \in Frames /\ FramesOK /\ Head(mailbox) \in Message
    BY <1>1, Taken
<1>3. entries \in Seq(Entry)
    BY <1>1, <1>2, Msgs DEF UpdateMsg
<1>4. f \in Frames /\ f.port = This.port
    <2>1. This.chain \in Accounts
        BY <1>2 DEF Frames
    <2>2. Updated(This.chain, entries) \in Accounts
        BY <1>3, <2>1, UpdatedTyped
    <2>3. f = [This EXCEPT !.chain = Updated(This.chain, entries)]
        BY <1>2 DEF Frames
    <2> HIDE DEF f, entries
    <2> QED
        BY <1>2, <2>2, <2>3, SetChain
<1>5. /\ frames' = Append(Outer, f) /\ mailbox' = Tail(mailbox)
      /\ UNCHANGED <<world, pending, pool, opened, evals, toVm, vm, budget>>
    BY DEF TakeUpdates
<1> HIDE DEF f
<1>6. SamePorts /\ frames' \in Seq(Frames)
    BY <1>1, <1>2, <1>4, <1>5, TopReplaced
<1> QED
    BY <1>1, <1>2, <1>5, <1>6, TakenOff

LEMMA TakeDeathStep ==
    ASSUME HostInv, TakeDeath
    PROVE  HostInv'
<1> DEFINE f == [This EXCEPT !.will = TRUE]
<1>1. frames # <<>> /\ mailbox # <<>> /\ Head(mailbox).op = "sd" /\ pending = Nothing
    BY DEF TakeDeath, Awaited
<1>2. Head(mailbox) = mailbox[1] /\ This \in Frames /\ FramesOK
    BY <1>1, Taken
<1>3. f \in Frames /\ f.port = This.port
    BY <1>2, SetWill
<1>4. /\ frames' = Append(Outer, f) /\ mailbox' = Tail(mailbox)
      /\ UNCHANGED <<world, pending, pool, opened, evals, toVm, vm, budget>>
    BY DEF TakeDeath
<1> HIDE DEF f
<1>5. SamePorts /\ frames' \in Seq(Frames)
    BY <1>1, <1>2, <1>3, <1>4, TopReplaced
<1> QED
    BY <1>1, <1>2, <1>4, <1>5, TakenOff

LEMMA TakeLogStep ==
    ASSUME HostInv, TakeLog
    PROVE  HostInv'
<1>1. frames # <<>> /\ mailbox # <<>> /\ Head(mailbox).op = "lo" /\ pending = Nothing
    BY DEF TakeLog, Awaited
<1>2. CASE Head(mailbox).topics = 0
    BY <1>2, DieStep DEF TakeLog
<1>3. CASE Head(mailbox).topics # 0
    <2>1. Head(mailbox) = mailbox[1] /\ FramesOK
        BY <1>1, Taken
    <2>2. mailbox' = Tail(mailbox) /\ UNCHANGED <<elixir, toVm, vm, budget>>
        BY <1>3 DEF TakeLog
    <2>3. SamePorts /\ frames' \in Seq(Frames)
        BY <2>1, <2>2 DEF SamePorts, elixir, FramesOK
    <2> QED
        BY <1>1, <2>1, <2>2, <2>3, TakenOff DEF elixir
<1> QED
    BY <1>2, <1>3

LEMMA UpdateSaid ==
    ASSUME NEW box, NEW port, NEW depth, NEW call, Len(box) = 1, box[1].port = port,
           box[1].op = "su", call # Nothing
    PROVE  Said(box, "result", port, depth, call)
    BY DEF Said, SaidBy

LEMMA TakeCallStep ==
    ASSUME HostInv, TakeCall
    PROVE  HostInv'
<1>1. frames # <<>> /\ mailbox # <<>> /\ Head(mailbox).op = "ca" /\ pending = Nothing
    BY DEF TakeCall, Awaited
<1>2. /\ toVm[This.port] \in Seq(Command) /\ Len(toVm[This.port]) = 0 /\ This.port \in Ports
      /\ Len(mailbox) \in Nat \ {0} /\ FramesOK /\ Head(mailbox) = mailbox[1]
      /\ Said(mailbox, TopMode, This.port, Len(frames), pending) /\ mailbox[1] \in Message
      /\ mailbox[1].op \in SaidBy(TopMode) /\ TopMode \in {"cmd", "run", "gs", "query", "result", "seed"}
      /\ Tail(mailbox) \in Seq(Message) /\ Len(Tail(mailbox)) = Len(mailbox) - 1
      /\ \A i \in 1 .. Len(mailbox) - 1 : Tail(mailbox)[i] = mailbox[i + 1]
    BY <1>1, Taken
<1>3. TopMode = "result"
    BY <1>1, <1>2 DEF SaidBy
<1>4. Len(mailbox) = 2 /\ mailbox[2].op = "su" /\ Len(frames) < MaxDepth
    <2>1. 1 \in 1 .. Len(mailbox) /\ mailbox[1].op = "ca"
        BY <1>1, <1>2
    <2>2. 1 + 1 = Len(mailbox) /\ mailbox[1 + 1].op = "su" /\ Len(frames) < MaxDepth
        BY <1>2, <2>1 DEF Said
    <2>3. 1 + 1 = 2
        OBVIOUS
    <2> QED
        BY <2>2, <2>3
<1>5. mailbox[1] \in CallMsg /\ mailbox[1] # Nothing
    BY <1>1, <1>2, Msgs, EvmHostAssumption DEF CallMsg, Ports
<1>6. /\ pending' = mailbox[1] /\ mailbox' = Tail(mailbox) /\ frames' = frames
      /\ UNCHANGED <<world, pool, opened, evals, toVm, vm, budget>>
    BY <1>2 DEF TakeCall
<1>7. Len(mailbox') = 1 /\ mailbox'[1] = mailbox[2]
    <2>1. Len(mailbox) - 1 = 1 /\ 1 \in 1 .. Len(mailbox) - 1 /\ 1 + 1 = 2
        BY <1>4
    <2>2. Tail(mailbox)[1] = mailbox[1 + 1]
        BY <1>2, <2>1
    <2> QED
        BY <1>2, <1>6, <2>1, <2>2
<1>8. mailbox[2].port = This.port
    <2>1. 2 \in 1 .. Len(mailbox)
        BY <1>4
    <2> QED
        BY <1>2, <2>1 DEF Said
<1>9. Said(mailbox', TopMode, This.port, Len(frames), pending')
    BY <1>3, <1>4, <1>5, <1>6, <1>7, <1>8, UpdateSaid
<1>10. Waiting(pending', mailbox', TopMode, Len(frames))
    BY <1>3, <1>4, <1>7 DEF Waiting
<1>11. SamePorts /\ frames' \in Seq(Frames) /\ mailbox' \in Seq(Message)
    BY <1>2, <1>6 DEF SamePorts, FramesOK
<1>12. toVm' = [toVm EXCEPT ![This.port] = toVm[This.port]] /\ Piped(toVm[This.port], TopMode)
    BY <1>2, <1>6 DEF HostInv, Typed, InStep, TopMode
<1> QED
    BY <1>1, <1>2, <1>5, <1>6, <1>9, <1>10, <1>11, <1>12, ElixirStep

-----------------------------------------------------------------------------
(* Calls: the frames grow and shrink.                                       *)

(* A port that serves nothing.                                             *)
LEMMA AtRest ==
    ASSUME HostInv, NEW p \in Ports, \A i \in 1 .. Len(frames) : frames[i].port # p
    PROVE  vm[p].mode = "cmd" /\ toVm[p] = <<>>
<1>1. vm[p].mode = "cmd" /\ Len(toVm[p]) = 0 /\ toVm[p] \in Seq(Command)
    BY DEF HostInv, InStep, Typed
<1> QED
    BY <1>1

(* The port of the next message.                                           *)
LEMMA NextPortFree ==
    ASSUME HostInv, Len(frames) < MaxDepth
    PROVE  /\ NextPort \in Ports
           /\ \A i \in 1 .. Len(frames) : frames[i].port # NextPort
           /\ vm[NextPort].mode = "cmd" /\ toVm[NextPort] = <<>>
<1>1. /\ pool \in Seq(Ports) /\ opened \in 0 .. MaxDepth /\ Len(frames) \in Nat /\ MaxDepth \in Nat
      /\ opened = Len(frames) + Len(pool) /\ PortsAreHeld
    BY EvmHostAssumption DEF HostInv, Typed, FramesOK, PortsAreHeld
<1>2. CASE pool = <<>>
    <2>1. opened + 1 \in Ports /\ NextPort = opened + 1
        BY <1>1, <1>2 DEF Ports, NextPort
    <2>2. \A i \in 1 .. Len(frames) : frames[i].port <= opened /\ frames[i].port \in Ports
        BY <1>1, ThisTyped DEF PortsAreHeld, HostInv, Typed, FramesOK, Frames
    <2>3. \A i \in 1 .. Len(frames) : frames[i].port # NextPort
        BY <1>1, <2>1, <2>2 DEF Ports
    <2> QED
        BY <2>1, <2>3, AtRest
<1>3. CASE pool # <<>>
    <2>1. 1 \in 1 .. Len(pool) /\ NextPort = pool[1] /\ pool[1] \in Ports
        BY <1>1, <1>3 DEF NextPort
    <2>2. \A i \in 1 .. Len(frames) : frames[i].port # NextPort
        BY <1>1, <2>1 DEF PortsAreHeld
    <2> QED
        BY <2>1, <2>2, AtRest
<1> QED
    BY <1>2, <1>3

(* The ports once a message got one.                                       *)
LEMMA PortTaken ==
    ASSUME HostInv, Len(frames) < MaxDepth, NEW g, g.port = NextPort,
           Len(frames') = Len(frames) + 1, frames'[Len(frames) + 1] = g,
           \A i \in 1 .. Len(frames) : frames'[i].port = frames[i].port,
           pool' = IF pool = <<>> THEN pool ELSE Tail(pool),
           opened' = IF pool = <<>> THEN opened + 1 ELSE opened
    PROVE  PortsAreHeld' /\ pool' \in Seq(Ports) /\ opened' \in 0 .. MaxDepth
<1> DEFINE n == Len(frames)
<1>1. /\ pool \in Seq(Ports) /\ opened \in 0 .. MaxDepth /\ n \in Nat /\ MaxDepth \in Nat
      /\ opened = n + Len(pool) /\ PortsAreHeld /\ Len(pool) \in Nat
    BY EvmHostAssumption DEF HostInv, Typed, FramesOK, PortsAreHeld
<1>2. /\ \A i \in 1 .. n : frames[i].port \in Ports /\ frames[i].port # NextPort
      /\ NextPort \in Ports
    <2>1. \A i \in 1 .. n : frames[i] \in Frames
        BY DEF HostInv, Typed, FramesOK
    <2> QED
        BY <2>1, NextPortFree DEF Frames
<1>3. \A i \in 1 .. n + 1 : frames'[i].port = IF i = n + 1 THEN NextPort ELSE frames[i].port
    BY <1>1
<1>4. \A i \in 1 .. n : i # n + 1 /\ i \in 1 .. n + 1
    BY <1>1
<1>5. \A i \in 1 .. n + 1 : i # n + 1 => i \in 1 .. n
    BY <1>1
<1>6. ASSUME NEW i \in 1 .. n + 1, NEW j \in 1 .. n + 1, frames'[i].port = frames'[j].port
      PROVE  i = j
    <2>1. CASE i # n + 1 /\ j # n + 1
        <3>1. i \in 1 .. n /\ j \in 1 .. n /\ frames[i].port = frames[j].port
            BY <1>3, <1>5, <1>6, <2>1
        <3> QED
            BY <1>1, <3>1 DEF PortsAreHeld
    <2>2. CASE i = n + 1 /\ j # n + 1
        BY <1>2, <1>3, <1>5, <1>6, <2>2
    <2>3. CASE i # n + 1 /\ j = n + 1
        BY <1>2, <1>3, <1>5, <1>6, <2>3
    <2> QED
        BY <2>1, <2>2, <2>3
<1>7. ASSUME NEW i \in 1 .. n
      PROVE  frames'[i].port = frames[i].port /\ frames[i].port \in 1 .. opened /\ frames[i].port <= opened
    <2>1. frames[i].port <= opened /\ frames[i].port \in Ports
        BY <1>1, <1>2 DEF PortsAreHeld
    <2> QED
        BY <1>1, <2>1 DEF Ports
<1>8. CASE pool = <<>>
    <2>1. /\ NextPort = opened + 1 /\ opened' = opened + 1 /\ pool' = <<>> /\ Len(pool) = 0 /\ Len(pool') = 0
        BY <1>8 DEF NextPort
    <2>2. opened' \in 0 .. MaxDepth /\ pool' \in Seq(Ports) /\ opened' = Len(frames') + Len(pool')
        BY <1>1, <2>1
    <2>3. ASSUME NEW i \in 1 .. n + 1
          PROVE  frames'[i].port <= opened'
        <3>1. CASE i = n + 1
            BY <1>1, <1>3, <2>1, <3>1
        <3>2. CASE i # n + 1
            <4>1. frames'[i].port = frames[i].port /\ frames[i].port \in 1 .. opened
                BY <1>5, <1>7, <3>2
            <4> QED
                BY <1>1, <2>1, <4>1
        <3> QED
            BY <3>1, <3>2
    <2>4. ASSUME NEW p \in 1 .. opened'
          PROVE  \E i \in 1 .. n + 1 : frames'[i].port = p
        <3>1. CASE p = opened + 1
            <4>1. frames'[n + 1].port = p /\ n + 1 \in 1 .. n + 1
                BY <1>1, <1>3, <2>1, <3>1
            <4> QED
                BY <4>1
        <3>2. CASE p # opened + 1
            <4>1. p \in 1 .. opened
                BY <1>1, <2>1, <3>2
            <4>2. PICK i \in 1 .. n : frames[i].port = p
                BY <1>1, <2>1, <4>1 DEF PortsAreHeld
            <4>3. frames'[i].port = p /\ i \in 1 .. n + 1
                BY <1>4, <4>2
            <4> QED
                BY <4>3
        <3> QED
            BY <3>1, <3>2
    <2> QED
        BY <1>6, <2>1, <2>2, <2>3, <2>4 DEF PortsAreHeld
<1>9. CASE pool # <<>>
    <2> DEFINE k == Len(pool)
    <2>1. /\ NextPort = pool[1] /\ opened' = opened /\ pool' = Tail(pool) /\ k \in Nat \ {0}
        BY <1>1, <1>9 DEF NextPort
    <2>2. /\ pool' \in Seq(Ports) /\ Len(pool') = k - 1
          /\ \A i \in 1 .. k - 1 : pool'[i] = pool[i + 1]
        BY <1>1, <1>9, <2>1, HeadTailProperties
    <2>3. opened' \in 0 .. MaxDepth /\ opened' = Len(frames') + Len(pool')
        BY <1>1, <2>1, <2>2
    <2>4. /\ \A i \in 1 .. k - 1 : i + 1 \in 1 .. k /\ i + 1 # 1
          /\ 1 \in 1 .. k
        BY <2>1
    <2>5. ASSUME NEW i \in 1 .. n + 1
          PROVE  frames'[i].port <= opened'
        <3>1. CASE i = n + 1
            BY <1>1, <1>3, <2>1, <2>4, <3>1 DEF PortsAreHeld
        <3>2. CASE i # n + 1
            BY <1>5, <1>7, <2>1, <3>2
        <3> QED
            BY <3>1, <3>2
    <2>6. \A i \in 1 .. Len(pool') : pool'[i] <= opened'
        BY <1>1, <2>1, <2>2, <2>4 DEF PortsAreHeld
    <2>7. ASSUME NEW p \in 1 .. opened'
          PROVE  \/ \E i \in 1 .. n + 1 : frames'[i].port = p
                 \/ \E i \in 1 .. Len(pool') : pool'[i] = p
        <3>1. CASE \E i \in 1 .. n : frames[i].port = p
            BY <1>4, <3>1
        <3>2. CASE \E i \in 1 .. k : pool[i] = p
            <4>1. PICK i \in 1 .. k : pool[i] = p
                BY <3>2
            <4>2. CASE i = 1
                <5>1. frames'[n + 1].port = p /\ n + 1 \in 1 .. n + 1
                    BY <1>1, <1>3, <2>1, <4>1, <4>2
                <5> QED
                    BY <5>1
            <4>3. CASE i # 1
                <5>1. i - 1 \in 1 .. k - 1 /\ (i - 1) + 1 = i
                    BY <4>1, <4>3
                <5>2. pool'[i - 1] = p
                    BY <2>2, <4>1, <5>1
                <5> QED
                    BY <2>2, <5>1, <5>2
            <4> QED
                BY <4>2, <4>3
        <3> QED
            BY <1>1, <2>1, <3>1, <3>2 DEF PortsAreHeld
    <2>9. \A i, j \in 1 .. Len(pool') : pool'[i] = pool'[j] => i = j
        <3>1. ASSUME NEW i \in 1 .. k - 1, NEW j \in 1 .. k - 1, pool'[i] = pool'[j]
              PROVE  i = j
            <4>1. pool[i + 1] = pool[j + 1] /\ i + 1 \in 1 .. k /\ j + 1 \in 1 .. k
                BY <2>2, <2>4, <3>1
            <4>2. i + 1 = j + 1
                BY <1>1, <4>1 DEF PortsAreHeld
            <4> QED
                BY <4>2
        <3>2. 1 .. Len(pool') = 1 .. k - 1
            BY <2>2
        <3> HIDE DEF k
        <3> QED
            BY <3>1, <3>2
    <2>10. \A i \in 1 .. Len(pool'), j \in 1 .. n + 1 : frames'[j].port # pool'[i]
        <3> SUFFICES ASSUME NEW i \in 1 .. k - 1, NEW j \in 1 .. n + 1
                     PROVE  frames'[j].port # pool'[i]
            BY <2>2
        <3>1. pool'[i] = pool[i + 1] /\ i + 1 \in 1 .. k /\ i + 1 # 1
            BY <2>2, <2>4
        <3>2. CASE j = n + 1
            BY <1>1, <1>3, <2>1, <2>4, <3>1, <3>2 DEF PortsAreHeld
        <3>3. CASE j # n + 1
            <4>1. j \in 1 .. n
                BY <1>1, <3>3
            <4> QED
                BY <1>1, <3>1, <4>1 DEF PortsAreHeld
        <3> QED
            BY <3>2, <3>3
    <2> QED
        BY <1>6, <2>2, <2>3, <2>5, <2>6, <2>7, <2>9, <2>10 DEF PortsAreHeld
<1> QED
    BY <1>8, <1>9

(* A message is started inside of the messages of rest, on a port of its own. *)
LEMMA PushStep ==
    ASSUME HostInv, Len(frames) < MaxDepth, NEW rest \in Seq(Frames), Len(rest) = Len(frames),
           \A i \in 1 .. Len(frames) : rest[i].port = frames[i].port,
           frames # <<>> => TopMode = "result" /\ Len(toVm[This.port]) = 0,
           NEW g \in Frames, g.port = NextPort, Start(g, rest),
           mailbox' = <<>>, pending' = Nothing, UNCHANGED <<world, vm, budget>>,
           evals' \in 0 .. MaxEvals
    PROVE  HostInv'
<1> DEFINE n == Len(frames)
           seed == Seed(g.chain, g.self)
           context == [op |-> "c"]
           run == [op |-> "r", self |-> g.self, value |-> g.value]
           q == <<context, seed, run>>
<1>1. /\ NextPort \in Ports /\ vm[NextPort].mode = "cmd" /\ toVm[NextPort] = <<>>
      /\ \A i \in 1 .. n : frames[i].port # NextPort
    BY NextPortFree
<1>2. n \in Nat /\ MaxDepth \in Nat /\ frames \in Seq(Frames)
    BY EvmHostAssumption DEF HostInv, Typed, FramesOK
<1>3. /\ context \in Command /\ seed \in Command /\ run \in Command
      /\ context.op = "c" /\ seed.op = "p" /\ run.op = "r"
    <2>1. seed \in SeedCmd
        BY SeedTyped DEF Frames
    <2>2. run \in RunCmd /\ context \in ContextCmd
        BY DEF Frames, RunCmd, ContextCmd
    <2> HIDE DEF seed
    <2> QED
        BY <2>1, <2>2 DEF Command, SeedCmd
<1>4. /\ frames' = Append(rest, g)
      /\ pool' = IF pool = <<>> THEN pool ELSE Tail(pool)
      /\ opened' = IF pool = <<>> THEN opened + 1 ELSE opened
      /\ toVm' = [toVm EXCEPT ![NextPort] = @ \o q]
    BY DEF Start
<1> HIDE DEF seed, context, run
<1>5. q \in Seq(Command) /\ Len(q) = 3 /\ q[1] = context /\ q[2] = seed /\ q[3] = run
    BY <1>3
<1> HIDE DEF q
<1>6. toVm' = [toVm EXCEPT ![NextPort] = q]
    <2>1. <<>> \o q = q
        BY <1>5
    <2> QED
        BY <1>1, <1>4, <2>1
<1>7. /\ frames' \in Seq(Frames) /\ Len(frames') = n + 1 /\ frames'[n + 1] = g
      /\ \A i \in 1 .. n : frames'[i].port = frames[i].port
    BY <1>2, <1>4
<1>8. PortsAreHeld' /\ pool' \in Seq(Ports) /\ opened' \in 0 .. MaxDepth
    BY <1>4, <1>7, PortTaken
<1>9. Typed'
    <2>1. toVm' \in [Ports -> Seq(Command)]
        BY <1>5, <1>6 DEF HostInv, Typed
    <2>2. /\ world' \in Accounts /\ VmOK' /\ budget' \in 0 .. Budget
          /\ pending' \in CallMsg \cup {Nothing} /\ mailbox' \in Seq(Message)
        BY DEF HostInv, Typed, VmOK
    <2>3. FramesOK'
        BY <1>2, <1>7 DEF FramesOK
    <2> QED
        BY <1>8, <2>1, <2>2, <2>3 DEF Typed
<1>10. /\ \A p \in Ports : p # NextPort => toVm'[p] = toVm[p]
       /\ toVm'[NextPort] = q
    BY <1>1, <1>6 DEF HostInv, Typed
<1>11. Piped(q, "cmd")
    BY <1>3, <1>5 DEF Piped
<1>12. ASSUME NEW p \in Ports
       PROVE  Piped(toVm'[p], vm'[p].mode) /\ Placed(vm'[p])
    BY <1>1, <1>10, <1>11 DEF HostInv, InStep
<1>13. ASSUME NEW p \in Ports, \A i \in 1 .. Len(frames') : frames'[i].port # p
       PROVE  vm'[p].mode = "cmd" /\ Len(toVm'[p]) = 0
    <2>1. \A i \in 1 .. n : i \in 1 .. n + 1
        BY <1>2
    <2>2. n + 1 \in 1 .. n + 1
        BY <1>2
    <2>3. \A i \in 1 .. n : frames[i].port # p
        BY <1>7, <1>13, <2>1
    <2>4. p # NextPort
        BY <1>7, <1>13, <2>2
    <2> QED
        BY <1>10, <2>3, <2>4 DEF HostInv, InStep
<1>14. ASSUME NEW i \in 1 .. Len(frames') - 1
       PROVE  vm'[frames'[i].port].mode = "result" /\ Len(toVm'[frames'[i].port]) = 0
    <2>1. i \in 1 .. n /\ n > 0 /\ frames # <<>>
        BY <1>2, <1>7, <1>14
    <2>2. frames[i].port \in Ports /\ frames[i].port # NextPort /\ frames'[i].port = frames[i].port
        BY <1>1, <1>7, <2>1, ThisTyped DEF HostInv, Typed
    <2>3. vm[frames[i].port].mode = "result" /\ Len(toVm[frames[i].port]) = 0
        <3>1. CASE i = n
            BY <2>1, <3>1 DEF This, TopMode
        <3>2. CASE i # n
            <4>1. i \in 1 .. n - 1
                BY <1>2, <2>1, <3>2
            <4> QED
                BY <4>1 DEF HostInv, InStep
        <3> QED
            BY <3>1, <3>2
    <2> QED
        BY <1>10, <2>2, <2>3
<1>15. InStep'
    BY <1>7, <1>12, <1>13, <1>14, SilenceSaid DEF InStep, Waiting
<1> QED
    BY <1>8, <1>9, <1>15 DEF HostInv

(* A transaction starts; the ports are at rest.                             *)
LEMMA BeginStep ==
    ASSUME HostInv, NEW to \in Addrs, NEW value \in 0 .. MaxValue, Begin(to, value)
    PROVE  HostInv'
<1> DEFINE chain == Transferred(world, Origin, to, value)
           none == {}
           g == Frame(NextPort, "call", to, Origin, value, chain, none)
<1>1. frames = <<>> /\ Len(frames) = 0 /\ evals < MaxEvals /\ evals' = evals + 1
      /\ Start(g, <<>>) /\ UNCHANGED <<world, pending, mailbox, vm, budget>>
    BY DEF Begin
<1>2. mailbox = <<>> /\ pending = Nothing /\ evals \in 0 .. MaxEvals /\ world \in Accounts
      /\ MaxEvals \in Nat /\ MaxDepth \in Nat \ {0} /\ Origin \in Addrs /\ value \in Nat
    BY <1>1, EvmHostAssumption DEF HostInv, Typed, InStep
<1>3. chain \in Accounts /\ none \in SUBSET Addrs
    BY <1>2, TransferredTyped
<1>4. NextPort \in Ports
    BY <1>1, <1>2, NextPortFree
<1> HIDE DEF chain, none
<1>5. g \in Frames /\ g.port = NextPort
    BY <1>2, <1>3, <1>4 DEF Frame, Frames, Kinds
<1> HIDE DEF g
<1>6. evals' \in 0 .. MaxEvals
    BY <1>1, <1>2
<1>7. /\ <<>> \in Seq(Frames) /\ Len(<<>>) = Len(frames)
      /\ \A i \in 1 .. Len(frames) : <<>>[i].port = frames[i].port
    BY <1>1
<1>8. mailbox' = <<>> /\ pending' = Nothing /\ UNCHANGED <<world, vm, budget>> /\ Len(frames) < MaxDepth
    BY <1>1, <1>2
<1> QED
    BY <1>1, <1>5, <1>6, <1>7, <1>8, PushStep

(* The state in which a call is carried out.                                *)
LEMMA CallWaits ==
    ASSUME HostInv, frames # <<>>, pending # Nothing
    PROVE  /\ FirstUpdates = 1 /\ RemoveAt(mailbox, 1) = <<>> /\ mailbox # <<>>
           /\ TopMode = "result" /\ Len(toVm[This.port]) = 0 /\ Len(frames) < MaxDepth
           /\ pending \in CallMsg
           /\ Caller \in Frames /\ Caller.port = This.port
<1>1. /\ Len(mailbox) = 1 /\ mailbox[1].op = "su" /\ TopMode = "result" /\ Len(frames) < MaxDepth
      /\ mailbox \in Seq(Message) /\ FramesOK /\ pending \in CallMsg
    BY DEF HostInv, Typed, InStep, Waiting
<1>2. mailbox # <<>> /\ DOMAIN mailbox = {1} /\ mailbox[1] \in Message
    BY <1>1
<1>3. FirstUpdates = 1
    BY <1>1, <1>2 DEF FirstUpdates
<1>4. RemoveAt(mailbox, 1) = <<>>
    <2>1. SubSeq(mailbox, 1, 1 - 1) = <<>> /\ SubSeq(mailbox, 1 + 1, Len(mailbox)) = <<>>
        BY <1>1
    <2>2. RemoveAt(mailbox, 1) = SubSeq(mailbox, 1, 1 - 1) \o SubSeq(mailbox, 1 + 1, Len(mailbox))
        BY DEF RemoveAt
    <2>3. RemoveAt(mailbox, 1) = <<>> \o <<>>
        BY <2>1, <2>2, Zenon
    <2> QED
        BY <2>3
<1>5. This \in Frames /\ This.port \in Ports
    BY <1>1, ThisTyped
<1>6. Len(toVm[This.port]) = 0
    BY <1>2 DEF HostInv, InStep
<1>7. Caller \in Frames /\ Caller.port = This.port
    <2> DEFINE chain == Updated(This.chain, mailbox[1].entries)
    <2>1. This.chain \in Accounts
        BY <1>5 DEF Frames
    <2>2. mailbox[1].entries \in Seq(Entry)
        BY <1>1, <1>2, Msgs DEF UpdateMsg
    <2>3. chain \in Accounts
        BY <2>1, <2>2, UpdatedTyped
    <2>4. Caller = [This EXCEPT !.chain = chain]
        BY <1>3, <1>5 DEF Caller, Frames
    <2> HIDE DEF chain
    <2> QED
        BY <1>5, <2>3, <2>4, SetChain
<1> QED
    BY <1>1, <1>2, <1>3, <1>4, <1>6, <1>7

LEMMA EnteredTyped ==
    ASSUME NEW f \in Frames, pending \in CallMsg
    PROVE  Self(f) \in Addrs /\ From(f) \in Addrs /\ Entered(f) \in Accounts /\ pending.value \in Nat
           /\ pending.kind \in Kinds
<1>1. /\ pending.to \in Addrs /\ pending.value \in Nat /\ pending.kind \in Kinds
      /\ f.self \in Addrs /\ f.from \in Addrs /\ f.chain \in Accounts
    BY DEF CallMsg, Frames
<1>2. Self(f) \in Addrs /\ From(f) \in Addrs
    BY <1>1 DEF Self, From
<1>3. /\ Created(f.chain, f.self, pending.to, pending.value) \in Accounts
      /\ Transferred(f.chain, From(f), Self(f), pending.value) \in Accounts
    BY <1>1, <1>2, CreatedTyped, TransferredTyped
<1> QED
    BY <1>1, <1>2, <1>3 DEF Entered

LEMMA StartCallStep ==
    ASSUME HostInv, frames # <<>>, pending # Nothing, NEW hasCode, StartCall(hasCode),
           pending' = Nothing, mailbox' = <<>>, UNCHANGED <<world, evals, vm, budget>>
    PROVE  HostInv'
<1> DEFINE f == Caller
           rest == Append(Outer, f)
           g == Frame(NextPort, pending.kind, Self(f), From(f), pending.value, Entered(f), f.dead)
<1>1. /\ TopMode = "result" /\ Len(toVm[This.port]) = 0 /\ Len(frames) < MaxDepth
      /\ pending \in CallMsg /\ f \in Frames /\ f.port = This.port
    BY CallWaits
<1>2. /\ FramesOK /\ Len(frames) \in Nat \ {0} /\ Outer \in Seq(Frames)
      /\ Len(Outer) = Len(frames) - 1 /\ \A i \in 1 .. Len(frames) - 1 : Outer[i] = frames[i]
    BY ThisTyped, OuterTyped, EvmHostAssumption DEF HostInv, Typed
<1>3. Start(g, rest)
    BY DEF StartCall
<1>4. NextPort \in Ports
    BY <1>1, NextPortFree
<1>5. g \in Frames /\ g.port = NextPort
    <2>1. /\ Self(f) \in Addrs /\ From(f) \in Addrs /\ Entered(f) \in Accounts
          /\ pending.value \in Nat /\ pending.kind \in Kinds
        BY <1>1, EnteredTyped
    <2>2. f.dead \in SUBSET Addrs
        BY <1>1 DEF Frames
    <2> HIDE DEF f
    <2> QED
        BY <1>4, <2>1, <2>2 DEF Frame, Frames
<1> HIDE DEF f, g
<1>6. rest \in Seq(Frames) /\ Len(rest) = Len(frames)
      /\ \A i \in 1 .. Len(frames) : rest[i] = IF i = Len(frames) THEN f ELSE frames[i]
    BY <1>1, <1>2
<1>7. \A i \in 1 .. Len(frames) : rest[i].port = frames[i].port
    BY <1>1, <1>6 DEF This
<1> HIDE DEF rest
<1>8. evals' \in 0 .. MaxEvals /\ UNCHANGED <<world, vm, budget>>
    BY DEF HostInv, Typed
<1> QED
    BY <1>1, <1>3, <1>5, <1>6, <1>7, <1>8, PushStep

(* What a caller is told of a call.                                        *)
Reply(ok, chain, self) ==
    IF ok THEN <<[op |-> "result", ok |-> TRUE], Seed(chain, self)>>
    ELSE <<[op |-> "result", ok |-> FALSE]>>

LEMMA ReplyPiped ==
    ASSUME NEW ok \in BOOLEAN, NEW chain \in Accounts, NEW self \in Addrs
    PROVE  Reply(ok, chain, self) \in Seq(Command) /\ Piped(Reply(ok, chain, self), "result")
<1> DEFINE seed == Seed(chain, self)
           yes == [op |-> "result", ok |-> TRUE]
           no == [op |-> "result", ok |-> FALSE]
<1>1. seed \in Command /\ seed.op = "p"
    <2>1. seed \in SeedCmd
        BY SeedTyped
    <2> HIDE DEF seed
    <2> QED
        BY <2>1 DEF SeedCmd, Command
<1>2. /\ yes \in Command /\ yes.op = "result" /\ yes.ok
      /\ no \in Command /\ no.op = "result" /\ ~no.ok
    BY DEF Command, ResultCmd
<1>3. Reply(ok, chain, self) = IF ok THEN <<yes, seed>> ELSE <<no>>
    BY DEF Reply
<1> HIDE DEF seed, yes, no
<1>4. /\ <<yes, seed>> \in Seq(Command) /\ Len(<<yes, seed>>) = 2
      /\ <<yes, seed>>[1] = yes /\ <<yes, seed>>[2] = seed
    BY <1>1, <1>2
<1>5. <<no>> \in Seq(Command) /\ Len(<<no>>) = 1 /\ <<no>>[1] = no
    BY <1>2
<1>6. CASE ok
    <2> DEFINE q == <<yes, seed>>
    <2> HIDE DEF q
    <2>1. Reply(ok, chain, self) = q /\ q \in Seq(Command) /\ Len(q) = 2 /\ q[1] = yes /\ q[2] = seed
        BY <1>3, <1>4, <1>6 DEF q
    <2> QED
        BY <1>1, <1>2, <2>1 DEF Piped
<1>7. CASE ~ok
    <2> DEFINE q == <<no>>
    <2> HIDE DEF q
    <2>1. Reply(ok, chain, self) = q /\ q \in Seq(Command) /\ Len(q) = 1 /\ q[1] = no
        BY <1>3, <1>5, <1>7 DEF q
    <2> QED
        BY <1>2, <2>1 DEF Piped
<1> QED
    BY <1>6, <1>7

(* The caller as it goes on.                                               *)
GoesOn(f, ok, chain, dead) == IF ok THEN [f EXCEPT !.chain = chain, !.dead = dead] ELSE f

LEMMA AnsweredTyped ==
    ASSUME NEW f \in Frames, NEW ok \in BOOLEAN, NEW chain \in Accounts, NEW dead \in SUBSET Addrs
    PROVE  LET g == GoesOn(f, ok, chain, dead)
           IN /\ g \in Frames /\ g.port = f.port /\ g.self = f.self /\ g.from = f.from
              /\ g.chain = (IF ok THEN chain ELSE f.chain) /\ g.dead = (IF ok THEN dead ELSE f.dead)
<1> DEFINE mid == [f EXCEPT !.chain = chain]
           new == [mid EXCEPT !.dead = dead]
<1>1. /\ mid \in Frames /\ mid.port = f.port /\ mid.self = f.self /\ mid.from = f.from
      /\ mid.chain = chain
    BY SetChain
<1>2. [f EXCEPT !.chain = chain, !.dead = dead] = new
    OBVIOUS
<1> HIDE DEF mid
<1>3. /\ new \in Frames /\ new.port = f.port /\ new.self = f.self /\ new.from = f.from
      /\ new.chain = chain /\ new.dead = dead
    BY <1>1, SetDead
<1> HIDE DEF new
<1>4. GoesOn(f, ok, chain, dead) = IF ok THEN new ELSE f
    BY <1>2 DEF GoesOn
<1> QED
    BY <1>3, <1>4

LEMMA PlainCallStep ==
    ASSUME HostInv, frames # <<>>, pending # Nothing, NEW hasCode, PlainCall(hasCode),
           pending' = Nothing, mailbox' = <<>>, UNCHANGED <<world, evals, vm, budget>>
    PROVE  HostInv'
<1> DEFINE f == Caller
<1>1. /\ TopMode = "result" /\ Len(toVm[This.port]) = 0 /\ mailbox # <<>>
      /\ pending \in CallMsg /\ f \in Frames /\ f.port = This.port
    BY CallWaits
<1>2. /\ f.chain \in Accounts /\ f.dead \in SUBSET Addrs /\ f.self \in Addrs
      /\ Entered(f) \in Accounts
    BY <1>1, EnteredTyped DEF Frames
<1>3. PICK ok \in BOOLEAN, chain \in Accounts : Answer(Outer, f, ok, chain, f.dead)
    <2>1. Answer(Outer, f, FALSE, f.chain, f.dead) \/ Answer(Outer, f, TRUE, Entered(f), f.dead)
        BY DEF PlainCall
    <2> QED
        BY <1>2, <2>1
<1> DEFINE g == GoesOn(f, ok, chain, f.dead)
           r == Reply(ok, chain, f.self)
<1>4. frames' = Append(Outer, g) /\ toVm' = [toVm EXCEPT ![f.port] = @ \o r]
    BY <1>3 DEF Answer, Reply, GoesOn
<1> HIDE DEF f
<1>5. g \in Frames /\ g.port = This.port
    <2> HIDE DEF r
    <2> QED
        BY <1>1, <1>2, AnsweredTyped
<1>6. r \in Seq(Command) /\ Piped(r, TopMode)
    BY <1>1, <1>2, ReplyPiped
<1> HIDE DEF g, r
<1>7. FramesOK /\ This.port \in Ports /\ toVm[This.port] \in Seq(Command)
    BY <1>1, Taken
<1>8. toVm' = [toVm EXCEPT ![This.port] = r]
    <2>1. toVm[This.port] \o r = r
        BY <1>1, <1>6, <1>7
    <2> QED
        BY <1>1, <1>4, <2>1
<1>9. SamePorts /\ frames' \in Seq(Frames)
    BY <1>4, <1>5, <1>7, TopReplaced
<1>10. /\ Said(mailbox', TopMode, This.port, Len(frames), pending')
       /\ Waiting(pending', mailbox', TopMode, Len(frames))
    BY SilenceSaid DEF Waiting
<1>11. /\ UNCHANGED <<world, pool, opened, evals, vm, budget>>
       /\ mailbox' \in Seq(Message) /\ pending' \in CallMsg \cup {Nothing}
    BY DEF PlainCall
<1> QED
    BY <1>1, <1>6, <1>8, <1>9, <1>10, <1>11, ElixirStep

LEMMA TakeCallUpdatesStep ==
    ASSUME HostInv, TakeCallUpdates
    PROVE  HostInv'
<1>1. frames # <<>> /\ pending # Nothing
    BY DEF TakeCallUpdates
<1>2. FirstUpdates = 1 /\ RemoveAt(mailbox, 1) = <<>>
    BY <1>1, CallWaits
<1>3. CASE Die
    BY <1>3, DieStep
<1>4. CASE /\ \E hasCode \in BOOLEAN : StartCall(hasCode) \/ PlainCall(hasCode)
           /\ pending' = Nothing /\ mailbox' = RemoveAt(mailbox, FirstUpdates)
           /\ UNCHANGED <<world, evals, vm, budget>>
    BY <1>1, <1>2, <1>4, StartCallStep, PlainCallStep
<1> QED
    BY <1>3, <1>4 DEF TakeCallUpdates

(* The ports once the innermost message gave its port back.                 *)
LEMMA PortReturned ==
    ASSUME HostInv, frames # <<>>, Len(frames') = Len(frames) - 1,
           \A i \in 1 .. Len(frames) - 1 : frames'[i].port = frames[i].port,
           pool' = <<This.port>> \o pool, opened' = opened
    PROVE  PortsAreHeld' /\ pool' \in Seq(Ports)
<1> DEFINE n == Len(frames)
           k == Len(pool)
           own == This.port
           first == <<own>>
<1>1. /\ pool \in Seq(Ports) /\ opened \in Nat /\ n \in Nat \ {0} /\ k \in Nat
      /\ opened = n + k /\ PortsAreHeld /\ own \in Ports /\ own = frames[n].port
    BY ThisTyped, EvmHostAssumption DEF HostInv, Typed, PortsAreHeld, This
<1> HIDE DEF own
<1>2. first \in Seq(Ports) /\ Len(first) = 1 /\ first[1] = own
    BY <1>1
<1> HIDE DEF first
<1>3. /\ pool' \in Seq(Ports) /\ Len(pool') = k + 1 /\ pool'[1] = own
      /\ \A i \in 1 .. k : pool'[i + 1] = pool[i]
    <2>1. pool' = first \o pool
        BY DEF first, own
    <2>2. /\ pool' \in Seq(Ports) /\ Len(pool') = Len(first) + Len(pool)
          /\ \A i \in 1 .. Len(first) + Len(pool) :
                pool'[i] = IF i <= Len(first) THEN first[i] ELSE pool[i - Len(first)]
        BY <1>1, <1>2, <2>1, ConcatProperties
    <2>3. 1 \in 1 .. Len(first) + Len(pool)
        BY <1>1, <1>2
    <2>4. ASSUME NEW i \in 1 .. k
          PROVE  pool'[i + 1] = pool[i]
        <3>1. i + 1 \in 1 .. Len(first) + Len(pool) /\ ~(i + 1 <= Len(first)) /\ i + 1 - Len(first) = i
            BY <1>1, <1>2
        <3> QED
            BY <2>2, <3>1
    <2> QED
        BY <1>1, <1>2, <2>2, <2>3, <2>4
<1>4. \A i \in 1 .. Len(pool') : i # 1 => i - 1 \in 1 .. k /\ (i - 1) + 1 = i
    BY <1>1, <1>3
<1>5. n \in 1 .. n /\ \A i \in 1 .. n - 1 : i \in 1 .. n /\ i # n
    BY <1>1
<1>6. own <= opened
    BY <1>1, <1>5 DEF PortsAreHeld
<1>7. opened' = Len(frames') + Len(pool')
    BY <1>1, <1>3
<1>8. \A i \in 1 .. n - 1 : frames'[i].port <= opened'
    BY <1>1, <1>5 DEF PortsAreHeld
<1>9. ASSUME NEW i \in 1 .. Len(pool')
      PROVE  pool'[i] <= opened'
    <2>1. CASE i = 1
        BY <1>3, <1>6, <2>1
    <2>2. CASE i # 1
        <3>1. pool'[i] = pool[i - 1] /\ i - 1 \in 1 .. k
            BY <1>3, <1>4, <2>2
        <3> QED
            BY <1>1, <3>1 DEF PortsAreHeld
    <2> QED
        BY <2>1, <2>2
<1>10. ASSUME NEW p \in 1 .. opened'
       PROVE  \/ \E i \in 1 .. n - 1 : frames'[i].port = p
              \/ \E i \in 1 .. Len(pool') : pool'[i] = p
    <2>1. ASSUME NEW i \in 1 .. n, frames[i].port = p
          PROVE  \/ \E j \in 1 .. n - 1 : frames'[j].port = p
                 \/ \E j \in 1 .. Len(pool') : pool'[j] = p
        <3>1. CASE i = n
            <4>1. pool'[1] = p /\ 1 \in 1 .. Len(pool')
                BY <1>1, <1>3, <2>1, <3>1
            <4> QED
                BY <4>1
        <3>2. CASE i # n
            <4>1. i \in 1 .. n - 1
                BY <1>1, <3>2
            <4> QED
                BY <2>1, <4>1
        <3> QED
            BY <3>1, <3>2
    <2>2. ASSUME NEW i \in 1 .. k, pool[i] = p
          PROVE  \E j \in 1 .. Len(pool') : pool'[j] = p
        <3>1. i + 1 \in 1 .. Len(pool') /\ pool'[i + 1] = p
            BY <1>1, <1>3, <2>2
        <3> QED
            BY <3>1
    <2> QED
        BY <1>1, <2>1, <2>2 DEF PortsAreHeld
<1>11. ASSUME NEW i \in 1 .. n - 1, NEW j \in 1 .. n - 1, frames'[i].port = frames'[j].port
       PROVE  i = j
    BY <1>1, <1>5, <1>11 DEF PortsAreHeld
<1>12. ASSUME NEW i \in 1 .. k
       PROVE  pool[i] # own
    BY <1>1, <1>5 DEF PortsAreHeld
<1>13. ASSUME NEW i \in 1 .. Len(pool'), NEW j \in 1 .. Len(pool'), pool'[i] = pool'[j]
       PROVE  i = j
    <2>1. CASE i # 1 /\ j # 1
        <3>1. /\ i - 1 \in 1 .. k /\ j - 1 \in 1 .. k /\ pool[i - 1] = pool[j - 1]
            BY <1>3, <1>4, <1>13, <2>1
        <3>2. i - 1 = j - 1
            BY <1>1, <3>1 DEF PortsAreHeld
        <3> QED
            BY <3>2
    <2>2. CASE i = 1 /\ j # 1
        BY <1>3, <1>4, <1>12, <1>13, <2>2
    <2>3. CASE i # 1 /\ j = 1
        BY <1>3, <1>4, <1>12, <1>13, <2>3
    <2> QED
        BY <2>1, <2>2, <2>3
<1>14. ASSUME NEW i \in 1 .. Len(pool'), NEW j \in 1 .. n - 1
       PROVE  frames'[j].port # pool'[i]
    <2>1. frames'[j].port = frames[j].port /\ j \in 1 .. n /\ j # n
        BY <1>5
    <2>2. CASE i = 1
        <3>1. n \in 1 .. n /\ pool'[i] = frames[n].port
            BY <1>1, <1>3, <1>5, <2>2
        <3>2. frames[j].port # frames[n].port
            BY <1>1, <2>1, <3>1 DEF PortsAreHeld
        <3> QED
            BY <2>1, <3>1, <3>2
    <2>3. CASE i # 1
        <3> DEFINE l == i - 1
        <3>1. pool'[i] = pool[l] /\ l \in 1 .. k
            BY <1>3, <1>4, <2>3
        <3> HIDE DEF l
        <3>2. frames[j].port # pool[l]
            BY <1>1, <2>1, <3>1 DEF PortsAreHeld
        <3> QED
            BY <2>1, <3>1, <3>2
    <2> QED
        BY <2>2, <2>3
<1> QED
    BY <1>3, <1>7, <1>8, <1>9, <1>10, <1>11, <1>13, <1>14 DEF PortsAreHeld

(* The innermost message ends; the one that called it is answered.          *)
LEMMA PopStep ==
    ASSUME HostInv, frames # <<>>, TopMode = "cmd", Len(toVm[This.port]) = 0,
           Len(frames') = Len(frames) - 1, frames' \in Seq(Frames),
           \A i \in 1 .. Len(frames) - 1 : frames'[i].port = frames[i].port,
           pool' = <<This.port>> \o pool, mailbox' = <<>>, pending' = Nothing, world' \in Accounts,
           UNCHANGED <<opened, evals, vm, budget>>, toVm' \in [Ports -> Seq(Command)],
           \A p \in Ports :
               \/ toVm'[p] = toVm[p]
               \/ /\ Len(frames) > 1 /\ p = frames[Len(frames) - 1].port
                  /\ Piped(toVm'[p], "result")
    PROVE  HostInv'
<1> DEFINE n == Len(frames)
<1>1. /\ n \in 1 .. MaxDepth /\ MaxDepth \in Nat /\ This.port \in Ports /\ This = frames[n]
      /\ \A i \in 1 .. n : frames[i] \in Frames /\ frames[i].port \in Ports
    BY ThisTyped, EvmHostAssumption DEF HostInv, Typed, This
<1>2. PortsAreHeld' /\ pool' \in Seq(Ports)
    BY PortReturned
<1>3. Typed'
    <2>1. VmOK' /\ budget' \in 0 .. Budget /\ evals' \in 0 .. MaxEvals /\ opened' \in 0 .. MaxDepth
        BY DEF HostInv, Typed, VmOK
    <2>2. FramesOK' /\ mailbox' \in Seq(Message)
        BY <1>1 DEF FramesOK
    <2> QED
        BY <1>2, <2>1, <2>2 DEF Typed
<1>4. \A i \in 1 .. n - 1 : i \in 1 .. n /\ i # n
    BY <1>1
<1>5. ASSUME NEW i \in 1 .. n - 1
      PROVE  vm'[frames[i].port].mode = "result" /\ frames[i].port # This.port
    <2>1. vm[frames[i].port].mode = "result"
        BY DEF HostInv, InStep
    <2>2. n \in 1 .. n /\ i \in 1 .. n /\ i # n
        BY <1>1, <1>4
    <2>3. frames[i].port # frames[n].port
        BY <2>2 DEF HostInv, PortsAreHeld
    <2> QED
        BY <1>1, <2>1, <2>3
<1>6. n > 1 => n - 1 \in 1 .. n - 1
    BY <1>1
<1>7. ASSUME NEW p \in Ports
      PROVE  Piped(toVm'[p], vm'[p].mode) /\ Placed(vm'[p])
    <2>1. Piped(toVm[p], vm[p].mode) /\ Placed(vm[p]) /\ vm' = vm
        BY DEF HostInv, InStep
    <2>2. CASE toVm'[p] = toVm[p]
        BY <2>1, <2>2
    <2>3. CASE n > 1 /\ p = frames[n - 1].port /\ Piped(toVm'[p], "result")
        BY <1>5, <1>6, <2>1, <2>3
    <2> QED
        BY <2>2, <2>3
<1>8. ASSUME NEW p \in Ports, \A i \in 1 .. Len(frames') : frames'[i].port # p
      PROVE  vm'[p].mode = "cmd" /\ Len(toVm'[p]) = 0
    <2>1. \A i \in 1 .. n - 1 : frames[i].port # p
        BY <1>8
    <2>2. toVm'[p] = toVm[p]
        BY <1>6, <2>1
    <2>3. CASE p = This.port
        BY <2>2, <2>3 DEF TopMode
    <2>4. CASE p # This.port
        <3>1. ASSUME NEW i \in 1 .. n PROVE frames[i].port # p
            <4>1. i = n \/ i \in 1 .. n - 1
                BY <1>1
            <4> QED
                BY <1>1, <2>1, <2>4, <4>1
        <3> QED
            BY <2>2, <3>1 DEF HostInv, InStep
    <2> QED
        BY <2>3, <2>4
<1>9. ASSUME NEW i \in 1 .. Len(frames') - 1
      PROVE  vm'[frames'[i].port].mode = "result" /\ Len(toVm'[frames'[i].port]) = 0
    <2>1. i \in 1 .. n - 1 /\ i \in 1 .. n /\ n - 1 \in 1 .. n /\ i # n - 1
        BY <1>1, <1>9
    <2>2. frames'[i].port = frames[i].port /\ frames[i].port \in Ports
        BY <1>1, <2>1
    <2>3. frames[i].port # frames[n - 1].port
        BY <2>1 DEF HostInv, PortsAreHeld
    <2>4. toVm'[frames[i].port] = toVm[frames[i].port]
        BY <2>2, <2>3
    <2>5. Len(toVm[frames[i].port]) = 0
        BY <2>1 DEF HostInv, InStep
    <2> QED
        BY <1>5, <2>1, <2>2, <2>4, <2>5
<1>10. InStep'
    BY <1>7, <1>8, <1>9, SilenceSaid DEF InStep, Waiting
<1> QED
    BY <1>2, <1>3, <1>10 DEF HostInv

LEMMA TailOfOne ==
    ASSUME NEW box \in Seq(Message), Len(box) = 1
    PROVE  Tail(box) = <<>>
<1> DEFINE rest == Tail(box)
<1>1. box # <<>>
    OBVIOUS
<1>2. rest \in Seq(Message) /\ Len(rest) = Len(box) - 1
    BY <1>1, HeadTailProperties
<1> HIDE DEF rest
<1>3. rest = <<>>
    BY <1>2
<1> QED
    BY <1>3 DEF rest

LEMMA TakeOkStep ==
    ASSUME HostInv, NEW paid \in BOOLEAN, NEW hasOutput \in BOOLEAN, TakeOk(paid, hasOutput)
    PROVE  HostInv'
<1> DEFINE n == Len(frames)
           c == Head(mailbox)
           ok == c.ok /\ paid
           dead == DeadNow(This)
           ended == Ended(This, hasOutput)
<1>1. frames # <<>> /\ mailbox # <<>> /\ c.op = "ok" /\ pending = Nothing
    BY DEF TakeOk, Awaited
<1>2. /\ toVm[This.port] \in Seq(Command) /\ Len(toVm[This.port]) = 0 /\ This.port \in Ports
      /\ This \in Frames /\ FramesOK /\ n \in 1 .. MaxDepth /\ MaxDepth \in Nat
      /\ Len(mailbox) \in Nat \ {0} /\ c = mailbox[1] /\ mailbox[1] \in Message
      /\ Said(mailbox, TopMode, This.port, Len(frames), pending)
      /\ mailbox[1].op \in SaidBy(TopMode) /\ TopMode \in {"cmd", "run", "gs", "query", "result", "seed"}
      /\ Tail(mailbox) \in Seq(Message) /\ Len(Tail(mailbox)) = Len(mailbox) - 1
    BY <1>1, Taken, EvmHostAssumption
<1>3. TopMode = "cmd"
    BY <1>1, <1>2 DEF SaidBy
<1>4. Tail(mailbox) = <<>>
    <2>1. 1 \in 1 .. Len(mailbox) /\ mailbox[1].op = "ok"
        BY <1>1, <1>2
    <2>2. 1 = Len(mailbox)
        BY <1>2, <2>1 DEF Said
    <2>3. mailbox \in Seq(Message)
        BY DEF HostInv, Typed
    <2> QED
        BY <2>2, <2>3, TailOfOne
<1>5. ok \in BOOLEAN
    BY <1>1, <1>2, Msgs DEF EndMsg
<1>6. dead \in SUBSET Addrs /\ ended \in Accounts
    BY <1>2, EndedTyped DEF DeadNow, Frames
<1>7. CASE Die
    BY <1>7, DieStep
<1>8. CASE ~Die
    <2>1. /\ pool' = <<This.port>> \o pool /\ mailbox' = <<>>
          /\ UNCHANGED <<pending, opened, evals, vm, budget>>
          /\ n = 1 => world' = (IF ok THEN This.chain ELSE world) /\ frames' = <<>> /\ UNCHANGED toVm
          /\ n # 1 => /\ Answer(SubSeq(frames, 1, n - 2), Last(Outer), ok, ended, dead)
                      /\ UNCHANGED world
        BY <1>4, <1>8 DEF TakeOk
    <2>2. world' \in Accounts /\ pending' = Nothing
        BY <1>1, <1>2, <2>1 DEF HostInv, Typed, Frames
    <2>3. CASE n = 1
        <3>1. frames' \in Seq(Frames) /\ Len(frames') = n - 1 /\ toVm' \in [Ports -> Seq(Command)]
            BY <2>1, <2>3 DEF HostInv, Typed
        <3>2. \A i \in 1 .. Len(frames) - 1 : frames'[i].port = frames[i].port
            BY <2>3
        <3> QED
            BY <1>1, <1>2, <1>3, <2>1, <2>2, <2>3, <3>1, <3>2, PopStep
    <2>4. CASE n # 1
        <3> DEFINE rest == SubSeq(frames, 1, n - 2)
                   f == frames[n - 1]
                   g == GoesOn(f, ok, ended, dead)
                   r == Reply(ok, ended, f.self)
        <3>1. n - 1 \in 1 .. n - 1 /\ n - 1 \in 1 .. n /\ n - 2 \in Nat /\ n > 1
            <4>1. n \in Nat /\ n >= 1 /\ n # 1
                BY <1>2, <2>4
            <4> HIDE DEF n
            <4>2. n > 1 /\ n - 1 \in 1 .. n - 1 /\ n - 1 \in 1 .. n /\ n - 2 \in Nat
                BY <4>1
            <4> QED
                BY <4>2 DEF n
        <3>2. f \in Frames /\ \A i \in 1 .. n - 2 : frames[i] \in Frames
            BY <1>2, <3>1, <1>1, ThisTyped
        <3>3. Last(Outer) = f
            <4>1. Outer \in Seq(Frames) /\ Len(Outer) = n - 1 /\ Outer[n - 1] = f
                BY <1>1, <1>2, <3>1, OuterTyped
            <4> QED
                BY <4>1 DEF Last
        <3>4. rest \in Seq(Frames) /\ Len(rest) = n - 2 /\ \A i \in 1 .. n - 2 : rest[i] = frames[i]
            <4> DEFINE m == n - 2
            <4>1. m \in Nat /\ \A i \in 1 .. m : frames[i] \in Frames
                BY <3>1, <3>2
            <4>2. rest = SubSeq(frames, 1, m)
                OBVIOUS
            <4> HIDE DEF m, rest
            <4>3. /\ rest \in Seq(Frames) /\ Len(rest) = (IF 1 <= m THEN m - 1 + 1 ELSE 0)
                  /\ \A i \in 1 .. m - 1 + 1 : rest[i] = frames[1 + i - 1]
                BY <4>1, <4>2, SubSeqProperties
            <4>4. Len(rest) = m /\ \A i \in 1 .. m : rest[i] = frames[i]
                BY <4>1, <4>3
            <4> QED
                BY <4>3, <4>4 DEF m
        <3>5. frames' = Append(rest, g) /\ toVm' = [toVm EXCEPT ![f.port] = @ \o r]
            BY <2>1, <2>4, <3>3 DEF Answer, Reply, GoesOn
        <3>6. f.self \in Addrs /\ f.port \in Ports
            BY <3>2 DEF Frames
        <3> HIDE DEF f, rest, dead, ended, ok
        <3>7. g \in Frames /\ g.port = f.port
            BY <1>5, <1>6, <3>2, AnsweredTyped
        <3>8. r \in Seq(Command) /\ Piped(r, "result")
            BY <1>5, <1>6, <3>6, ReplyPiped
        <3> HIDE DEF g, r
        <3>9. frames' \in Seq(Frames) /\ Len(frames') = n - 1
            BY <3>1, <3>4, <3>5, <3>7
        <3>10. ASSUME NEW i \in 1 .. n - 1
               PROVE  frames'[i].port = frames[i].port
            <4>1. CASE i = n - 1
                <5>1. frames'[i] = g
                    BY <3>1, <3>4, <3>5, <3>7, <4>1
                <5> QED
                    BY <3>7, <4>1, <5>1 DEF f
            <4>2. CASE i # n - 1
                <5>1. i \in 1 .. n - 2
                    BY <3>1, <4>2
                <5>2. frames'[i] = rest[i]
                    BY <3>1, <3>4, <3>5, <3>7, <5>1
                <5> QED
                    BY <3>4, <5>1, <5>2
            <4> QED
                BY <4>1, <4>2
        <3>11. toVm' = [toVm EXCEPT ![f.port] = r]
            <4>1. Len(toVm[f.port]) = 0 /\ toVm[f.port] \in Seq(Command)
                BY <3>1, <3>6 DEF HostInv, Typed, InStep, f
            <4>2. toVm[f.port] \o r = r
                BY <3>8, <4>1
            <4> QED
                BY <3>5, <4>2
        <3>12. toVm' \in [Ports -> Seq(Command)]
            BY <3>8, <3>11 DEF HostInv, Typed
        <3>13. ASSUME NEW p \in Ports
               PROVE  \/ toVm'[p] = toVm[p]
                      \/ /\ Len(frames) > 1 /\ p = frames[Len(frames) - 1].port
                         /\ Piped(toVm'[p], "result")
            <4>1. toVm \in [Ports -> Seq(Command)]
                BY DEF HostInv, Typed
            <4> QED
                BY <3>1, <3>8, <3>11, <4>1 DEF f
        <3> QED
            BY <1>1, <1>2, <1>3, <2>1, <2>2, <3>9, <3>10, <3>12, <3>13, PopStep
    <2> QED
        BY <2>3, <2>4
<1> QED
    BY <1>7, <1>8

-----------------------------------------------------------------------------
(* The evaluation as a whole.                                               *)

LEMMA InitKeeps ==
    ASSUME Init
    PROVE  HostInv
<1>1. Fresh \in Process /\ Placed(Fresh) /\ Fresh.mode = "cmd"
    BY EmptyTable DEF Fresh, Process, NoPend, Placed, Table
<1>2. /\ world = World /\ frames = <<>> /\ pending = Nothing /\ mailbox = <<>> /\ pool = <<>>
      /\ opened = 0 /\ budget = Budget /\ evals = 0
      /\ \A p \in Ports : toVm[p] = <<>> /\ vm[p] = Fresh
    BY DEF Init
<1>3. toVm \in [Ports -> Seq(Command)] /\ vm \in [Ports -> Process]
    BY <1>1 DEF Init
<1>4. Typed
    BY <1>2, <1>3, EvmHostAssumption DEF Typed, FramesOK, VmOK, Accounts
<1>5. PortsAreHeld
    BY <1>2 DEF PortsAreHeld
<1>6. InStep
    BY <1>1, <1>2 DEF InStep, Piped
<1> QED
    BY <1>4, <1>5, <1>6 DEF HostInv

LEMMA StutterKeeps ==
    ASSUME HostInv, UNCHANGED vars
    PROVE  HostInv'
<1>1. UNCHANGED <<world, frames, pending, mailbox, pool, opened, toVm, vm, budget, evals>>
    BY DEF vars
<1>2. Typed'
    BY <1>1 DEF HostInv, Typed, FramesOK, VmOK
<1>3. PortsAreHeld'
    BY <1>1 DEF HostInv, PortsAreHeld
<1>4. InStep'
    BY <1>1 DEF HostInv, InStep, TopMode, This
<1> QED
    BY <1>2, <1>3, <1>4 DEF HostInv

LEMMA EvmStepKeeps ==
    ASSUME HostInv, EvmStep
    PROVE  HostInv'
    BY AnswerReadStep, AnswerQueryStep, TakeUpdatesStep, TakeDeathStep, TakeLogStep, TakeCallStep,
       TakeCallUpdatesStep, TakeOkStep DEF EvmStep

LEMMA NextKeeps ==
    ASSUME HostInv, [Next]_vars
    PROVE  HostInv'
<1>1. CASE \E to \in Addrs, value \in 0 .. MaxValue : Begin(to, value)
    BY <1>1, BeginStep
<1>2. CASE \E p \in Ports : VmStep(p)
    BY <1>2, VmStepKeeps
<1>3. CASE EvmStep
    BY <1>3, EvmStepKeeps
<1>4. CASE Timeout
    BY <1>4, DieStep DEF Timeout
<1>5. CASE UNCHANGED vars
    BY <1>5, StutterKeeps
<1> QED
    BY <1>1, <1>2, <1>3, <1>4, <1>5 DEF Next

(* The processes of an evaluation keep to their protocol.                   *)
THEOREM HostInvariant == Spec => []HostInv
<1>1. Init => HostInv
    BY InitKeeps
<1>2. HostInv /\ [Next]_vars => HostInv'
    BY NextKeeps
<1> QED
    BY <1>1, <1>2, PTL DEF Spec

(* The words of the commands in a pipe.                                     *)
LEMMA OpsOf ==
    ASSUME NEW q \in Seq(Command)
    PROVE  LET ops == [i \in DOMAIN q |-> q[i].op]
           IN /\ Len(q) = 0 => ops = <<>>
              /\ Len(q) = 1 => ops = <<q[1].op>>
              /\ Len(q) = 2 => ops = <<q[1].op, q[2].op>>
              /\ Len(q) = 3 => ops = <<q[1].op, q[2].op, q[3].op>>
<1> DEFINE ops == [i \in DOMAIN q |-> q[i].op]
<1>1. DOMAIN q = 1 .. Len(q)
    OBVIOUS
<1>2. CASE Len(q) = 0
    BY <1>1, <1>2
<1>3. CASE Len(q) = 1
    <2>1. DOMAIN ops = 1 .. 1 /\ ops[1] = q[1].op
        BY <1>1, <1>3
    <2> HIDE DEF ops
    <2> QED
        BY <1>3, <2>1
<1>4. CASE Len(q) = 2
    <2>1. DOMAIN ops = 1 .. 2 /\ ops[1] = q[1].op /\ ops[2] = q[2].op
        BY <1>1, <1>4
    <2> HIDE DEF ops
    <2> QED
        BY <1>4, <2>1
<1>5. CASE Len(q) = 3
    <2>1. DOMAIN ops = 1 .. 3 /\ ops[1] = q[1].op /\ ops[2] = q[2].op /\ ops[3] = q[3].op
        BY <1>1, <1>5
    <2> HIDE DEF ops
    <2> QED
        BY <1>5, <2>1
<1> QED
    BY <1>2, <1>3, <1>4, <1>5

LEMMA PipedIsExpected ==
    ASSUME NEW q \in Seq(Command), NEW mode \in {"cmd", "run", "gs", "query", "result", "seed"},
           Piped(q, mode)
    PROVE  [i \in DOMAIN q |-> q[i].op] \in Expected(mode)
<1> DEFINE ops == [i \in DOMAIN q |-> q[i].op]
<1>1. /\ Len(q) = 0 => ops = <<>>
      /\ Len(q) = 1 => ops = <<q[1].op>>
      /\ Len(q) = 2 => ops = <<q[1].op, q[2].op>>
      /\ Len(q) = 3 => ops = <<q[1].op, q[2].op, q[3].op>>
    BY OpsOf
<1> HIDE DEF ops
<1>2. CASE mode = "cmd"
    BY <1>1, <1>2 DEF Piped, Expected
<1>3. CASE mode = "run"
    BY <1>1, <1>3 DEF Piped, Expected
<1>4. CASE mode = "gs"
    BY <1>1, <1>4 DEF Piped, Expected
<1>5. CASE mode = "query"
    BY <1>1, <1>5 DEF Piped, Expected
<1>6. CASE mode = "result"
    BY <1>1, <1>6 DEF Piped, Expected
<1>7. CASE mode = "seed"
    BY <1>1, <1>7 DEF Piped, Expected
<1> QED
    BY <1>2, <1>3, <1>4, <1>5, <1>6, <1>7

LEMMA TypesHold ==
    ASSUME HostInv
    PROVE  TypeOK
<1>1. /\ world \in Accounts /\ frames \in Seq(Frames) /\ Len(frames) <= MaxDepth
      /\ pool \in Seq(Ports) /\ opened \in 0 .. MaxDepth /\ VmOK
      /\ budget \in 0 .. Budget /\ evals \in 0 .. MaxEvals
    BY DEF HostInv, Typed, FramesOK
<1>2. ASSUME NEW i \in DOMAIN frames
      PROVE  /\ frames[i].port \in Ports /\ frames[i].self \in Addrs
             /\ frames[i].chain \in Accounts /\ frames[i].dead \subseteq Addrs
    <2>1. frames[i] \in Frames
        BY <1>1
    <2> QED
        BY <2>1 DEF Frames
<1>3. Range(pool) \subseteq 1 .. opened
    <2>1. ASSUME NEW i \in DOMAIN pool
          PROVE  pool[i] \in 1 .. opened
        <3>1. pool[i] \in Ports /\ i \in 1 .. Len(pool)
            BY <1>1
        <3>2. pool[i] <= opened
            BY <3>1 DEF HostInv, PortsAreHeld
        <3> QED
            BY <1>1, <3>1, <3>2, EvmHostAssumption DEF Ports
    <2> QED
        BY <2>1 DEF Range
<1>4. ASSUME NEW p \in Ports
      PROVE  /\ vm[p].mode \in {"cmd", "run", "gs", "query", "result", "seed"}
             /\ vm[p].complete \subseteq Addrs
             /\ \A e \in Range(Entries(vm[p].cache)) \cup Range(Entries(vm[p].writes)) :
                    e.key \in MapKeys /\ e.val \in Vals
    <2>1. vm[p] \in Process
        BY <1>1 DEF VmOK
    <2>2. vm[p].cache.data \in Seq(Entry) /\ vm[p].writes.data \in Seq(Entry)
        BY <2>1 DEF Process, Table, TableOf, Entry
    <2>3. ASSUME NEW s \in Seq(Entry), NEW e \in Range(s)
          PROVE  e.key \in MapKeys /\ e.val \in Vals
        <3>1. e \in Entry
            BY DEF Range
        <3> QED
            BY <3>1 DEF Entry, EntryOf
    <2> QED
        BY <2>1, <2>2, <2>3 DEF Process, Entries
<1> QED
    BY <1>1, <1>2, <1>3, <1>4 DEF TypeOK

(* As many ports are in use as messages are running.                        *)
LEMMA PortsInUse ==
    ASSUME HostInv
    PROVE  Cardinality({p \in 1 .. opened : p \notin Range(pool)}) = Len(frames)
<1> DEFINE n == Len(frames)
           used == {p \in 1 .. opened : p \notin Range(pool)}
           f == [i \in 1 .. n |-> frames[i].port]
<1>1. /\ frames \in Seq(Frames) /\ n \in Nat /\ pool \in Seq(Ports) /\ PortsAreHeld
      /\ opened \in Nat
    BY EvmHostAssumption DEF HostInv, Typed, FramesOK
<1>2. ASSUME NEW i \in 1 .. n
      PROVE  frames[i].port \in used
    <2>1. frames[i].port \in Ports
        <3>1. frames[i] \in Frames
            BY <1>1
        <3> QED
            BY <3>1 DEF Frames
    <2>2. frames[i].port \in 1 .. opened
        BY <1>1, <2>1, EvmHostAssumption DEF PortsAreHeld, Ports
    <2>3. \A j \in DOMAIN pool : pool[j] # frames[i].port
        <3>1. DOMAIN pool = 1 .. Len(pool)
            BY <1>1
        <3>2. \A j \in 1 .. Len(pool) : frames[i].port # pool[j]
            <4> HIDE DEF used, f
            <4> QED
                BY <1>1 DEF PortsAreHeld
        <3> QED
            BY <3>1, <3>2
    <2> QED
        BY <2>2, <2>3 DEF Range
<1>3. ASSUME NEW p \in used
      PROVE  \E i \in 1 .. n : frames[i].port = p
    <2>1. \A j \in 1 .. Len(pool) : pool[j] # p
        BY <1>1 DEF Range
    <2> QED
        BY <1>1, <2>1 DEF PortsAreHeld
<1>4. \A i, j \in 1 .. n : frames[i].port = frames[j].port => i = j
    BY <1>1 DEF PortsAreHeld
<1> HIDE DEF used
<1>5. f \in [1 .. n -> used] /\ \A i \in 1 .. n : f[i] = frames[i].port
    BY <1>2
<1> HIDE DEF f
<1>6. f \in Bijection(1 .. n, used)
    <2>1. f \in Injection(1 .. n, used)
        BY <1>4, <1>5 DEF Injection, IsInjective
    <2>2. f \in Surjection(1 .. n, used)
        BY <1>3, <1>5 DEF Surjection
    <2> QED
        BY <2>1, <2>2 DEF Bijection
<1>7. ExistsBijection(1 .. n, used)
    BY <1>6 DEF ExistsBijection
<1>8. Cardinality(used) = n
    BY <1>1, <1>7, FS_CountingElements
<1> QED
    BY <1>8 DEF used

LEMMA PoolRests ==
    ASSUME HostInv
    PROVE  PoolIsAtRest
<1>1. frames \in Seq(Frames) /\ pool \in Seq(Ports) /\ PortsAreHeld
    BY DEF HostInv, Typed, FramesOK
<1>2. DOMAIN frames = 1 .. Len(frames) /\ DOMAIN pool = 1 .. Len(pool)
    BY <1>1
<1>3. /\ \A i, j \in DOMAIN frames : frames[i].port = frames[j].port => i = j
      /\ \A i, j \in DOMAIN pool : pool[i] = pool[j] => i = j
    BY <1>1, <1>2 DEF PortsAreHeld
<1>4. ASSUME NEW i \in DOMAIN pool
      PROVE  /\ \A j \in DOMAIN frames : frames[j].port # pool[i]
             /\ vm[pool[i]].mode = "cmd" /\ toVm[pool[i]] = <<>>
    <2>1. pool[i] \in Ports /\ \A j \in 1 .. Len(frames) : frames[j].port # pool[i]
        BY <1>1, <1>2 DEF PortsAreHeld
    <2> QED
        BY <1>2, <2>1, AtRest
<1> QED
    BY <1>3, <1>4, PortsInUse DEF PoolIsAtRest

LEMMA PipesHold ==
    ASSUME HostInv
    PROVE  PipesAreInStep
<1>1. mailbox \in Seq(Message) /\ toVm \in [Ports -> Seq(Command)] /\ vm \in [Ports -> Process]
    BY DEF HostInv, Typed, VmOK
<1>2. frames = <<>> => mailbox = <<>> /\ pending = Nothing
    BY DEF HostInv, InStep
<1>3. ASSUME NEW i \in DOMAIN mailbox
      PROVE  mailbox[i].port = This.port /\ (mailbox[i].op = "ca" => mailbox[i + 1].op = "su")
    <2>1. i \in 1 .. Len(mailbox) /\ frames # <<>>
        BY <1>1, <1>2
    <2>2. Said(mailbox, TopMode, This.port, Len(frames), pending)
        BY <2>1 DEF HostInv, InStep
    <2> QED
        BY <2>1, <2>2 DEF Said
<1>4. ASSUME pending # Nothing
      PROVE  mailbox # <<>> /\ Head(mailbox).op = "su"
    <2>1. Len(mailbox) = 1 /\ mailbox[1].op = "su"
        BY <1>2, <1>4 DEF HostInv, InStep, Waiting
    <2>2. mailbox # <<>>
        <3> SUFFICES ASSUME mailbox = <<>> PROVE FALSE
            OBVIOUS
        <3>1. Len(mailbox) = 0
            OBVIOUS
        <3> QED
            BY <2>1, <3>1
    <2>3. Head(mailbox) = mailbox[1]
        BY <1>1, <2>2
    <2> QED
        BY <2>1, <2>2, <2>3
<1>5. ASSUME NEW p \in Ports
      PROVE  /\ [i \in DOMAIN toVm[p] |-> toVm[p][i].op] \in Expected(vm[p].mode)
             /\ toVm[p] # <<>> => p = This.port /\ mailbox = <<>>
    <2>1. /\ toVm[p] \in Seq(Command) /\ Piped(toVm[p], vm[p].mode)
          /\ vm[p].mode \in {"cmd", "run", "gs", "query", "result", "seed"}
        BY <1>1 DEF HostInv, InStep, Process
    <2> QED
        BY <2>1, PipedIsExpected, ReaderIsTop
<1> QED
    BY <1>2, <1>3, <1>4, <1>5, PoolRests DEF PipesAreInStep

(* Every value an evaluation holds has its type: the accounts of every      *)
(* message, what the caches of the C++ processes store, the ports.          *)
THEOREM TypesOfEvaluation == Spec => []TypeOK
<1>1. HostInv => TypeOK
    BY TypesHold
<1> QED
    BY <1>1, HostInvariant, PTL

(* What lib/evm.ex and host.cpp write to each other is what the other side  *)
(* waits for, and a port returns to the pool only when nothing is left in   *)
(* its pipe: however deep calls are nested and wherever the process dies.   *)
THEOREM PipesStayInStep == Spec => []PipesAreInStep
<1>1. HostInv => PipesAreInStep
    BY PipesHold
<1> QED
    BY <1>1, HostInvariant, PTL

(* However keys hash, the tables of the caches never get into a state in    *)
(* which a probe does not end or ends at another key's entry: they are      *)
(* filled, grown and cleared whole, and grow before the last place is used. *)
THEOREM TablesStaySound == Spec => []TablesAreSound
<1>1. HostInv => TablesAreSound
    BY DEF HostInv, Typed, VmOK, Process, Table, TablesAreSound
<1> QED
    BY <1>1, HostInvariant, PTL

-----------------------------------------------------------------------------
(* What the caches hold.                                                   *)

(* The tables of process m agree with the accounts of its message f.        *)
Known(m, f) ==
    \A k \in Keys :
        LET held == Held(m.cache, f.self, k)
            written == Held(m.writes, f.self, k)
        IN /\ written # Nothing => held = written
           /\ written = Nothing /\ held # Nothing => held = f.chain[f.self].slots[k]
           /\ held = Nothing /\ f.self \in m.complete => f.chain[f.self].slots[k] = 0

(* No seed is on the way to the process.                                    *)
Settled(m, q) ==
    \/ m.mode \in {"run", "gs", "query"}
    \/ m.mode = "result" /\ Len(q) # 2
    \/ m.mode = "cmd" /\ Len(q) = 1

(* A command tells process m of its message f as it is.                     *)
Told(f, m, c) ==
    /\ c.op = "p" => c = Seed(f.chain, f.self)
    /\ c.op = "r" => c.self = f.self
    /\ c.op = "value" => c.val = f.chain[f.self].slots[m.pend.key]

Current(f, m, q) ==
    /\ m.mode # "cmd" => m.self = f.self
    /\ \A j \in 1 .. Len(q) : Told(f, m, q[j])
    /\ Settled(m, q) => Known(m, f)
    /\ m.mode = "gs" => Held(m.cache, f.self, m.pend.key) = Nothing

(* What process m said is still so.                                        *)
Spoken(box, m) ==
    \A i \in 1 .. Len(box) :
        /\ box[i].op = "gs" => box[i].addr = m.self /\ box[i].key = m.pend.key
        /\ box[i].op = "su" => box[i].entries = m.writes.data

Agrees ==
    /\ \A i \in 1 .. Len(frames) : Current(frames[i], vm[frames[i].port], toVm[frames[i].port])
    /\ frames # <<>> => Spoken(mailbox, vm[This.port])

LEMMA TopAgrees ==
    ASSUME HostInv, Agrees, frames # <<>>, Len(frames') = Len(frames),
           \A i \in 1 .. Len(frames) - 1 : frames'[i] = frames[i],
           NEW f, frames'[Len(frames)] = f, f.port = This.port,
           NEW q, toVm' = [toVm EXCEPT ![This.port] = q],
           NEW m, vm' = [vm EXCEPT ![This.port] = m],
           Current(f, m, q), Spoken(mailbox', m)
    PROVE  Agrees'
<1>1. FramesOK /\ Len(frames) \in 1 .. MaxDepth /\ This.port \in Ports
      /\ \A i \in 1 .. Len(frames) : frames[i].port \in Ports
    BY ThisTyped DEF HostInv, Typed
<1>2. /\ vm'[This.port] = m /\ toVm'[This.port] = q
      /\ \A p \in Ports : p # This.port => vm'[p] = vm[p] /\ toVm'[p] = toVm[p]
    BY <1>1 DEF HostInv, Typed, VmOK
<1>3. This' = f
    BY DEF This
<1>4. ASSUME NEW i \in 1 .. Len(frames)
      PROVE  Current(frames'[i], vm'[frames'[i].port], toVm'[frames'[i].port])
    <2>1. CASE i = Len(frames)
        BY <1>2, <2>1
    <2>2. CASE i # Len(frames)
        <3>1. i \in 1 .. Len(frames) - 1 /\ Len(frames) \in 1 .. Len(frames)
            BY <1>1, <2>2
        <3>2. frames[i].port # This.port
            BY <2>2, <3>1 DEF HostInv, PortsAreHeld, This
        <3> QED
            BY <1>1, <1>2, <3>1, <3>2 DEF Agrees
    <2> QED BY <2>1, <2>2
<1>5. Spoken(mailbox', vm'[This'.port])
    BY <1>2, <1>3
<1> QED
    BY <1>4, <1>5 DEF Agrees

(* What holds of the innermost message.                                    *)
LEMMA TopCurrent ==
    ASSUME HostInv, Agrees, frames # <<>>
    PROVE  /\ Current(This, vm[This.port], toVm[This.port]) /\ Spoken(mailbox, vm[This.port])
           /\ This \in Frames /\ This.self \in Addrs /\ This.chain \in Accounts
<1>1. This \in Frames /\ Len(frames) \in 1 .. Len(frames)
    BY ThisTyped DEF HostInv, Typed
<1> QED
    BY <1>1 DEF Agrees, This, Frames

LEMMA SilenceSpoken ==
    ASSUME NEW m
    PROVE  Spoken(<<>>, m)
    BY DEF Spoken

LEMMA ReadAgrees ==
    ASSUME HostInv, Agrees, NEW p \in Ports, toVm[p] # <<>>, NEW m,
           Become(p, m), Get(p), UNCHANGED <<elixir, mailbox, budget>>,
           Current(This, m, Tail(toVm[p]))
    PROVE  Agrees'
<1>1. frames # <<>> /\ p = This.port /\ mailbox = <<>>
    BY ReaderIsTop
<1>2. frames' = frames /\ mailbox' = <<>> /\ This = frames[Len(frames)]
    BY <1>1 DEF elixir, This
<1>3. toVm' = [toVm EXCEPT ![This.port] = Tail(toVm[p])] /\ vm' = [vm EXCEPT ![This.port] = m]
    BY <1>1 DEF Get, Become
<1>4. Spoken(mailbox', m)
    BY <1>2, SilenceSpoken
<1> QED
    BY <1>1, <1>2, <1>3, <1>4, TopAgrees

(* The commands after the first.                                            *)
LEMMA TailTold ==
    ASSUME NEW q \in Seq(Command), q # <<>>, NEW f, NEW m, NEW r, r.pend = m.pend,
           \A j \in 1 .. Len(q) : Told(f, m, q[j])
    PROVE  \A j \in 1 .. Len(Tail(q)) : Told(f, r, Tail(q)[j])
<1>1. Len(Tail(q)) = Len(q) - 1 /\ \A i \in 1 .. Len(q) - 1 : Tail(q)[i] = q[i + 1]
    OBVIOUS
<1>2. \A j \in 1 .. Len(q) - 1 : j + 1 \in 1 .. Len(q)
    OBVIOUS
<1> QED
    BY <1>1, <1>2 DEF Told

(* What the reader of a command knows.                                      *)
LEMMA Reader ==
    ASSUME HostInv, Agrees, NEW p \in Ports, toVm[p] # <<>>
    PROVE  /\ Current(This, vm[p], toVm[p]) /\ Told(This, vm[p], toVm[p][1])
           /\ This.self \in Addrs /\ This.chain \in Accounts
           /\ Len(Tail(toVm[p])) = Len(toVm[p]) - 1 /\ Head(toVm[p]) = toVm[p][1]
           /\ Len(toVm[p]) \in Nat /\ Len(Tail(toVm[p])) \in Nat
           /\ \A r : r.pend = vm[p].pend => \A j \in 1 .. Len(Tail(toVm[p])) : Told(This, r, Tail(toVm[p])[j])
<1>1. /\ frames # <<>> /\ p = This.port /\ toVm[p] \in Seq(Command) /\ Len(toVm[p]) > 0
    BY ReaderIsTop
<1>2. Current(This, vm[p], toVm[p]) /\ This.self \in Addrs /\ This.chain \in Accounts
    BY <1>1, TopCurrent
<1>3. /\ Len(Tail(toVm[p])) = Len(toVm[p]) - 1 /\ Head(toVm[p]) = toVm[p][1]
      /\ 1 \in 1 .. Len(toVm[p]) /\ Len(toVm[p]) \in Nat /\ Len(Tail(toVm[p])) \in Nat
    BY <1>1
<1>4. \A j \in 1 .. Len(toVm[p]) : Told(This, vm[p], toVm[p][j])
    BY <1>2 DEF Current
<1> QED
    BY <1>1, <1>2, <1>3, <1>4, TailTold

LEMMA ReadContextAgrees ==
    ASSUME HostInv, Agrees, NEW p \in Ports, ReadContext(p)
    PROVE  Agrees'
<1> DEFINE m == Reset(vm[p])
<1>1. /\ vm[p] \in Process /\ vm[p].mode = "cmd" /\ toVm[p][1].op = "c" /\ toVm[p] # <<>>
      /\ Piped(toVm[p], "cmd") /\ Become(p, m) /\ Get(p) /\ UNCHANGED <<elixir, mailbox, budget>>
    BY ReaderIsTop, Reader DEF ReadContext
<1>2. Len(toVm[p]) = 3
    BY <1>1 DEF Piped
<1>3. m.mode = "cmd" /\ m.pend = vm[p].pend
    BY <1>1, ResetTyped
<1> HIDE DEF m
<1>4. Current(This, m, Tail(toVm[p]))
    <2>1. Len(Tail(toVm[p])) = 2 /\ Len(Tail(toVm[p])) \in Nat
        BY <1>1, <1>2, Reader
    <2>2. ~Settled(m, Tail(toVm[p]))
        <3>1. \A n \in Nat : n = 2 => n # 1
            OBVIOUS
        <3>2. Len(Tail(toVm[p])) # 1
            BY <2>1, <3>1, Zenon
        <3>3. m.mode \notin {"run", "gs", "query", "result"}
            BY <1>3
        <3> QED
            BY <3>2, <3>3 DEF Settled
    <2>3. \A j \in 1 .. Len(Tail(toVm[p])) : Told(This, m, Tail(toVm[p])[j])
        BY <1>1, <1>3, Reader
    <2> QED
        BY <1>3, <2>2, <2>3 DEF Current
<1> QED
    BY <1>1, <1>4, ReadAgrees

LEMMA ReadSeedAgrees ==
    ASSUME HostInv, Agrees, NEW p \in Ports, ReadSeed(p)
    PROVE  Agrees'
<1> DEFINE r == ReadUpdates(vm[p], Head(toVm[p]))
           mode == IF r.mode = "seed" THEN "run" ELSE "cmd"
           m == [r EXCEPT !.mode = mode]
<1>1. /\ vm[p] \in Process /\ vm[p].mode \in {"cmd", "seed"} /\ toVm[p][1].op = "p" /\ toVm[p] # <<>>
      /\ Piped(toVm[p], vm[p].mode) /\ toVm[p][1] \in SeedCmd
      /\ Become(p, m) /\ Get(p) /\ UNCHANGED <<elixir, mailbox, budget>>
    BY ReaderIsTop, Reader, Cmds DEF ReadSeed
<1>2. /\ Head(toVm[p]) = Seed(This.chain, This.self) /\ This.self \in Addrs /\ This.chain \in Accounts
      /\ Head(toVm[p]) \in SeedCmd
      /\ vm[p].mode = "seed" => vm[p].self = This.self
    BY <1>1, Reader DEF Told, Current
<1>3. /\ r \in Process /\ r.mode = vm[p].mode /\ r.self = vm[p].self /\ r.pend = vm[p].pend
    BY <1>1, <1>2, ReadUpdatesTyped
<1>4. Known(r, This)
    BY <1>1, <1>2, SeedHolds DEF Known
<1> HIDE DEF r
<1>5. /\ m.mode = mode /\ m.self = r.self /\ m.pend = r.pend
      /\ m.cache = r.cache /\ m.writes = r.writes /\ m.complete = r.complete
    <2>1. mode \in {"cmd", "run", "gs", "query", "result", "seed"}
        OBVIOUS
    <2> HIDE DEF mode
    <2> QED BY <1>3, <2>1, SetMode
<1>6. mode = (IF vm[p].mode = "seed" THEN "run" ELSE "cmd")
    BY <1>3
<1> HIDE DEF m, mode
<1>7. Known(m, This)
    BY <1>4, <1>5 DEF Known
<1>8. Current(This, m, Tail(toVm[p]))
    BY <1>1, <1>2, <1>3, <1>5, <1>6, <1>7, Reader DEF Current
<1> QED
    BY <1>1, <1>8, ReadAgrees

LEMMA ReadRunAgrees ==
    ASSUME HostInv, Agrees, NEW p \in Ports, ReadRun(p)
    PROVE  Agrees'
<1> DEFINE c == Head(toVm[p])
           m1 == [vm[p] EXCEPT !.mode = "run"]
           m2 == [m1 EXCEPT !.self = c.self]
           m == [m2 EXCEPT !.value = c.value]
<1>1. /\ vm[p] \in Process /\ vm[p].mode = "cmd" /\ toVm[p][1].op = "r" /\ toVm[p] # <<>>
      /\ Piped(toVm[p], "cmd") /\ toVm[p][1] \in RunCmd /\ c = toVm[p][1]
      /\ Become(p, m) /\ Get(p) /\ UNCHANGED <<elixir, mailbox, budget>>
    BY ReaderIsTop, Reader, Cmds DEF ReadRun
<1>2. c.self = This.self /\ c.self \in Addrs /\ c.value \in Nat /\ Len(toVm[p]) = 1
    BY <1>1, Reader DEF Told, RunCmd, Piped
<1>3. Known(vm[p], This)
    BY <1>1, <1>2, Reader DEF Current, Settled
<1> HIDE DEF c
<1>4. /\ m1 \in Process /\ m1.mode = "run" /\ m1.pend = vm[p].pend
      /\ m1.cache = vm[p].cache /\ m1.writes = vm[p].writes /\ m1.complete = vm[p].complete
    BY <1>1, SetMode
<1> HIDE DEF m1
<1>5. /\ m2 \in Process /\ m2.mode = "run" /\ m2.pend = vm[p].pend /\ m2.self = This.self
      /\ m2.cache = vm[p].cache /\ m2.writes = vm[p].writes /\ m2.complete = vm[p].complete
    BY <1>2, <1>4, SetSelf
<1> HIDE DEF m2
<1>6. /\ m.mode = "run" /\ m.pend = vm[p].pend /\ m.self = This.self
      /\ m.cache = vm[p].cache /\ m.writes = vm[p].writes /\ m.complete = vm[p].complete
    BY <1>2, <1>5, SetValue
<1> HIDE DEF m
<1>7. Known(m, This)
    BY <1>3, <1>6 DEF Known
<1>8. Current(This, m, Tail(toVm[p]))
    BY <1>6, <1>7, <1>1, Reader DEF Current
<1> QED
    BY <1>1, <1>8, ReadAgrees

(* A slot that is read, or written, in the caches of a running process.     *)
LEMMA ReadKnown ==
    ASSUME NEW m \in Process, NEW f, f.self \in Addrs, f.chain \in Accounts, m.self = f.self, Known(m, f),
           NEW k \in Keys, Held(m.cache, f.self, k) = Nothing,
           NEW r, r.cache = Store(m.cache, At(m, k), f.chain[f.self].slots[k]),
           r.writes = m.writes, r.complete = m.complete
    PROVE  Known(r, f)
<1>1. m.cache \in Table /\ f.chain[f.self].slots[k] \in Vals /\ Nothing \notin Vals
    BY EvmHostAssumption DEF Process, Accounts
<1>2. \A x \in Keys : Held(r.cache, f.self, x)
                      = IF x = k THEN f.chain[f.self].slots[k] ELSE Held(m.cache, f.self, x)
    BY <1>1, StoreHolds DEF At
<1> QED
    BY <1>1, <1>2 DEF Known

LEMMA WriteKnown ==
    ASSUME NEW m \in Process, NEW f, f.self \in Addrs, f.chain \in Accounts, m.self = f.self, Known(m, f),
           NEW k \in Keys, NEW v \in Vals
    PROVE  Known(Written(m, k, v), f)
<1> DEFINE r == Written(m, k, v)
<1>1. m.cache \in Table /\ m.writes \in Table /\ Nothing \notin Vals
    BY EvmHostAssumption DEF Process
<1>2. /\ r.cache = Store(m.cache, At(m, k), v) /\ r.writes = Store(m.writes, At(m, k), v)
      /\ r.complete = m.complete
    BY WrittenTyped
<1> HIDE DEF r
<1>3. \A x \in Keys : /\ Held(r.cache, f.self, x) = IF x = k THEN v ELSE Held(m.cache, f.self, x)
                      /\ Held(r.writes, f.self, x) = IF x = k THEN v ELSE Held(m.writes, f.self, x)
    BY <1>1, <1>2, StoreHolds DEF At
<1>4. Known(r, f)
    BY <1>1, <1>2, <1>3 DEF Known
<1> QED
    BY <1>4 DEF r

LEMMA ReadValueAgrees ==
    ASSUME HostInv, Agrees, NEW p \in Ports, ReadValue(p)
    PROVE  Agrees'
<1> DEFINE c == Head(toVm[p])
           k == vm[p].pend.key
           v == vm[p].pend.val
           new == Store(vm[p].cache, At(vm[p], k), c.val)
           m1 == [vm[p] EXCEPT !.mode = "run"]
           m2 == [m1 EXCEPT !.pend = NoPend]
           got == [m2 EXCEPT !.cache = new]
           m == IF v = Nothing THEN got ELSE Written(got, k, v)
<1>1. /\ vm[p] \in Process /\ vm[p].mode = "gs" /\ toVm[p] # <<>> /\ Placed(vm[p])
      /\ Piped(toVm[p], "gs") /\ c = toVm[p][1] /\ Len(toVm[p]) > 0
      /\ Get(p) /\ UNCHANGED <<elixir, mailbox, budget>>
    BY ReaderIsTop, Reader DEF ReadValue
<1>2. Len(toVm[p]) = 1 /\ c.op = "value"
    BY <1>1 DEF Piped
<1>3. /\ c.val = This.chain[This.self].slots[k] /\ vm[p].self = This.self /\ Known(vm[p], This)
      /\ Held(vm[p].cache, This.self, k) = Nothing /\ This.self \in Addrs /\ This.chain \in Accounts
    BY <1>1, <1>2, Reader DEF Told, Current, Settled
<1>4. k \in Keys /\ v \in Vals \cup {Nothing} /\ c.val \in Vals
    BY <1>1, <1>3 DEF Placed, Process, Accounts
<1>5. new \in Table
    BY <1>1, <1>3, <1>4, StoreHolds DEF At, Process
<1>6. Become(p, m)
    <2>1. got = [vm[p] EXCEPT !.mode = "run", !.pend = NoPend, !.cache = Store(@, At(vm[p], k), c.val)]
        BY <1>1 DEF Process
    <2> HIDE DEF got
    <2> QED BY <2>1 DEF ReadValue
<1>7. Known(got, This) /\ got \in Process /\ got.mode = "run" /\ got.self = This.self
    <2> HIDE DEF c, new
    <2>1. /\ m1 \in Process /\ m1.mode = "run" /\ m1.self = vm[p].self
          /\ m1.cache = vm[p].cache /\ m1.writes = vm[p].writes /\ m1.complete = vm[p].complete
        BY <1>1, SetMode
    <2> HIDE DEF m1
    <2>2. NoPend \in [key : Keys \cup {Nothing}, val : Vals \cup {Nothing}]
        BY DEF NoPend
    <2>3. /\ m2 \in Process /\ m2.mode = "run" /\ m2.self = vm[p].self
          /\ m2.cache = vm[p].cache /\ m2.writes = vm[p].writes /\ m2.complete = vm[p].complete
        BY <2>1, <2>2, SetPend
    <2> HIDE DEF m2
    <2>4. /\ got \in Process /\ got.mode = "run" /\ got.self = vm[p].self
          /\ got.cache = new /\ got.writes = vm[p].writes /\ got.complete = vm[p].complete
        BY <1>5, <2>3, SetCache
    <2> HIDE DEF got
    <2>5. got.cache = Store(vm[p].cache, At(vm[p], k), This.chain[This.self].slots[k])
        BY <1>3, <2>4 DEF new
    <2> HIDE DEF k
    <2>6. Known(got, This)
        BY <1>1, <1>3, <1>4, <2>4, <2>5, ReadKnown
    <2> QED BY <1>3, <2>4, <2>6
<1> HIDE DEF got, k, v, c
<1>8. m.mode = "run" /\ m.self = This.self /\ Known(m, This)
    <2>1. CASE v = Nothing
        BY <1>7, <2>1
    <2>2. CASE v # Nothing
        BY <1>3, <1>4, <1>7, <2>2, WriteKnown, WrittenTyped
    <2> QED BY <2>1, <2>2
<1> HIDE DEF m
<1>9. Current(This, m, Tail(toVm[p]))
    <2>1. Len(Tail(toVm[p])) = 0
        BY <1>1, <1>2, Reader
    <2> QED BY <1>8, <2>1 DEF Current
<1> QED
    BY <1>1, <1>6, <1>9, ReadAgrees

LEMMA ReadAnswerAgrees ==
    ASSUME HostInv, Agrees, NEW p \in Ports, ReadAnswer(p)
    PROVE  Agrees'
<1> DEFINE m == [vm[p] EXCEPT !.mode = "run"]
<1>1. /\ vm[p] \in Process /\ vm[p].mode = "query" /\ toVm[p] # <<>>
      /\ Become(p, m) /\ Get(p) /\ UNCHANGED <<elixir, mailbox, budget>>
    BY ReaderIsTop DEF ReadAnswer
<1>2. /\ m.mode = "run" /\ m.self = vm[p].self /\ m.pend = vm[p].pend
      /\ m.cache = vm[p].cache /\ m.writes = vm[p].writes /\ m.complete = vm[p].complete
    BY <1>1, SetMode
<1> HIDE DEF m
<1>3. Known(vm[p], This) /\ vm[p].self = This.self
    BY <1>1, Reader DEF Current, Settled
<1>4. Known(m, This)
    BY <1>2, <1>3 DEF Known
<1>5. Current(This, m, Tail(toVm[p]))
    BY <1>1, <1>2, <1>3, <1>4, Reader DEF Current
<1> QED
    BY <1>1, <1>5, ReadAgrees

LEMMA ReadResultAgrees ==
    ASSUME HostInv, Agrees, NEW p \in Ports, ReadResult(p)
    PROVE  Agrees'
<1> DEFINE ok == Head(toVm[p]).ok
           mode == IF ok THEN "seed" ELSE "run"
           m == [vm[p] EXCEPT !.mode = mode]
<1>1. /\ vm[p] \in Process /\ vm[p].mode = "result" /\ toVm[p] # <<>> /\ Piped(toVm[p], "result")
      /\ Head(toVm[p]) = toVm[p][1] /\ Len(toVm[p]) > 0
      /\ Become(p, m) /\ Get(p) /\ UNCHANGED <<elixir, mailbox, budget>>
    BY ReaderIsTop, Reader DEF ReadResult
<1>2. /\ m.mode = mode /\ m.self = vm[p].self /\ m.pend = vm[p].pend
      /\ m.cache = vm[p].cache /\ m.writes = vm[p].writes /\ m.complete = vm[p].complete
    <2>1. mode \in {"cmd", "run", "gs", "query", "result", "seed"}
        OBVIOUS
    <2> HIDE DEF mode
    <2> QED BY <1>1, <2>1, SetMode
<1> HIDE DEF m
<1>3. vm[p].self = This.self
    BY <1>1, Reader DEF Current
<1>4. CASE ok
    <2>1. m.mode = "seed"
        BY <1>2, <1>4
    <2> QED
        BY <1>1, <1>2, <1>3, <2>1, Reader, ReadAgrees DEF Current, Settled
<1>5. CASE ~ok
    <2>1. Len(toVm[p]) = 1 /\ m.mode = "run"
        BY <1>1, <1>2, <1>5 DEF Piped
    <2>2. Known(vm[p], This)
        <3>1. Len(toVm[p]) # 2
            BY <1>1, <2>1, Reader
        <3> QED BY <1>1, <3>1, Reader DEF Current, Settled
    <2>3. Known(m, This)
        BY <1>2, <2>2 DEF Known
    <2>4. Current(This, m, Tail(toVm[p]))
        BY <1>1, <1>2, <1>3, <2>1, <2>3, Reader DEF Current
    <2> QED
        BY <1>1, <2>4, ReadAgrees
<1> QED
    BY <1>4, <1>5

(* A running process, and what it says after its logs.                      *)
LEMMA Runner ==
    ASSUME HostInv, Agrees, NEW p \in Ports, vm[p].mode = "run"
    PROVE  /\ Known(vm[p], This) /\ vm[p].self = This.self /\ vm[p] \in Process
           /\ This.self \in Addrs /\ This.chain \in Accounts
<1>1. frames # <<>> /\ p = This.port /\ vm[p] \in Process
    BY RunnerIsTop
<1> QED
    BY <1>1, TopCurrent DEF Current, Settled

LEMMA SpeakAgrees ==
    ASSUME HostInv, Agrees, NEW p \in Ports, vm[p].mode = "run", NEW msgs \in Seq(Message), NEW m,
           vm' = [vm EXCEPT ![p] = m], Send(msgs), UNCHANGED <<elixir, toVm>>,
           m.self = vm[p].self,
           m.mode \in {"run", "gs", "query"} => Known(m, This),
           m.mode = "result" => Known(m, This),
           m.mode = "gs" => Held(m.cache, m.self, m.pend.key) = Nothing,
           Spoken(msgs, m)
    PROVE  Agrees'
<1>1. /\ frames # <<>> /\ p = This.port /\ Len(toVm[p]) = 0 /\ mailbox \in Seq(Message)
      /\ \A i \in 1 .. Len(mailbox) : mailbox[i].op = "lo"
    BY RunnerIsTop
<1>2. vm[p].self = This.self
    BY Runner
<1>3. Current(This, m, toVm[p])
    BY <1>1, <1>2 DEF Current, Settled
<1>4. Spoken(mailbox', m)
    <2> DEFINE all == mailbox \o msgs
               n == Len(mailbox)
    <2>1. n \in Nat /\ Len(all) = n + Len(msgs) /\ Len(msgs) \in Nat
        BY <1>1
    <2>2. ASSUME NEW i \in 1 .. Len(all)
          PROVE  all[i].op = "lo" \/ \E j \in 1 .. Len(msgs) : all[i] = msgs[j]
        <3>1. CASE i <= n
            BY <1>1, <2>1, <3>1
        <3>2. CASE i > n
            <4>1. i - n \in 1 .. Len(msgs) /\ all[i] = msgs[i - n]
                BY <1>1, <2>1, <3>2
            <4> QED BY <4>1
        <3> QED BY <2>1, <3>1, <3>2
    <2>3. mailbox' = all
        BY DEF Send
    <2> HIDE DEF all, n
    <2> QED BY <2>2, <2>3 DEF Spoken
<1>5. frames' = frames /\ toVm' = [toVm EXCEPT ![This.port] = toVm[p]] /\ vm' = [vm EXCEPT ![This.port] = m]
    BY <1>1 DEF elixir, HostInv, Typed
<1> QED
    BY <1>1, <1>3, <1>4, <1>5, TopAgrees DEF This

(* What is asked for is not in the cache.                                   *)
LEMMA CachedHeld ==
    ASSUME NEW m, NEW k
    PROVE  Cached(m, k) = Nothing => Held(m.cache, m.self, k) = Nothing
<1>1. Nothing # 0
    BY EvmHostAssumption
<1> QED
    BY <1>1 DEF Cached, Held, At

LEMMA GrownKnown ==
    ASSUME NEW m \in Process, NEW f, f.self \in Addrs, Known(m, f),
           NEW r, r.cache = Grown(m.cache), r.writes = m.writes, r.complete = m.complete
    PROVE  Known(r, f)
<1>1. m.cache \in Table
    BY DEF Process
<1>2. \A k \in Keys : Held(r.cache, f.self, k) = Held(m.cache, f.self, k)
    BY <1>1, GrownHolds
<1> QED
    BY <1>2 DEF Known

LEMMA AskAgrees ==
    ASSUME HostInv, Agrees, NEW p \in Ports, Running(p), Spend, NEW k \in Keys,
           NEW v \in Vals \cup {Nothing}, Cached(vm[p], k) = Nothing,
           Ask(p, k, v), UNCHANGED <<elixir, toVm>>
    PROVE  Agrees'
<1> DEFINE old == vm[p]
           msg == [port |-> p, op |-> "gs", addr |-> old.self, key |-> k]
           m1 == [old EXCEPT !.mode = "gs"]
           m2 == [m1 EXCEPT !.cache = Grown(old.cache)]
           pend == [key |-> k, val |-> v]
           m == [m2 EXCEPT !.pend = pend]
<1>1. /\ old.mode = "run" /\ old \in Process /\ old.self = This.self /\ This.self \in Addrs
      /\ Known(old, This) /\ Held(old.cache, old.self, k) = Nothing
    BY Runner, CachedHeld DEF Running
<1>2. /\ m1 \in Process /\ m1.mode = "gs" /\ m1.self = old.self
      /\ m1.cache = old.cache /\ m1.writes = old.writes /\ m1.complete = old.complete
    BY <1>1, SetMode
<1>3. Grown(old.cache) \in Table /\ Held(Grown(old.cache), old.self, k) = Nothing
    BY <1>1, GrownHolds DEF Process
<1>4. vm' = [vm EXCEPT ![p] = m] /\ Send(<<msg>>)
    <2>1. m2 = [m1 EXCEPT !.cache = Grown(@)]
        <3> HIDE DEF m1
        <3> QED BY <1>2 DEF Process
    <2> QED
        BY <2>1 DEF Ask, Become
<1> HIDE DEF m1
<1>5. /\ m2 \in Process /\ m2.mode = "gs" /\ m2.self = old.self
      /\ m2.cache = Grown(old.cache) /\ m2.writes = old.writes /\ m2.complete = old.complete
    BY <1>2, <1>3, SetCache
<1> HIDE DEF m2
<1>6. /\ m.mode = "gs" /\ m.self = old.self /\ m.pend = pend
      /\ m.cache = Grown(old.cache) /\ m.writes = old.writes /\ m.complete = old.complete
    BY <1>5, SetPend
<1>7. msg \in Message /\ msg.op = "gs" /\ msg.addr = old.self /\ msg.key = k
    BY <1>1 DEF Message, ReadMsg
<1> HIDE DEF m, msg, old
<1>8. Known(m, This)
    BY <1>1, <1>6, GrownKnown
<1>9. <<msg>> \in Seq(Message) /\ Spoken(<<msg>>, m)
    BY <1>6, <1>7 DEF Spoken
<1>10. Held(m.cache, m.self, m.pend.key) = Nothing
    BY <1>3, <1>6
<1> QED
    BY <1>1, <1>4, <1>6, <1>8, <1>9, <1>10, SpeakAgrees DEF old

LEMMA SilentAgrees ==
    ASSUME HostInv, Agrees, NEW p \in Ports, Running(p), NEW m, m.mode = "run", m.self = vm[p].self,
           Known(m, This), Become(p, m), UNCHANGED <<elixir, mailbox, toVm>>
    PROVE  Agrees'
<1>1. <<>> \in Seq(Message) /\ Send(<<>>)
    BY DEF Send, HostInv, Typed
<1> QED
    BY <1>1, SilenceSpoken, SpeakAgrees DEF Become, Running

LEMMA LoadSlotAgrees ==
    ASSUME HostInv, Agrees, NEW p \in Ports, NEW k \in Keys, LoadSlot(p, k)
    PROVE  Agrees'
<1>1. CASE Cached(vm[p], k) # Nothing
    <2> DEFINE m == [vm[p] EXCEPT !.cache = Grown(@)]
    <2>1. /\ vm[p].mode = "run" /\ vm[p] \in Process /\ vm[p].self = This.self /\ This.self \in Addrs
          /\ Known(vm[p], This)
        BY Runner DEF LoadSlot, Running
    <2>2. Grown(vm[p].cache) \in Table /\ m = [vm[p] EXCEPT !.cache = Grown(vm[p].cache)]
        BY <2>1, GrownKeeps DEF Process, Table
    <2>3. Become(p, m) /\ UNCHANGED <<elixir, mailbox, toVm>>
        BY <1>1 DEF LoadSlot
    <2> HIDE DEF m
    <2>4. /\ m.mode = "run" /\ m.self = vm[p].self
          /\ m.cache = Grown(vm[p].cache) /\ m.writes = vm[p].writes /\ m.complete = vm[p].complete
        BY <2>1, <2>2, SetCache
    <2>5. Known(m, This)
        BY <2>1, <2>4, GrownKnown
    <2> QED
        BY <2>3, <2>4, <2>5, SilentAgrees DEF LoadSlot
<1>2. CASE Cached(vm[p], k) = Nothing
    BY <1>2, AskAgrees DEF LoadSlot
<1> QED
    BY <1>1, <1>2

LEMMA StoreSlotAgrees ==
    ASSUME HostInv, Agrees, NEW p \in Ports, NEW k \in Keys, NEW v \in Vals, StoreSlot(p, k, v)
    PROVE  Agrees'
<1>1. CASE Cached(vm[p], k) # Nothing
    <2> DEFINE m == Written(vm[p], k, v)
    <2>1. /\ vm[p].mode = "run" /\ vm[p] \in Process /\ vm[p].self = This.self /\ This.self \in Addrs
          /\ Known(vm[p], This) /\ This.chain \in Accounts
        BY Runner DEF StoreSlot, Running
    <2>2. Become(p, m) /\ UNCHANGED <<elixir, mailbox, toVm>>
        BY <1>1 DEF StoreSlot
    <2>3. m.mode = "run" /\ m.self = vm[p].self /\ Known(m, This)
        BY <2>1, WrittenTyped, WriteKnown
    <2> HIDE DEF m
    <2> QED
        BY <2>2, <2>3, SilentAgrees DEF StoreSlot
<1>2. CASE Cached(vm[p], k) = Nothing
    BY <1>2, AskAgrees DEF StoreSlot
<1> QED
    BY <1>1, <1>2

(* The process changes its mode only.                                      *)
LEMMA ModeAgrees ==
    ASSUME HostInv, Agrees, NEW p \in Ports, vm[p].mode = "run",
           NEW mode \in {"run", "query", "result", "cmd"}, NEW msgs \in Seq(Message),
           vm' = [vm EXCEPT ![p] = [vm[p] EXCEPT !.mode = mode]], Send(msgs), UNCHANGED <<elixir, toVm>>,
           \A i \in 1 .. Len(msgs) : msgs[i].op # "gs" /\ (msgs[i].op = "su" => msgs[i] = Updates(p))
    PROVE  Agrees'
<1> DEFINE m == [vm[p] EXCEPT !.mode = mode]
<1>1. vm[p] \in Process /\ Known(vm[p], This) /\ vm[p].self = This.self
    BY Runner
<1>2. mode \in {"cmd", "run", "gs", "query", "result", "seed"} /\ mode # "gs"
    OBVIOUS
<1>3. /\ m.mode = mode /\ m.self = vm[p].self /\ m.writes = vm[p].writes
      /\ m.cache = vm[p].cache /\ m.complete = vm[p].complete
    BY <1>1, <1>2, SetMode
<1> HIDE DEF m
<1>4. Known(m, This)
    BY <1>1, <1>3 DEF Known
<1>5. Updates(p).entries = m.writes.data
    BY <1>3 DEF Updates, Entries
<1>6. Spoken(msgs, m)
    BY <1>5 DEF Spoken
<1>7. vm' = [vm EXCEPT ![p] = m]
    BY DEF m
<1> QED
    BY <1>2, <1>3, <1>4, <1>6, <1>7, SpeakAgrees

LEMMA QueryAgrees ==
    ASSUME HostInv, Agrees, NEW p \in Ports, NEW beyond \in BOOLEAN, Query(p, beyond)
    PROVE  Agrees'
<1> DEFINE msg == [port |-> p, op |-> "query", beyond |-> beyond]
<1>1. vm[p].mode = "run"
    BY DEF Query, Running
<1>2. msg \in Message /\ msg.op = "query"
    BY DEF Message, QueryMsg
<1>3. /\ vm' = [vm EXCEPT ![p] = [vm[p] EXCEPT !.mode = "query"]]
      /\ Send(<<msg>>) /\ UNCHANGED <<elixir, toVm>>
    BY DEF Query, Become
<1> HIDE DEF msg
<1>4. <<msg>> \in Seq(Message) /\ Len(<<msg>>) = 1 /\ <<msg>>[1] = msg
    BY <1>2
<1>5. \A i \in 1 .. Len(<<msg>>) : <<msg>>[i].op = "query"
    BY <1>2, <1>4
<1> QED
    BY <1>1, <1>3, <1>4, <1>5, ModeAgrees

LEMMA EmitLogAgrees ==
    ASSUME HostInv, Agrees, NEW p \in Ports, NEW topics \in 0 .. 4, EmitLog(p, topics)
    PROVE  Agrees'
<1> DEFINE msg == [port |-> p, op |-> "lo", topics |-> topics]
<1>1. vm[p].mode = "run" /\ vm[p].mode \notin {"gs", "result"}
    BY DEF EmitLog, Running
<1>2. msg \in Message /\ msg.op = "lo"
    BY DEF Message, LogMsg
<1>3. vm' = [vm EXCEPT ![p] = vm[p]] /\ Send(<<msg>>) /\ UNCHANGED <<elixir, toVm>>
    BY DEF EmitLog, HostInv, Typed, VmOK
<1> HIDE DEF msg
<1>4. <<msg>> \in Seq(Message) /\ Spoken(<<msg>>, vm[p])
    BY <1>2 DEF Spoken
<1>5. Known(vm[p], This)
    BY <1>1, Runner
<1> QED
    BY <1>1, <1>3, <1>4, <1>5, SpeakAgrees

LEMMA CallAgrees ==
    ASSUME HostInv, Agrees, NEW p \in Ports, NEW kind \in Kinds, NEW to \in Addrs, NEW value \in Nat,
           Call(p, kind, to, value)
    PROVE  Agrees'
<1> DEFINE worth == IF kind = "delegate" THEN vm[p].value ELSE value
           msg == [port |-> p, op |-> "ca", kind |-> kind, to |-> to, value |-> worth]
           msgs == <<msg, Updates(p)>>
<1>1. vm[p].mode = "run" /\ vm[p] \in Process
    BY RunnerIsTop DEF Call, Running
<1>2. worth \in Nat
    BY <1>1 DEF Process
<1>3. /\ vm' = [vm EXCEPT ![p] = [vm[p] EXCEPT !.mode = "result"]]
      /\ Send(msgs) /\ UNCHANGED <<elixir, toVm>>
    BY DEF Call, Become
<1> HIDE DEF worth
<1>4. msg \in Message /\ msg.op = "ca"
    BY <1>2 DEF Message, CallMsg
<1>5. Updates(p) \in Message
    BY UpdatesTyped
<1> HIDE DEF msg
<1>6. msgs \in Seq(Message) /\ Len(msgs) = 2 /\ msgs[1] = msg /\ msgs[2] = Updates(p)
    BY <1>4, <1>5
<1> HIDE DEF msgs
<1>7. \A i \in 1 .. Len(msgs) : msgs[i] = msg \/ msgs[i] = Updates(p)
    BY <1>6
<1>8. Updates(p).op = "su"
    BY UpdatesTyped
<1>9. \A i \in 1 .. Len(msgs) : msgs[i].op # "gs" /\ (msgs[i].op = "su" => msgs[i] = Updates(p))
    BY <1>4, <1>7, <1>8
<1> QED
    BY <1>1, <1>3, <1>6, <1>9, ModeAgrees

LEMMA FinishAgrees ==
    ASSUME HostInv, Agrees, NEW p \in Ports, NEW ok \in BOOLEAN, NEW dies \in BOOLEAN, Finish(p, ok, dies)
    PROVE  Agrees'
<1> DEFINE last == [port |-> p, op |-> "ok", ok |-> ok]
           death == [port |-> p, op |-> "sd"]
           rest == <<Updates(p), last>>
           first == IF dies THEN <<death>> ELSE <<>>
           msgs == first \o rest
<1>1. vm[p].mode = "run"
    BY DEF Finish
<1>2. /\ vm' = [vm EXCEPT ![p] = [vm[p] EXCEPT !.mode = "cmd"]]
      /\ Send(msgs) /\ UNCHANGED <<elixir, toVm>>
    BY DEF Finish, Become, selfdestruct, Msg
<1>3. last \in Message /\ last.op = "ok" /\ death \in Message /\ death.op = "sd"
    BY DEF Message, EndMsg, DeathMsg
<1>4. Updates(p) \in Message /\ Updates(p).op = "su"
    BY UpdatesTyped
<1> HIDE DEF last, death
<1>5. rest \in Seq(Message) /\ Len(rest) = 2 /\ rest[1] = Updates(p) /\ rest[2] = last
    BY <1>3, <1>4
<1>6. /\ first \in Seq(Message) /\ Len(first) \in Nat
      /\ \A i \in 1 .. Len(first) : first[i] = death
    <2>1. CASE dies
        BY <1>3, <2>1
    <2>2. CASE ~dies
        BY <2>2
    <2> QED BY <2>1, <2>2
<1> HIDE DEF rest, first
<1>7. /\ msgs \in Seq(Message) /\ Len(msgs) = Len(first) + Len(rest)
      /\ \A i \in 1 .. Len(first) + Len(rest) :
            msgs[i] = IF i <= Len(first) THEN first[i] ELSE rest[i - Len(first)]
    BY <1>5, <1>6, ConcatProperties
<1> HIDE DEF msgs
<1>8. ASSUME NEW i \in 1 .. Len(msgs)
      PROVE  msgs[i] \in {death, Updates(p), last}
    <2>1. CASE i <= Len(first)
        <3>1. i \in 1 .. Len(first)
            BY <1>6, <2>1
        <3> QED BY <1>5, <1>6, <1>7, <2>1, <3>1
    <2>2. CASE ~(i <= Len(first))
        <3>1. i - Len(first) \in 1 .. 2 /\ msgs[i] = rest[i - Len(first)]
            BY <1>5, <1>6, <1>7, <2>2
        <3> QED BY <1>5, <3>1
    <2> QED BY <2>1, <2>2
<1>9. \A i \in 1 .. Len(msgs) : msgs[i].op # "gs" /\ (msgs[i].op = "su" => msgs[i] = Updates(p))
    BY <1>3, <1>4, <1>8
<1> QED
    BY <1>1, <1>2, <1>7, <1>9, ModeAgrees

LEMMA VmAgrees ==
    ASSUME HostInv, Agrees, NEW p \in Ports, VmStep(p)
    PROVE  Agrees'
<1>1. CASE \/ ReadContext(p) \/ ReadSeed(p) \/ ReadRun(p) \/ ReadValue(p) \/ ReadAnswer(p)
           \/ ReadResult(p)
    BY <1>1, ReadContextAgrees, ReadSeedAgrees, ReadRunAgrees, ReadValueAgrees, ReadAnswerAgrees,
       ReadResultAgrees
<1>2. CASE Running(p) /\ \E step \in Does[vm[p].self] : CodeStep(p, step)
    <2>1. vm[p].self \in Addrs
        BY <1>2, RunnerIsTop DEF Running
    <2>2. PICK step \in Does[vm[p].self] : CodeStep(p, step)
        BY <1>2
    <2>3. step \in Steps
        BY <2>1, <2>2, EvmHostAssumption
    <2>4. CASE step.op = "load" /\ LoadSlot(p, step.key)
        <3>1. step.key \in Keys
            BY <2>3, <2>4 DEF Steps
        <3> QED
            BY <2>4, <3>1, LoadSlotAgrees
    <2>5. CASE step.op = "store" /\ StoreSlot(p, step.key, step.val)
        <3>1. step.key \in Keys /\ step.val \in Vals
            BY <2>3, <2>5 DEF Steps
        <3> QED
            BY <2>5, <3>1, StoreSlotAgrees
    <2>6. CASE step.op = "query" /\ Query(p, step.beyond)
        <3>1. step.beyond \in BOOLEAN
            BY <2>3, <2>6 DEF Steps
        <3> QED
            BY <2>6, <3>1, QueryAgrees
    <2>7. CASE step.op = "log" /\ EmitLog(p, step.topics)
        <3>1. step.topics \in 0 .. 4
            BY <2>3, <2>7 DEF Steps
        <3> QED
            BY <2>7, <3>1, EmitLogAgrees
    <2>8. CASE step.op = "call" /\ Call(p, step.kind, step.to, step.value)
        <3>1. step.kind \in Kinds /\ step.to \in Addrs /\ step.value \in Nat
            BY <2>3, <2>8 DEF Steps
        <3> QED
            BY <2>8, <3>1, CallAgrees
    <2> QED
        BY <2>2, <2>4, <2>5, <2>6, <2>7, <2>8 DEF CodeStep
<1>3. CASE \E ok, dies \in BOOLEAN : Finish(p, ok, dies)
    BY <1>3, FinishAgrees
<1> QED
    BY <1>1, <1>2, <1>3 DEF VmStep

-----------------------------------------------------------------------------
(* The Elixir process takes a message.                                     *)
LEMMA DieAgrees ==
    ASSUME Die
    PROVE  Agrees'
<1>1. frames' = <<>>
    BY DEF Die
<1>2. Len(frames') = 0
    BY <1>1
<1>3. \A i \in 1 .. Len(frames') : FALSE
    BY <1>2
<1> QED
    BY <1>1, <1>3 DEF Agrees

LEMMA TailSpoken ==
    ASSUME NEW box \in Seq(Message), box # <<>>, NEW m, Spoken(box, m)
    PROVE  Spoken(Tail(box), m)
<1> DEFINE new == Tail(box)
<1>1. /\ new \in Seq(Message) /\ Len(box) \in Nat \ {0} /\ Len(new) = Len(box) - 1
      /\ \A i \in 1 .. Len(box) - 1 : new[i] = box[i + 1]
    BY HeadTailProperties
<1> HIDE DEF new
<1>2. \A i \in 1 .. Len(new) : i + 1 \in 1 .. Len(box) /\ new[i] = box[i + 1]
    BY <1>1
<1>3. Spoken(new, m)
    BY <1>2 DEF Spoken
<1> QED
    BY <1>3 DEF new

(* The C++ process does nothing.                                           *)
LEMMA StayAgrees ==
    ASSUME HostInv, Agrees, frames # <<>>, mailbox # <<>>, Len(frames') = Len(frames),
           \A i \in 1 .. Len(frames) - 1 : frames'[i] = frames[i],
           NEW f, frames'[Len(frames)] = f, f.port = This.port,
           NEW q, toVm' = [toVm EXCEPT ![This.port] = q], vm' = vm,
           Current(f, vm[This.port], q), Spoken(mailbox', vm[This.port])
    PROVE  Agrees'
<1>1. vm' = [vm EXCEPT ![This.port] = vm[This.port]]
    BY Taken DEF HostInv, Typed, VmOK
<1> QED
    BY <1>1, TopAgrees

(* The innermost message stays as it is.                                    *)
LEMMA SameAgrees ==
    ASSUME HostInv, Agrees, frames # <<>>, mailbox # <<>>, UNCHANGED <<frames, toVm, vm>>,
           mailbox' = Tail(mailbox)
    PROVE  Agrees'
<1>1. /\ Current(This, vm[This.port], toVm[This.port]) /\ Spoken(mailbox, vm[This.port])
      /\ mailbox \in Seq(Message) /\ toVm \in [Ports -> Seq(Command)]
    BY TopCurrent DEF HostInv, Typed
<1>2. Spoken(mailbox', vm[This.port])
    BY <1>1, TailSpoken
<1>3. toVm' = [toVm EXCEPT ![This.port] = toVm[This.port]] /\ frames'[Len(frames)] = This
    BY <1>1 DEF This
<1> QED
    BY <1>1, <1>2, <1>3, StayAgrees

LEMMA AnswerReadAgrees ==
    ASSUME HostInv, Agrees, AnswerRead
    PROVE  Agrees'
<1> DEFINE c == Head(mailbox)
           m == vm[This.port]
           val == This.chain[c.addr].slots[c.key]
           msg == [op |-> "value", val |-> val]
           q == Append(toVm[This.port], msg)
<1>1. frames # <<>> /\ mailbox # <<>> /\ c.op = "gs" /\ pending = Nothing
    BY DEF AnswerRead, Awaited
<1>2. /\ toVm[This.port] \in Seq(Command) /\ Len(toVm[This.port]) = 0
      /\ c = mailbox[1] /\ Len(mailbox) \in Nat \ {0} /\ This \in Frames
      /\ Said(mailbox, TopMode, This.port, Len(frames), pending)
      /\ c.op \in SaidBy(TopMode) /\ TopMode \in {"cmd", "run", "gs", "query", "result", "seed"}
      /\ mailbox \in Seq(Message)
    BY <1>1, Taken DEF HostInv, Typed
<1>3. m.mode = "gs"
    BY <1>1, <1>2 DEF SaidBy, TopMode
<1>4. Current(This, m, toVm[This.port]) /\ Spoken(mailbox, m)
    BY <1>1, TopCurrent
<1>5. c.addr = This.self /\ c.key = m.pend.key
    <2>1. 1 \in 1 .. Len(mailbox)
        BY <1>2
    <2>2. c.addr = m.self /\ c.key = m.pend.key
        BY <1>1, <1>2, <1>4, <2>1 DEF Spoken
    <2> QED BY <1>3, <1>4, <2>2 DEF Current
<1>6. msg.op = "value" /\ msg.val = This.chain[This.self].slots[m.pend.key]
    BY <1>5
<1>7. /\ toVm' = [toVm EXCEPT ![This.port] = q] /\ mailbox' = Tail(mailbox)
      /\ frames' = frames /\ vm' = vm
    BY DEF AnswerRead, elixir
<1> HIDE DEF msg, c, m
<1>8. Len(q) = 1 /\ q[1] = msg
    BY <1>2
<1> HIDE DEF q
<1>9. Current(This, m, q)
    <2>1. \A j \in 1 .. Len(q) : Told(This, m, q[j])
        BY <1>6, <1>8 DEF Told
    <2> QED BY <1>3, <1>4, <2>1 DEF Current, Settled
<1>10. Spoken(mailbox', m)
    BY <1>1, <1>2, <1>4, <1>7, TailSpoken
<1>11. frames'[Len(frames)] = This
    BY <1>7 DEF This
<1> QED
    BY <1>1, <1>7, <1>9, <1>10, <1>11, StayAgrees DEF m

LEMMA AnswerQueryAgrees ==
    ASSUME HostInv, Agrees, AnswerQuery
    PROVE  Agrees'
<1> DEFINE m == vm[This.port]
           msg == [op |-> "answer"]
           q == Append(toVm[This.port], msg)
<1>1. frames # <<>> /\ mailbox # <<>> /\ Head(mailbox).op = "query"
    BY DEF AnswerQuery, Awaited
<1>2. CASE Head(mailbox).beyond
    BY <1>2, DieAgrees DEF AnswerQuery
<1>3. CASE ~Head(mailbox).beyond
    <2>1. /\ toVm[This.port] \in Seq(Command) /\ Len(toVm[This.port]) = 0
          /\ Head(mailbox) = mailbox[1] /\ mailbox \in Seq(Message)
          /\ mailbox[1].op \in SaidBy(TopMode) /\ TopMode \in {"cmd", "run", "gs", "query", "result", "seed"}
        BY <1>1, Taken DEF HostInv, Typed
    <2>2. m.mode = "query"
        BY <1>1, <2>1 DEF SaidBy, TopMode
    <2>3. Current(This, m, toVm[This.port]) /\ Spoken(mailbox, m)
        BY <1>1, TopCurrent
    <2>4. /\ toVm' = [toVm EXCEPT ![This.port] = q] /\ mailbox' = Tail(mailbox)
          /\ frames' = frames /\ vm' = vm /\ msg.op = "answer"
        BY <1>3 DEF AnswerQuery, elixir
    <2> HIDE DEF msg, m
    <2>5. Len(q) = 1 /\ q[1] = msg
        BY <2>1
    <2> HIDE DEF q
    <2>6. Current(This, m, q)
        <3>1. \A j \in 1 .. Len(q) : Told(This, m, q[j])
            BY <2>4, <2>5 DEF Told
        <3> QED BY <2>2, <2>3, <3>1 DEF Current, Settled
    <2>7. Spoken(mailbox', m)
        BY <1>1, <2>1, <2>3, <2>4, TailSpoken
    <2>8. frames'[Len(frames)] = This
        BY <2>4 DEF This
    <2> QED
        BY <1>1, <2>4, <2>6, <2>7, <2>8, StayAgrees DEF m
<1> QED
    BY <1>2, <1>3

(* The frames with another innermost message.                               *)
LEMMA TopSet ==
    ASSUME FramesOK, frames # <<>>, NEW f \in Frames, frames' = Append(Outer, f)
    PROVE  /\ Len(frames') = Len(frames) /\ frames'[Len(frames)] = f
           /\ \A i \in 1 .. Len(frames) - 1 : frames'[i] = frames[i]
<1>1. /\ Outer \in Seq(Frames) /\ Len(Outer) = Len(frames) - 1 /\ Len(frames) \in Nat \ {0}
      /\ \A i \in 1 .. Len(frames) - 1 : Outer[i] = frames[i]
    BY OuterTyped, ThisTyped, EvmHostAssumption
<1>2. Len(frames') = Len(frames)
    BY <1>1
<1>3. \A i \in 1 .. Len(frames) : frames'[i] = IF i = Len(frames) THEN f ELSE frames[i]
    BY <1>1
<1> QED
    BY <1>1, <1>2, <1>3

(* What a process that has ended reports changes the accounts only.         *)
LEMMA EndedAgrees ==
    ASSUME HostInv, Agrees, frames # <<>>, mailbox # <<>>, TopMode = "cmd",
           NEW f \in Frames, f.port = This.port, frames' = Append(Outer, f),
           mailbox' = Tail(mailbox), UNCHANGED <<toVm, vm>>
    PROVE  Agrees'
<1> DEFINE q == toVm[This.port]
           m == vm[This.port]
<1>1. /\ FramesOK /\ q \in Seq(Command) /\ Len(q) = 0 /\ mailbox \in Seq(Message)
      /\ toVm \in [Ports -> Seq(Command)] /\ m.mode = "cmd"
    BY Taken DEF HostInv, Typed, TopMode
<1>2. /\ Len(frames') = Len(frames) /\ frames'[Len(frames)] = f
      /\ \A i \in 1 .. Len(frames) - 1 : frames'[i] = frames[i]
    BY <1>1, TopSet
<1>3. Current(f, m, q)
    <2> HIDE DEF q, m
    <2>1. \A j \in 1 .. Len(q) : FALSE
        BY <1>1
    <2>2. Len(q) # 1
        BY <1>1
    <2>3. ~Settled(m, q)
        BY <1>1, <2>2 DEF Settled
    <2> QED BY <1>1, <2>1, <2>3 DEF Current
<1>4. Spoken(mailbox', m)
    BY <1>1, TopCurrent, TailSpoken
<1>5. toVm' = [toVm EXCEPT ![This.port] = q]
    BY <1>1
<1> QED
    BY <1>2, <1>3, <1>4, <1>5, StayAgrees

LEMMA TakeUpdatesAgrees ==
    ASSUME HostInv, Agrees, TakeUpdates
    PROVE  Agrees'
<1> DEFINE entries == Head(mailbox).entries
           f == [This EXCEPT !.chain = Updated(@, entries)]
<1>1. frames # <<>> /\ mailbox # <<>> /\ Head(mailbox).op = "su" /\ pending = Nothing
    BY DEF TakeUpdates, Awaited
<1>2. /\ Head(mailbox) = mailbox[1] /\ This \in Frames /\ Head(mailbox) \in Message
      /\ Said(mailbox, TopMode, This.port, Len(frames), pending) /\ Len(mailbox) \in Nat \ {0}
      /\ mailbox[1].op \in SaidBy(TopMode) /\ TopMode \in {"cmd", "run", "gs", "query", "result", "seed"}
    BY <1>1, Taken
<1>3. entries \in Seq(Entry)
    BY <1>1, <1>2, Msgs DEF UpdateMsg
<1>4. TopMode = "cmd"
    <2>1. 1 \in 1 .. Len(mailbox)
        BY <1>2
    <2>2. TopMode # "result"
        BY <1>1, <1>2, <2>1 DEF Said
    <2> QED
        BY <1>1, <1>2, <2>2 DEF SaidBy
<1>5. f \in Frames /\ f.port = This.port
    <2>1. This.chain \in Accounts
        BY <1>2 DEF Frames
    <2>2. Updated(This.chain, entries) \in Accounts
        BY <1>3, <2>1, UpdatedTyped
    <2>3. f = [This EXCEPT !.chain = Updated(This.chain, entries)]
        BY <1>2 DEF Frames
    <2> HIDE DEF f, entries
    <2> QED
        BY <1>2, <2>2, <2>3, SetChain
<1>6. frames' = Append(Outer, f) /\ mailbox' = Tail(mailbox) /\ UNCHANGED <<toVm, vm>>
    BY DEF TakeUpdates
<1> HIDE DEF f
<1> QED
    BY <1>1, <1>4, <1>5, <1>6, EndedAgrees

LEMMA TakeDeathAgrees ==
    ASSUME HostInv, Agrees, TakeDeath
    PROVE  Agrees'
<1> DEFINE f == [This EXCEPT !.will = TRUE]
<1>1. frames # <<>> /\ mailbox # <<>> /\ Head(mailbox).op = "sd"
    BY DEF TakeDeath, Awaited
<1>2. /\ Head(mailbox) = mailbox[1] /\ This \in Frames
      /\ mailbox[1].op \in SaidBy(TopMode) /\ TopMode \in {"cmd", "run", "gs", "query", "result", "seed"}
    BY <1>1, Taken
<1>3. TopMode = "cmd"
    BY <1>1, <1>2 DEF SaidBy
<1>4. f \in Frames /\ f.port = This.port
    BY <1>2, SetWill
<1>5. frames' = Append(Outer, f) /\ mailbox' = Tail(mailbox) /\ UNCHANGED <<toVm, vm>>
    BY DEF TakeDeath
<1> HIDE DEF f
<1> QED
    BY <1>1, <1>3, <1>4, <1>5, EndedAgrees

LEMMA TakeLogAgrees ==
    ASSUME HostInv, Agrees, TakeLog
    PROVE  Agrees'
<1>1. frames # <<>> /\ mailbox # <<>>
    BY DEF TakeLog, Awaited
<1>2. CASE Head(mailbox).topics = 0
    BY <1>2, DieAgrees DEF TakeLog
<1>3. CASE Head(mailbox).topics # 0
    BY <1>1, <1>3, SameAgrees DEF TakeLog, elixir
<1> QED
    BY <1>2, <1>3

LEMMA TakeCallAgrees ==
    ASSUME HostInv, Agrees, TakeCall
    PROVE  Agrees'
    BY SameAgrees DEF TakeCall, Awaited

-----------------------------------------------------------------------------
(* Calls.  The caller takes over what its process has written.              *)
LEMMA KnownUpdated ==
    ASSUME NEW m \in Process, NEW f, f.self \in Addrs, f.chain \in Accounts, Known(m, f),
           NEW g, g.self = f.self, g.chain = Updated(f.chain, m.writes.data)
    PROVE  Known(m, g)
<1> DEFINE new == Updated(f.chain, m.writes.data)
<1>1. m.writes \in Table
    BY DEF Process
<1>2. \A k \in Keys : new[f.self].slots[k] = IF Held(m.writes, f.self, k) = Nothing
                                             THEN f.chain[f.self].slots[k] ELSE Held(m.writes, f.self, k)
    BY <1>1, UpdatedFields
<1>3. g.chain = new
    OBVIOUS
<1> HIDE DEF new
<1> QED
    BY <1>2, <1>3 DEF Known

(* The message that waits for the call, and its process.                    *)
LEMMA CallerAgrees ==
    ASSUME HostInv, Agrees, frames # <<>>, pending # Nothing
    PROVE  /\ Caller \in Frames /\ Caller.port = This.port /\ vm[This.port] \in Process
           /\ vm[This.port].mode = "result" /\ vm[This.port].self = Caller.self
           /\ Known(vm[This.port], Caller) /\ Len(toVm[This.port]) = 0
<1> DEFINE m == vm[This.port]
           entries == mailbox[1].entries
           new == Updated(This.chain, entries)
<1>1. /\ FirstUpdates = 1 /\ m.mode = "result" /\ Len(toVm[This.port]) = 0
      /\ Caller \in Frames /\ Caller.port = This.port
    BY CallWaits DEF TopMode
<1>2. Len(mailbox) = 1 /\ mailbox[1].op = "su" /\ mailbox \in Seq(Message)
    BY DEF HostInv, Typed, InStep, Waiting
<1>3. /\ Current(This, m, toVm[This.port]) /\ Spoken(mailbox, m) /\ m \in Process
      /\ This \in Frames /\ This.self \in Addrs /\ This.chain \in Accounts
    BY TopCurrent, ThisTyped DEF HostInv, Typed, VmOK
<1> HIDE DEF m
<1>4. entries = m.writes.data
    <2>1. 1 \in 1 .. Len(mailbox)
        BY <1>2
    <2> QED BY <1>2, <1>3, <2>1 DEF Spoken
<1>5. m.self = This.self /\ Known(m, This)
    <2>1. Len(toVm[This.port]) # 2
        BY <1>1
    <2> QED BY <1>1, <1>3, <2>1 DEF Current, Settled
<1>6. Caller.self = This.self /\ Caller.chain = new
    <2>1. entries \in Seq(Entry)
        BY <1>2, <1>3, <1>4 DEF Process, Table, TableOf, Entry
    <2>2. new \in Accounts
        BY <1>3, <2>1, UpdatedTyped
    <2>3. Caller = [This EXCEPT !.chain = new]
        BY <1>1, <1>3 DEF Caller, Frames
    <2> HIDE DEF new
    <2> QED BY <1>3, <2>2, <2>3, SetChain
<1>7. Known(m, Caller)
    BY <1>3, <1>4, <1>5, <1>6, KnownUpdated
<1> QED
    BY <1>1, <1>3, <1>5, <1>6, <1>7 DEF m

(* A message starts on a port at rest, with what it needs in the pipe.      *)
LEMMA PushAgrees ==
    ASSUME HostInv, Agrees, Len(frames) < MaxDepth, NEW rest \in Seq(Frames), Len(rest) = Len(frames),
           \A i \in 1 .. Len(frames) : rest[i].port = frames[i].port,
           \A i \in 1 .. Len(frames) : Current(rest[i], vm[rest[i].port], toVm[rest[i].port]),
           NEW g \in Frames, g.port = NextPort, Start(g, rest), mailbox' = <<>>, vm' = vm
    PROVE  Agrees'
<1> DEFINE n == Len(frames)
           seed == Seed(g.chain, g.self)
           context == [op |-> "c"]
           run == [op |-> "r", self |-> g.self, value |-> g.value]
           q == <<context, seed, run>>
<1>1. /\ NextPort \in Ports /\ vm[NextPort].mode = "cmd" /\ toVm[NextPort] = <<>>
      /\ \A i \in 1 .. n : frames[i].port # NextPort
    BY NextPortFree
<1>2. n \in Nat /\ frames \in Seq(Frames) /\ \A i \in 1 .. n : frames[i].port \in Ports
    BY ThisTyped DEF HostInv, Typed, FramesOK, Frames
<1>3. context.op = "c" /\ seed.op = "p" /\ run.op = "r" /\ run.self = g.self
    BY DEF Seed
<1>4. frames' = Append(rest, g) /\ toVm' = [toVm EXCEPT ![NextPort] = @ \o q]
    BY DEF Start
<1> HIDE DEF seed, context, run
<1>5. Len(q) = 3 /\ q[1] = context /\ q[2] = seed /\ q[3] = run /\ q \in Seq({context, seed, run})
    OBVIOUS
<1> HIDE DEF q
<1>6. toVm' = [toVm EXCEPT ![NextPort] = q]
    <2>1. <<>> \o q = q
        BY <1>5
    <2> QED
        BY <1>1, <1>4, <2>1
<1>7. /\ Len(frames') = n + 1 /\ frames'[n + 1] = g
      /\ \A i \in 1 .. n : frames'[i] = rest[i]
    BY <1>2, <1>4
<1>8. /\ \A p \in Ports : p # NextPort => toVm'[p] = toVm[p]
      /\ toVm'[NextPort] = q
    BY <1>1, <1>6 DEF HostInv, Typed
<1>9. ASSUME NEW m, m.mode = "cmd"
      PROVE  Current(g, m, q)
    <2>1. \A j \in 1 .. Len(q) : q[j] \in {context, seed, run}
        BY <1>5
    <2>2. \A j \in 1 .. Len(q) : Told(g, m, q[j])
        BY <1>3, <2>1 DEF Told, seed
    <2>3. Len(q) # 1
        BY <1>5
    <2>4. ~Settled(m, q)
        BY <1>9, <2>3 DEF Settled
    <2> QED
        BY <1>9, <2>2, <2>4 DEF Current
<1>10. ASSUME NEW i \in 1 .. Len(frames')
       PROVE  Current(frames'[i], vm'[frames'[i].port], toVm'[frames'[i].port])
    <2>1. CASE i = n + 1
        BY <1>1, <1>7, <1>8, <1>9, <2>1
    <2>2. CASE i # n + 1
        <3>1. i \in 1 .. n
            BY <1>2, <1>7, <2>2
        <3>2. frames'[i] = rest[i] /\ rest[i].port = frames[i].port /\ toVm'[frames[i].port] = toVm[frames[i].port]
            BY <1>1, <1>2, <1>7, <1>8, <3>1
        <3> QED BY <3>1, <3>2
    <2> QED BY <2>1, <2>2
<1> QED
    BY <1>10, SilenceSpoken DEF Agrees

LEMMA BeginAgrees ==
    ASSUME HostInv, Agrees, NEW to \in Addrs, NEW value \in 0 .. MaxValue, Begin(to, value)
    PROVE  Agrees'
<1> DEFINE chain == Transferred(world, Origin, to, value)
           none == {}
           g == Frame(NextPort, "call", to, Origin, value, chain, none)
<1>1. frames = <<>> /\ Len(frames) = 0 /\ Start(g, <<>>) /\ UNCHANGED <<world, mailbox, vm>>
    BY DEF Begin
<1>2. mailbox = <<>> /\ world \in Accounts /\ MaxDepth \in Nat \ {0} /\ Origin \in Addrs /\ value \in Nat
    BY <1>1, EvmHostAssumption DEF HostInv, Typed, InStep
<1>3. chain \in Accounts /\ none \in SUBSET Addrs
    BY <1>2, TransferredTyped
<1>4. NextPort \in Ports
    BY <1>1, <1>2, NextPortFree
<1> HIDE DEF chain, none
<1>5. g \in Frames /\ g.port = NextPort
    BY <1>2, <1>3, <1>4 DEF Frame, Frames, Kinds
<1> HIDE DEF g
<1>6. /\ <<>> \in Seq(Frames) /\ Len(<<>>) = Len(frames) /\ mailbox' = <<>> /\ Len(frames) < MaxDepth
      /\ \A i \in 1 .. Len(frames) : FALSE
    BY <1>1, <1>2
<1> QED
    BY <1>1, <1>5, <1>6, PushAgrees

LEMMA StartCallAgrees ==
    ASSUME HostInv, Agrees, frames # <<>>, pending # Nothing, NEW hasCode, StartCall(hasCode),
           mailbox' = <<>>, vm' = vm
    PROVE  Agrees'
<1> DEFINE f == Caller
           rest == Append(Outer, f)
           g == Frame(NextPort, pending.kind, Self(f), From(f), pending.value, Entered(f), f.dead)
<1>1. Len(frames) < MaxDepth /\ pending \in CallMsg
    BY CallWaits
<1>2. /\ f \in Frames /\ f.port = This.port /\ vm[This.port].mode = "result"
      /\ vm[This.port].self = f.self /\ Known(vm[This.port], f) /\ Len(toVm[This.port]) = 0
    BY CallerAgrees
<1>3. /\ FramesOK /\ Len(frames) \in Nat \ {0} /\ Outer \in Seq(Frames)
      /\ Len(Outer) = Len(frames) - 1 /\ \A i \in 1 .. Len(frames) - 1 : Outer[i] = frames[i]
    BY ThisTyped, OuterTyped, EvmHostAssumption DEF HostInv, Typed
<1>4. Start(g, rest)
    BY DEF StartCall
<1>5. NextPort \in Ports
    BY <1>1, NextPortFree
<1>6. g \in Frames /\ g.port = NextPort
    <2>1. /\ Self(f) \in Addrs /\ From(f) \in Addrs /\ Entered(f) \in Accounts
          /\ pending.value \in Nat /\ pending.kind \in Kinds
        BY <1>1, <1>2, EnteredTyped
    <2>2. f.dead \in SUBSET Addrs
        BY <1>2 DEF Frames
    <2> HIDE DEF f
    <2> QED
        BY <1>5, <2>1, <2>2 DEF Frame, Frames
<1> HIDE DEF f, g
<1>7. rest \in Seq(Frames) /\ Len(rest) = Len(frames)
      /\ \A i \in 1 .. Len(frames) : rest[i] = IF i = Len(frames) THEN f ELSE frames[i]
    BY <1>2, <1>3
<1>8. \A i \in 1 .. Len(frames) : rest[i].port = frames[i].port
    BY <1>2, <1>7 DEF This
<1> HIDE DEF rest
<1>9. Current(f, vm[This.port], toVm[This.port])
    <2>1. \A j \in 1 .. Len(toVm[This.port]) : FALSE
        BY <1>2
    <2> QED BY <1>2, <2>1 DEF Current
<1>10. \A i \in 1 .. Len(frames) : Current(rest[i], vm[rest[i].port], toVm[rest[i].port])
    BY <1>2, <1>7, <1>9 DEF Agrees
<1> QED
    BY <1>1, <1>4, <1>6, <1>7, <1>8, <1>10, PushAgrees

(* The caller goes on with the answer in its pipe.                          *)
LEMMA ReplyCurrent ==
    ASSUME NEW f \in Frames, NEW m, m.mode = "result", m.self = f.self, Known(m, f),
           NEW ok \in BOOLEAN, NEW chain \in Accounts, NEW dead \in SUBSET Addrs
    PROVE  Current(GoesOn(f, ok, chain, dead), m, Reply(ok, chain, f.self))
<1> DEFINE g == GoesOn(f, ok, chain, dead)
           seed == Seed(chain, f.self)
           yes == [op |-> "result", ok |-> TRUE]
           no == [op |-> "result", ok |-> FALSE]
<1>1. g.self = f.self /\ (ok => g.chain = chain) /\ (~ok => g = f)
    <2>1. g.self = f.self /\ g.chain = IF ok THEN chain ELSE f.chain
        BY AnsweredTyped
    <2>2. ~ok => g = f
        BY DEF GoesOn
    <2> HIDE DEF g
    <2> QED BY <2>1, <2>2
<1> HIDE DEF g
<1>2. yes.op = "result" /\ no.op = "result" /\ seed.op = "p" /\ seed = Seed(chain, f.self)
    BY DEF Seed
<1>3. Reply(ok, chain, f.self) = IF ok THEN <<yes, seed>> ELSE <<no>>
    BY DEF Reply
<1> HIDE DEF seed, yes, no
<1>4. CASE ok
    <2> DEFINE q == <<yes, seed>>
    <2>1. Reply(ok, chain, f.self) = q /\ Len(q) = 2 /\ q[1] = yes /\ q[2] = seed
        BY <1>3, <1>4
    <2> HIDE DEF q
    <2>2. \A j \in 1 .. Len(q) : q[j] = yes \/ q[j] = seed
        BY <2>1
    <2>3. \A j \in 1 .. Len(q) : Told(g, m, q[j])
        BY <1>1, <1>2, <1>4, <2>2 DEF Told
    <2> QED
        BY <1>1, <2>1, <2>3 DEF Current, Settled, g
<1>5. CASE ~ok
    <2> DEFINE q == <<no>>
    <2>1. Reply(ok, chain, f.self) = q /\ Len(q) = 1 /\ q[1] = no
        BY <1>3, <1>5
    <2> HIDE DEF q
    <2>2. \A j \in 1 .. Len(q) : q[j] = no
        BY <2>1
    <2>3. \A j \in 1 .. Len(q) : Told(g, m, q[j])
        BY <1>2, <2>2 DEF Told
    <2> QED
        BY <1>1, <1>5, <2>1, <2>3 DEF Current, Settled, g
<1> QED
    BY <1>4, <1>5

LEMMA PlainCallAgrees ==
    ASSUME HostInv, Agrees, frames # <<>>, pending # Nothing, NEW hasCode, PlainCall(hasCode),
           mailbox' = <<>>, vm' = vm
    PROVE  Agrees'
<1> DEFINE f == Caller
<1>1. pending \in CallMsg /\ mailbox # <<>>
    BY CallWaits
<1>2. /\ f \in Frames /\ f.port = This.port /\ vm[This.port].mode = "result"
      /\ vm[This.port].self = f.self /\ Known(vm[This.port], f) /\ Len(toVm[This.port]) = 0
    BY CallerAgrees
<1>3. /\ f.chain \in Accounts /\ f.dead \in SUBSET Addrs /\ f.self \in Addrs
      /\ Entered(f) \in Accounts
    BY <1>1, <1>2, EnteredTyped DEF Frames
<1>4. PICK ok \in BOOLEAN, chain \in Accounts : Answer(Outer, f, ok, chain, f.dead)
    <2>1. Answer(Outer, f, FALSE, f.chain, f.dead) \/ Answer(Outer, f, TRUE, Entered(f), f.dead)
        BY DEF PlainCall
    <2> QED
        BY <1>3, <2>1
<1> DEFINE g == GoesOn(f, ok, chain, f.dead)
           r == Reply(ok, chain, f.self)
<1>5. frames' = Append(Outer, g) /\ toVm' = [toVm EXCEPT ![f.port] = @ \o r]
    BY <1>4 DEF Answer, Reply, GoesOn
<1> HIDE DEF f
<1>6. g \in Frames /\ g.port = This.port
    <2> HIDE DEF r
    <2> QED
        BY <1>2, <1>3, AnsweredTyped
<1>7. r \in Seq(Command)
    BY <1>3, ReplyPiped
<1>8. Current(g, vm[This.port], r)
    BY <1>2, <1>3, ReplyCurrent
<1> HIDE DEF g, r
<1>9. FramesOK /\ toVm[This.port] \in Seq(Command)
    BY <1>1, Taken
<1>10. toVm' = [toVm EXCEPT ![This.port] = r]
    <2>1. toVm[This.port] \o r = r
        BY <1>2, <1>7, <1>9
    <2> QED
        BY <1>2, <1>5, <2>1
<1>11. /\ Len(frames') = Len(frames) /\ frames'[Len(frames)] = g
       /\ \A i \in 1 .. Len(frames) - 1 : frames'[i] = frames[i]
    BY <1>5, <1>6, <1>9, TopSet
<1>12. Spoken(mailbox', vm[This.port])
    BY SilenceSpoken
<1> QED
    BY <1>1, <1>6, <1>8, <1>10, <1>11, <1>12, StayAgrees

LEMMA TakeCallUpdatesAgrees ==
    ASSUME HostInv, Agrees, TakeCallUpdates
    PROVE  Agrees'
<1>1. frames # <<>> /\ pending # Nothing
    BY DEF TakeCallUpdates
<1>2. FirstUpdates = 1 /\ RemoveAt(mailbox, 1) = <<>>
    BY <1>1, CallWaits
<1>3. CASE Die
    BY <1>3, DieAgrees
<1>4. CASE /\ \E hasCode \in BOOLEAN : StartCall(hasCode) \/ PlainCall(hasCode)
           /\ mailbox' = RemoveAt(mailbox, FirstUpdates)
           /\ UNCHANGED <<world, evals, vm, budget>>
    BY <1>1, <1>2, <1>4, StartCallAgrees, PlainCallAgrees
<1> QED
    BY <1>3, <1>4 DEF TakeCallUpdates

(* The caller goes on once the message it called has ended.                 *)
LEMMA PopAgrees ==
    ASSUME HostInv, Agrees, frames # <<>>, Len(frames) # 1,
           NEW ok \in BOOLEAN, NEW chain \in Accounts, NEW dead \in SUBSET Addrs,
           Answer(SubSeq(frames, 1, Len(frames) - 2), Last(Outer), ok, chain, dead),
           mailbox' = <<>>, vm' = vm
    PROVE  Agrees'
<1> DEFINE n == Len(frames)
           rest == SubSeq(frames, 1, n - 2)
           f == frames[n - 1]
           g == GoesOn(f, ok, chain, dead)
           r == Reply(ok, chain, f.self)
<1>1. /\ FramesOK /\ n \in 1 .. MaxDepth /\ MaxDepth \in Nat
      /\ \A i \in 1 .. n : frames[i] \in Frames /\ frames[i].port \in Ports
    BY ThisTyped, EvmHostAssumption DEF HostInv, Typed
<1>2. n - 1 \in 1 .. n - 1 /\ n - 1 \in 1 .. n /\ n - 2 \in Nat /\ n > 1 /\ n - 1 # n
    <2>1. n \in Nat /\ n >= 1 /\ n # 1
        BY <1>1
    <2> HIDE DEF n
    <2>2. n > 1 /\ n - 1 \in 1 .. n - 1 /\ n - 1 \in 1 .. n /\ n - 2 \in Nat /\ n - 1 # n
        BY <2>1
    <2> QED
        BY <2>2 DEF n
<1>3. f \in Frames /\ \A i \in 1 .. n - 2 : frames[i] \in Frames
    BY <1>1, <1>2
<1>4. Last(Outer) = f
    <2>1. Outer \in Seq(Frames) /\ Len(Outer) = n - 1 /\ Outer[n - 1] = f
        BY <1>1, <1>2, OuterTyped
    <2> QED
        BY <2>1 DEF Last
<1>5. rest \in Seq(Frames) /\ Len(rest) = n - 2 /\ \A i \in 1 .. n - 2 : rest[i] = frames[i]
    <2> DEFINE m == n - 2
    <2>1. m \in Nat /\ \A i \in 1 .. m : frames[i] \in Frames
        BY <1>2, <1>3
    <2>2. rest = SubSeq(frames, 1, m)
        OBVIOUS
    <2> HIDE DEF m, rest
    <2>3. /\ rest \in Seq(Frames) /\ Len(rest) = (IF 1 <= m THEN m - 1 + 1 ELSE 0)
          /\ \A i \in 1 .. m - 1 + 1 : rest[i] = frames[1 + i - 1]
        BY <2>1, <2>2, SubSeqProperties
    <2>4. Len(rest) = m /\ \A i \in 1 .. m : rest[i] = frames[i]
        BY <2>1, <2>3
    <2> QED
        BY <2>3, <2>4 DEF m
<1>6. frames' = Append(rest, g) /\ toVm' = [toVm EXCEPT ![f.port] = @ \o r]
    BY <1>4 DEF Answer, Reply, GoesOn
<1>7. f.self \in Addrs /\ f.port \in Ports
    BY <1>3 DEF Frames
<1>8. /\ vm[f.port].mode = "result" /\ Len(toVm[f.port]) = 0 /\ toVm[f.port] \in Seq(Command)
      /\ Current(f, vm[f.port], toVm[f.port])
    BY <1>2, <1>7 DEF HostInv, Typed, InStep, Agrees
<1>9. \A i \in 1 .. n - 2 : i \in 1 .. n /\ i # n - 1 /\ frames[i].port # f.port
    <2>1. \A i \in 1 .. n - 2 : i \in 1 .. n /\ i # n - 1
        BY <1>1, <1>2
    <2> QED BY <1>2, <2>1 DEF HostInv, PortsAreHeld
<1> HIDE DEF f, rest
<1>10. g \in Frames /\ g.port = f.port
    BY <1>3, AnsweredTyped
<1>11. r \in Seq(Command)
    BY <1>7, ReplyPiped
<1>12. Current(g, vm[f.port], r)
    <2>1. Len(toVm[f.port]) # 2
        BY <1>8
    <2>2. vm[f.port].self = f.self /\ Known(vm[f.port], f)
        BY <1>8, <2>1 DEF Current, Settled
    <2> QED
        BY <1>3, <1>8, <2>2, ReplyCurrent
<1> HIDE DEF g, r
<1>13. toVm' = [toVm EXCEPT ![f.port] = r]
    <2>1. toVm[f.port] \o r = r
        BY <1>8, <1>11
    <2> QED
        BY <1>6, <2>1
<1>14. /\ toVm'[f.port] = r
       /\ \A p \in Ports : p # f.port => toVm'[p] = toVm[p]
    BY <1>7, <1>13 DEF HostInv, Typed
<1>15. Len(frames') = n - 1 /\ frames'[n - 1] = g /\ \A i \in 1 .. n - 2 : frames'[i] = frames[i]
    BY <1>2, <1>5, <1>6, <1>10
<1>16. ASSUME NEW i \in 1 .. Len(frames')
       PROVE  Current(frames'[i], vm'[frames'[i].port], toVm'[frames'[i].port])
    <2>1. CASE i = n - 1
        BY <1>10, <1>12, <1>14, <1>15, <2>1
    <2>2. CASE i # n - 1
        <3>1. i \in 1 .. n - 2
            BY <1>2, <1>15, <2>2
        <3>2. frames'[i] = frames[i] /\ i \in 1 .. n /\ toVm'[frames[i].port] = toVm[frames[i].port]
            BY <1>1, <1>9, <1>14, <1>15, <3>1
        <3> QED BY <3>2 DEF Agrees
    <2> QED BY <2>1, <2>2
<1> QED
    BY <1>16, SilenceSpoken DEF Agrees

LEMMA TakeOkAgrees ==
    ASSUME HostInv, Agrees, NEW paid \in BOOLEAN, NEW hasOutput \in BOOLEAN, TakeOk(paid, hasOutput)
    PROVE  Agrees'
<1> DEFINE c == Head(mailbox)
           ok == c.ok /\ paid
           dead == DeadNow(This)
           ended == Ended(This, hasOutput)
<1>1. frames # <<>> /\ mailbox # <<>> /\ c.op = "ok" /\ pending = Nothing
    BY DEF TakeOk, Awaited
<1>2. /\ This \in Frames /\ c = mailbox[1] /\ mailbox[1] \in Message /\ Len(mailbox) \in Nat \ {0}
      /\ Said(mailbox, TopMode, This.port, Len(frames), pending)
    BY <1>1, Taken
<1>3. Tail(mailbox) = <<>>
    <2>1. 1 \in 1 .. Len(mailbox) /\ mailbox[1].op = "ok"
        BY <1>1, <1>2
    <2>2. 1 = Len(mailbox)
        BY <1>2, <2>1 DEF Said
    <2>3. mailbox \in Seq(Message)
        BY DEF HostInv, Typed
    <2> QED
        BY <2>2, <2>3, TailOfOne
<1>4. ok \in BOOLEAN
    BY <1>1, <1>2, Msgs DEF EndMsg
<1>5. dead \in SUBSET Addrs /\ ended \in Accounts
    BY <1>2, EndedTyped DEF DeadNow, Frames
<1>6. CASE Die
    BY <1>6, DieAgrees
<1>7. CASE ~Die
    <2>1. /\ mailbox' = <<>> /\ vm' = vm
          /\ Len(frames) = 1 => frames' = <<>>
          /\ Len(frames) # 1 => Answer(SubSeq(frames, 1, Len(frames) - 2), Last(Outer), ok, ended, dead)
        BY <1>3, <1>7 DEF TakeOk
    <2> HIDE DEF ok, dead, ended
    <2>2. CASE Len(frames) = 1
        <3>1. frames' = <<>> /\ Len(frames') = 0
            BY <2>1, <2>2
        <3>2. \A i \in 1 .. Len(frames') : FALSE
            BY <3>1
        <3> QED BY <3>1, <3>2 DEF Agrees
    <2>3. CASE Len(frames) # 1
        BY <1>1, <1>4, <1>5, <2>1, <2>3, PopAgrees
    <2> QED BY <2>2, <2>3
<1> QED
    BY <1>6, <1>7

LEMMA NextAgrees ==
    ASSUME HostInv, Agrees, [Next]_vars
    PROVE  Agrees'
<1>1. CASE \E to \in Addrs, value \in 0 .. MaxValue : Begin(to, value)
    BY <1>1, BeginAgrees
<1>2. CASE \E p \in Ports : VmStep(p)
    BY <1>2, VmAgrees
<1>3. CASE EvmStep
    BY <1>3, AnswerReadAgrees, AnswerQueryAgrees, TakeUpdatesAgrees, TakeDeathAgrees, TakeLogAgrees,
       TakeCallAgrees, TakeCallUpdatesAgrees, TakeOkAgrees DEF EvmStep
<1>4. CASE Timeout
    BY <1>4, DieAgrees DEF Timeout
<1>5. CASE UNCHANGED vars
    BY <1>5 DEF vars, Agrees, This
<1> QED
    BY <1>1, <1>2, <1>3, <1>4, <1>5 DEF Next

(* What the processes hold, and what is on the way to them, agrees with the *)
(* accounts of their messages.                                             *)
THEOREM AgreementHolds == Spec => []Agrees
<1>1. Init => Agrees
    <2> SUFFICES ASSUME Init PROVE Agrees
        OBVIOUS
    <2>1. frames = <<>> /\ Len(frames) = 0
        BY DEF Init
    <2>2. \A i \in 1 .. Len(frames) : FALSE
        BY <2>1
    <2> QED BY <2>1, <2>2 DEF Agrees
<1>2. HostInv /\ Agrees /\ [Next]_vars => Agrees'
    BY NextAgrees
<1> QED
    BY <1>1, <1>2, HostInvariant, PTL DEF Spec

(* The pipe of a process whose message runs or waits, and none is a seed.   *)
LEMMA NoSeedWaits ==
    ASSUME HostInv, NEW p \in Ports, vm[p].mode \in {"run", "gs", "query", "result"}, ~Waits(p, {"p"})
    PROVE  /\ Settled(vm[p], toVm[p]) /\ ~Waits(p, {"c", "p"})
           /\ Waits(p, {"value"}) => vm[p].mode = "gs" /\ Len(toVm[p]) = 1 /\ Head(toVm[p]) = toVm[p][1]
                                     /\ toVm[p][1].op = "value"
<1> DEFINE q == toVm[p]
           mode == vm[p].mode
<1>1. q \in Seq(Command) /\ Len(q) \in Nat /\ Piped(q, mode) /\ DOMAIN q = 1 .. Len(q)
    BY DEF HostInv, Typed, InStep
<1> HIDE DEF q, mode
<1>2. \A i \in 1 .. Len(q) : q[i].op # "p"
    BY <1>1 DEF Waits, q
<1>3. ~(mode = "result" /\ Len(q) = 2)
    <2> SUFFICES ASSUME mode = "result", Len(q) = 2 PROVE FALSE
        OBVIOUS
    <2>1. q[2].op = "p"
        BY <1>1 DEF Piped
    <2> QED BY <1>2, <2>1
<1>4. mode \in {"run", "gs", "query", "result"}
    BY DEF mode
<1>5. \A i \in 1 .. Len(q) : q[i].op # "c" /\ (q[i].op = "value" => mode = "gs" /\ Len(q) = 1)
    <2>1. CASE Len(q) = 0
        BY <2>1
    <2>2. CASE mode \in {"gs", "query", "result"} /\ Len(q) = 1
        <3>1. \A i \in 1 .. Len(q) : i = 1
            BY <2>2
        <3> QED BY <1>1, <2>2, <3>1 DEF Piped
    <2> QED BY <1>1, <1>3, <1>4, <2>1, <2>2 DEF Piped
<1>6. Settled(vm[p], q)
    BY <1>3, <1>4 DEF Settled, mode
<1>7. ~Waits(p, {"c", "p"})
    BY <1>1, <1>2, <1>5 DEF Waits, q
<1>8. ASSUME Waits(p, {"value"})
      PROVE  mode = "gs" /\ Len(q) = 1 /\ Head(q) = q[1] /\ q[1].op = "value"
    <2>1. PICK i \in 1 .. Len(q) : q[i].op = "value"
        BY <1>1, <1>8 DEF Waits, q
    <2>2. mode = "gs" /\ Len(q) = 1
        BY <1>5, <2>1
    <2>3. i = 1
        BY <2>1, <2>2
    <2> QED BY <1>1, <2>1, <2>2, <2>3
<1> QED
    BY <1>6, <1>7, <1>8 DEF q, mode

LEMMA AgreesGivesCurrent ==
    ASSUME HostInv, Agrees
    PROVE  CacheIsCurrent
<1> SUFFICES ASSUME NEW i \in DOMAIN frames,
                    vm[frames[i].port].mode \in {"run", "gs", "query", "result"},
                    ~Waits(frames[i].port, {"p"})
             PROVE  /\ \A k \in Keys : Cached(vm[frames[i].port], k)
                                          \in {Nothing, Seen(i)[frames[i].self].slots[k]}
                    /\ Waits(frames[i].port, {"value"}) =>
                          Head(toVm[frames[i].port]).val
                          = Seen(i)[frames[i].self].slots[vm[frames[i].port].pend.key]
    BY DEF CacheIsCurrent
<1> DEFINE f == frames[i]
           p == f.port
           m == vm[p]
           q == toVm[p]
           new == Seen(i)
<1>1. /\ i \in 1 .. Len(frames) /\ f \in Frames /\ p \in Ports /\ m \in Process /\ Placed(m)
      /\ f.self \in Addrs /\ f.chain \in Accounts
    <2>1. i \in 1 .. Len(frames) /\ frames # <<>>
        BY DEF HostInv, Typed, FramesOK
    <2>2. f \in Frames /\ p \in Ports
        BY <2>1, ThisTyped DEF HostInv, Typed
    <2> HIDE DEF f
    <2> QED BY <2>1, <2>2 DEF HostInv, Typed, VmOK, InStep, Frames
<1>2. /\ Settled(m, q) /\ ~Waits(p, {"c", "p"})
      /\ Waits(p, {"value"}) => m.mode = "gs" /\ Len(q) = 1 /\ Head(q) = q[1] /\ q[1].op = "value"
    BY <1>1, NoSeedWaits
<1>3. Current(f, m, q)
    BY <1>1 DEF Agrees
<1>4. m.self = f.self /\ Known(m, f)
    BY <1>2, <1>3 DEF Current
<1>5. m.writes \in Table /\ m.cache \in Table
    BY <1>1 DEF Process
<1>6. \A k \in Keys : new[f.self].slots[k] = IF Held(m.writes, f.self, k) = Nothing
                                             THEN f.chain[f.self].slots[k] ELSE Held(m.writes, f.self, k)
    <2>1. new = Updated(f.chain, m.writes.data)
        BY <1>2 DEF Seen, Entries
    <2> HIDE DEF new, f, m
    <2> QED BY <1>1, <1>5, <2>1, UpdatedFields
<1> HIDE DEF new, f, m, q, p
<1>7. ASSUME NEW k \in Keys
      PROVE  Cached(m, k) \in {Nothing, new[f.self].slots[k]}
    <2>1. Cached(m, k) = IF Held(m.cache, f.self, k) = Nothing /\ f.self \in m.complete
                         THEN 0 ELSE Held(m.cache, f.self, k)
        BY <1>4 DEF Cached, Held, At
    <2> QED BY <1>4, <1>6, <2>1 DEF Known
<1>8. ASSUME Waits(p, {"value"})
      PROVE  Head(q).val = new[f.self].slots[m.pend.key]
    <2>1. m.mode = "gs" /\ Len(q) = 1 /\ Head(q) = q[1] /\ q[1].op = "value" /\ m.pend.key \in Keys
        BY <1>1, <1>2, <1>8 DEF Placed
    <2>2. Head(q).val = f.chain[f.self].slots[m.pend.key]
        BY <1>3, <2>1 DEF Current, Told
    <2>3. Held(m.cache, f.self, m.pend.key) = Nothing
        BY <1>3, <2>1 DEF Current
    <2>4. Held(m.writes, f.self, m.pend.key) = Nothing
        BY <1>4, <2>1, <2>3 DEF Known
    <2> QED BY <1>6, <2>1, <2>2, <2>4
<1> QED
    BY <1>7, <1>8 DEF new, f, m, q, p

(* The value a C++ process would use for a slot, out of its caches or on    *)
(* the way to it, is always the value of the slot: no seed, nested call,    *)
(* refused call or port used again leaves it a stale one.                   *)
THEOREM CacheStaysCurrent == Spec => []CacheIsCurrent
<1>1. HostInv /\ Agrees => CacheIsCurrent
    BY AgreesGivesCurrent
<1> QED
    BY <1>1, HostInvariant, AgreementHolds, PTL
=============================================================================
