------------------------------- MODULE EvmHost -------------------------------
(***************************************************************************)
(* An evaluation of the EVM: the Elixir process of lib/evm.ex, which holds  *)
(* the accounts, and the C++ processes of src/evm (main.cpp, host.cpp), one *)
(* per running message, which execute code over a cache of the storage.     *)
(* They speak over the pipes of Erlang ports; the Elixir process has one    *)
(* mailbox for all of them.  A call of a contract by a contract suspends    *)
(* one C++ process and starts another.                                      *)
(*                                                                         *)
(* What the code of a contract does is left open: a running process may     *)
(* take any of the steps of the host interface that Does allows the account *)
(* in any order, and end at any time; `budget' stands for the gas.          *)
(*                                                                         *)
(* The operators named Bad... are faulty variants of the operator they      *)
(* precede; no action uses them.  They show that the properties can fail.   *)
(***************************************************************************)
EXTENDS HostMap

CONSTANTS
    Addrs, Keys, Vals,
    World,          \* the accounts at the start
    Origin,         \* the sender of the transactions
    Precompiles,    \* the addresses PreCompiles.get knows
    New,            \* the addresses a contract creation can lead to
    Does,           \* the steps of each account's code
    Nothing,
    AllowOverride,  \* ChainDefinition.allow_contract_override
    SeedLimit,      \* the 100 of cache_account
    MaxValue,       \* bound: value of a message
    MaxDepth,       \* bound: messages running
    Budget,         \* bound: steps the contracts take
    MaxEvals        \* bound: evaluations

Kinds == {"call", "callcode", "delegate", "create"}

\* What code can ask of its host (LOG0 to LOG4 are the only logs).
Steps ==
    [op : {"load"}, key : Keys] \cup [op : {"store"}, key : Keys, val : Vals]
    \cup [op : {"query"}, beyond : BOOLEAN] \cup [op : {"log"}, topics : 0 .. 4]
    \cup [op : {"call"}, kind : Kinds, to : Addrs, value : Nat]

ASSUME EvmHostAssumption ==
    /\ MapKeys = Addrs \X Keys /\ IsFiniteSet(Keys)
    /\ Does \in [Addrs -> SUBSET Steps]
    /\ 0 \in Vals /\ Vals \subseteq Nat /\ Nothing \notin Vals \cup Addrs
    /\ Origin \in Addrs /\ New \subseteq Addrs /\ Precompiles \subseteq Addrs
    /\ World \in [Addrs -> [live : BOOLEAN, code : BOOLEAN, slots : [Keys -> Vals], bal : Int]]
    /\ \A a \in Precompiles \cup {Origin} : ~World[a].code
    /\ AllowOverride \in BOOLEAN
    /\ SeedLimit \in Nat /\ 0 .. SeedLimit - 1 \subseteq Targets
    /\ MaxValue \in Nat /\ MaxDepth \in Nat \ {0}
    /\ Budget \in Nat /\ MaxEvals \in Nat
    /\ Nothing \notin [port : 1 .. MaxDepth, op : {"ca"}, kind : Kinds, to : Addrs, value : Nat]

VARIABLES
    world,      \* the accounts of the chain
    frames,     \* the %Evm{}s of the running messages, the innermost last
    pending,    \* the call process_data("ca") received, while it waits for "su"
    mailbox,    \* the Elixir process's, of the data of the ports
    pool,       \* Process.get(:evm_port)
    opened,     \* ports opened by the process
    toVm,       \* the commands on the way to each C++ process
    vm,         \* the C++ processes
    budget, evals

elixir == <<world, frames, pending, pool, opened, evals>>
vars == <<world, frames, pending, mailbox, pool, opened, toVm, vm, budget, evals>>

Ports == 1 .. MaxDepth

-----------------------------------------------------------------------------
(* The accounts.                                                           *)

NoSlots == [k \in Keys |-> 0]

Transferred(acc, from, to, value) ==
    IF value = 0 \/ from = to THEN acc
    ELSE [acc EXCEPT ![from].bal = @ - value, ![to].bal = @ + value, ![to].live = TRUE]

Created(acc, from, to, value) ==
    [acc EXCEPT ![from].bal = @ - value,
                ![to] = [live |-> TRUE, code |-> FALSE, slots |-> NoSlots, bal |-> value]]

(* process_updates: the entries of an "su"; an account there is made anew.  *)
Updated(acc, entries) ==
    FoldLeft(LAMBDA a, e : [a EXCEPT ![e.key[1]].slots[e.key[2]] = e.val, ![e.key[1]].live = TRUE],
             acc, entries)

(* cache_account: a storage tree holds the slots that are not zero; a large *)
(* one is not sent.                                                        *)
BadSeed(acc, a) == [op |-> "p", addr |-> a, all |-> TRUE,
                    slots |-> IF Cardinality({k \in Keys : acc[a].slots[k] # 0}) < SeedLimit
                              THEN SetToSeq({k \in Keys : acc[a].slots[k] # 0}) ELSE <<>>,
                    vals |-> acc[a].slots]
Seed(acc, a) ==
    LET used == {k \in Keys : acc[a].slots[k] # 0}
        all == Cardinality(used) < SeedLimit
    IN [op |-> "p", addr |-> a, all |-> all,
        slots |-> IF all THEN SetToSeq(used) ELSE <<>>, vals |-> acc[a].slots]

-----------------------------------------------------------------------------
(* The C++ process: class Host over the caches, main() and VM::exec.        *)

NoPend == [key |-> Nothing, val |-> Nothing]
Fresh == [mode |-> "cmd", self |-> Nothing, value |-> 0, pend |-> NoPend,
          cache |-> EmptyMap, writes |-> EmptyMap, complete |-> {}]

Reset(m) == [m EXCEPT !.cache = EmptyMap, !.writes = EmptyMap, !.complete = {}]

(* read_updates()                                                          *)
ReadUpdates(m, msg) ==
    IF ~msg.all THEN Reset(m)
    ELSE [Reset(m) EXCEPT
             !.cache = FoldLeft(LAMBDA c, k : Store(c, <<msg.addr, k>>, msg.vals[k]),
                                Resize(EmptyMap, Len(msg.slots)), msg.slots),
             !.complete = {msg.addr}]

At(m, k) == <<m.self, k>>

(* get_cache(): Nothing when the value has to be asked for.                *)
Cached(m, k) ==
    LET held == Lookup(m.cache, At(m, k), Nothing)
    IN IF held = Nothing /\ m.self \in m.complete THEN 0 ELSE held

(* The rest of set_storage(): both tables.                                 *)
Written(m, k, v) == [m EXCEPT !.cache = Store(@, At(m, k), v),
                              !.writes = Store(@, At(m, k), v)]

Send(msgs) == mailbox' = mailbox \o msgs
Get(p) == toVm' = [toVm EXCEPT ![p] = Tail(@)]
Become(p, m) == vm' = [vm EXCEPT ![p] = m]

Msg(p, op) == [port |-> p, op |-> op]
Updates(p) == [port |-> p, op |-> "su", entries |-> Entries(vm[p].writes)]

This == frames[Len(frames)]
Running(p) == vm[p].mode = "run" /\ budget > 0
Spend == budget' = budget - 1

-----------------------------------------------------------------------------
Init ==
    /\ world = World
    /\ frames = <<>> /\ pending = Nothing /\ mailbox = <<>>
    /\ pool = <<>> /\ opened = 0
    /\ toVm = [p \in Ports |-> <<>>]
    /\ vm = [p \in Ports |-> Fresh]
    /\ budget = Budget /\ evals = 0

(* main(): the commands c, p and r.                                        *)
ReadContext(p) ==
    /\ vm[p].mode = "cmd" /\ toVm[p] # <<>> /\ Head(toVm[p]).op = "c"
    /\ Become(p, Reset(vm[p])) /\ Get(p)
    /\ UNCHANGED <<elixir, mailbox, budget>>

ReadSeed(p) ==
    /\ vm[p].mode \in {"cmd", "seed"} /\ toVm[p] # <<>> /\ Head(toVm[p]).op = "p"
    /\ Become(p, [ReadUpdates(vm[p], Head(toVm[p])) EXCEPT
                     !.mode = IF @ = "seed" THEN "run" ELSE "cmd"])
    /\ Get(p)
    /\ UNCHANGED <<elixir, mailbox, budget>>

ReadRun(p) ==
    /\ vm[p].mode = "cmd" /\ toVm[p] # <<>> /\ Head(toVm[p]).op = "r"
    /\ Become(p, [vm[p] EXCEPT !.mode = "run", !.self = Head(toVm[p]).self,
                               !.value = Head(toVm[p]).value])
    /\ Get(p)
    /\ UNCHANGED <<elixir, mailbox, budget>>

(* get_storage() by SLOAD, and by set_storage() before it writes.           *)
Ask(p, k, v) ==
    /\ Become(p, [vm[p] EXCEPT !.mode = "gs", !.cache = Grown(@), !.pend = [key |-> k, val |-> v]])
    /\ Send(<<[port |-> p, op |-> "gs", addr |-> vm[p].self, key |-> k]>>)

LoadSlot(p, k) ==
    /\ Running(p) /\ Spend
    /\ IF Cached(vm[p], k) # Nothing
       THEN Become(p, [vm[p] EXCEPT !.cache = Grown(@)]) /\ UNCHANGED mailbox
       ELSE Ask(p, k, Nothing)
    /\ UNCHANGED <<elixir, toVm>>

StoreSlot(p, k, v) ==
    /\ Running(p) /\ Spend
    /\ IF Cached(vm[p], k) # Nothing
       THEN Become(p, Written(vm[p], k, v)) /\ UNCHANGED mailbox
       ELSE Ask(p, k, v)
    /\ UNCHANGED <<elixir, toVm>>

BadReadValue(p) ==
    /\ vm[p].mode = "gs" /\ toVm[p] # <<>>
    /\ LET k == vm[p].pend.key
           got == [vm[p] EXCEPT !.mode = "run", !.pend = NoPend,
                                !.cache = Store(@, At(vm[p], k), Head(toVm[p]).val)]
       IN Become(p, Written(got, k, vm[p].pend.val))
    /\ Get(p)
    /\ UNCHANGED <<elixir, mailbox, budget>>
ReadValue(p) ==
    /\ vm[p].mode = "gs" /\ toVm[p] # <<>>
    /\ LET k == vm[p].pend.key
           v == vm[p].pend.val
           got == [vm[p] EXCEPT !.mode = "run", !.pend = NoPend,
                                !.cache = Store(@, At(vm[p], k), Head(toVm[p]).val)]
       IN Become(p, IF v = Nothing THEN got ELSE Written(got, k, v))
    /\ Get(p)
    /\ UNCHANGED <<elixir, mailbox, budget>>

(* The questions that change nothing: ae, gb, gc, gd, cc and gh; cc may ask  *)
(* for code behind the end of the code.                                     *)
Query(p, beyond) ==
    /\ Running(p) /\ Spend
    /\ Become(p, [vm[p] EXCEPT !.mode = "query"])
    /\ Send(<<[port |-> p, op |-> "query", beyond |-> beyond]>>)
    /\ UNCHANGED <<elixir, toVm>>

ReadAnswer(p) ==
    /\ vm[p].mode = "query" /\ toVm[p] # <<>>
    /\ Become(p, [vm[p] EXCEPT !.mode = "run"]) /\ Get(p)
    /\ UNCHANGED <<elixir, mailbox, budget>>

(* emit_log(): nothing is answered.                                        *)
EmitLog(p, topics) ==
    /\ Running(p) /\ Spend
    /\ Send(<<[port |-> p, op |-> "lo", topics |-> topics]>>)
    /\ UNCHANGED <<elixir, toVm, vm>>

(* call(): the call and the writes so far.  DELEGATECALL passes the value   *)
(* of its own message on; the others have compared theirs to the balance.   *)
Call(p, kind, to, value) ==
    /\ Running(p) /\ Spend
    /\ Len(frames) < MaxDepth
    /\ kind = "create" => to \in New
    /\ kind # "delegate" => value <= This.chain[vm[p].self].bal
    /\ Become(p, [vm[p] EXCEPT !.mode = "result"])
    /\ Send(<<[port |-> p, op |-> "ca", kind |-> kind, to |-> to,
               value |-> IF kind = "delegate" THEN vm[p].value ELSE value], Updates(p)>>)
    /\ UNCHANGED <<elixir, toVm>>

ReadResult(p) ==
    /\ vm[p].mode = "result" /\ toVm[p] # <<>>
    /\ Become(p, [vm[p] EXCEPT !.mode = IF Head(toVm[p]).ok THEN "seed" ELSE "run"]) /\ Get(p)
    /\ UNCHANGED <<elixir, mailbox, budget>>

selfdestruct(p, dies) == IF dies THEN <<Msg(p, "sd")>> ELSE <<>>

(* The end of vm->execute() and of the r command; SELFDESTRUCT ends with    *)
(* success after selfdestruct().                                           *)
BadFinish(p, ok, dies) ==
    /\ vm[p].mode = "run"
    /\ UNCHANGED budget
    /\ dies => ok
    /\ Become(p, [vm[p] EXCEPT !.mode = "cmd"])
    /\ Send(selfdestruct(p, dies) \o IF ok THEN <<Updates(p), [port |-> p, op |-> "ok", ok |-> ok]>> ELSE <<Updates(p)>>)
    /\ UNCHANGED <<elixir, toVm>>
Finish(p, ok, dies) ==
    /\ vm[p].mode = "run"
    /\ UNCHANGED budget
    /\ dies => ok
    /\ Become(p, [vm[p] EXCEPT !.mode = "cmd"])
    /\ Send(selfdestruct(p, dies) \o <<Updates(p), [port |-> p, op |-> "ok", ok |-> ok]>>)
    /\ UNCHANGED <<elixir, toVm>>

-----------------------------------------------------------------------------
(* The Elixir process.                                                     *)

Outer == SubSeq(frames, 1, Len(frames) - 1)

(* The port of a new message, and what is written to it: a used one of the  *)
(* pool, else a new one.  Both run the same three commands.                 *)
BadNextPort == IF pool = <<>> THEN opened + 1 ELSE Last(pool)
NextPort == IF pool = <<>> THEN opened + 1 ELSE Head(pool)

Start(f, rest) ==
    /\ frames' = Append(rest, f)
    /\ pool' = IF pool = <<>> THEN pool ELSE Tail(pool)
    /\ opened' = IF pool = <<>> THEN opened + 1 ELSE opened
    /\ toVm' = [toVm EXCEPT ![f.port] = @ \o
           <<[op |-> "c"], Seed(f.chain, f.self), [op |-> "r", self |-> f.self, value |-> f.value]>>]

Frame(port, kind, self, from, value, chain, dead) ==
    [port |-> port, kind |-> kind, self |-> self, from |-> from, value |-> value,
     chain |-> chain, dead |-> dead, will |-> FALSE]

(* Evm.eval of a transaction, whose value has been moved.                  *)
Begin(to, value) ==
    /\ frames = <<>> /\ evals < MaxEvals
    /\ world[to].code /\ value <= world[Origin].bal
    /\ Start(Frame(NextPort, "call", to, Origin, value,
                   Transferred(world, Origin, to, value), {}), <<>>)
    /\ evals' = evals + 1
    /\ UNCHANGED <<world, pending, mailbox, vm, budget>>

(* A raise, or a throw that no caller catches: the process is lost, and the *)
(* ports and the C++ processes with it.                                    *)
Die ==
    /\ frames' = <<>> /\ pending' = Nothing /\ mailbox' = <<>>
    /\ pool' = <<>> /\ opened' = 0
    /\ toVm' = [p \in Ports |-> <<>>]
    /\ vm' = [p \in Ports |-> Fresh]
    /\ UNCHANGED <<world, evals, budget>>

(* The end of process_data("ca"): f is the caller, as it goes on.          *)
BadAnswer(rest, f, ok, chain, dead) ==
    /\ frames' = Append(rest, [f EXCEPT !.chain = chain, !.dead = dead])
    /\ toVm' = [toVm EXCEPT ![f.port] = @ \o
           (IF ok THEN <<[op |-> "result", ok |-> TRUE], Seed(chain, f.self)>>
                  ELSE <<[op |-> "result", ok |-> FALSE]>>)]
BadAnswerPipes(rest, f, ok, chain, dead) ==
    /\ frames' = Append(rest, IF ok THEN [f EXCEPT !.chain = chain, !.dead = dead] ELSE f)
    /\ toVm' = [toVm EXCEPT ![f.port] = @ \o <<[op |-> "result", ok |-> ok], Seed(chain, f.self)>>]
Answer(rest, f, ok, chain, dead) ==
    /\ frames' = Append(rest, IF ok THEN [f EXCEPT !.chain = chain, !.dead = dead] ELSE f)
    /\ toVm' = [toVm EXCEPT ![f.port] = @ \o
           (IF ok THEN <<[op |-> "result", ok |-> TRUE], Seed(chain, f.self)>>
                  ELSE <<[op |-> "result", ok |-> FALSE]>>)]

(* loop(): the first message.  While a call waits for its "su" only that.   *)
Awaited(ops) == frames # <<>> /\ pending = Nothing /\ mailbox # <<>> /\ Head(mailbox).op \in ops

AnswerRead ==
    /\ Awaited({"gs"})
    /\ LET m == Head(mailbox) IN
       toVm' = [toVm EXCEPT ![This.port] =
           Append(@, [op |-> "value", val |-> This.chain[m.addr].slots[m.key]])]
    /\ mailbox' = Tail(mailbox)
    /\ UNCHANGED <<elixir, vm, budget>>

(* binary_part/3 raises for a part behind the end.                         *)
AnswerQuery ==
    /\ Awaited({"query"})
    /\ IF Head(mailbox).beyond THEN Die
       ELSE /\ toVm' = [toVm EXCEPT ![This.port] = Append(@, [op |-> "answer"])]
            /\ mailbox' = Tail(mailbox)
            /\ UNCHANGED <<elixir, vm, budget>>

TakeUpdates ==
    /\ Awaited({"su"})
    /\ frames' = Append(Outer, [This EXCEPT !.chain = Updated(@, Head(mailbox).entries)])
    /\ mailbox' = Tail(mailbox)
    /\ UNCHANGED <<world, pending, pool, opened, evals, toVm, vm, budget>>

TakeDeath ==
    /\ Awaited({"sd"})
    /\ frames' = Append(Outer, [This EXCEPT !.will = TRUE])
    /\ mailbox' = Tail(mailbox)
    /\ UNCHANGED <<world, pending, pool, opened, evals, toVm, vm, budget>>

(* `for n <- 1..count' counts down from 1 to 0 when there is no topic.     *)
TakeLog ==
    /\ Awaited({"lo"})
    /\ IF Head(mailbox).topics = 0 THEN Die
       ELSE /\ mailbox' = Tail(mailbox)
            /\ UNCHANGED <<elixir, toVm, vm, budget>>

TakeCall ==
    /\ Awaited({"ca"})
    /\ pending' = Head(mailbox) /\ mailbox' = Tail(mailbox)
    /\ UNCHANGED <<world, frames, pool, opened, evals, toVm, vm, budget>>

(* process_data("ca") once the "su" is there: Task.call_contract.          *)
FirstUpdates == CHOOSE i \in DOMAIN mailbox :
                   /\ mailbox[i].op = "su"
                   /\ \A j \in 1 .. i - 1 : mailbox[j].op # "su"

Caller == [This EXCEPT !.chain = Updated(@, mailbox[FirstUpdates].entries)]

Self(f) == IF pending.kind = "call" THEN pending.to
           ELSE IF pending.kind = "create" THEN pending.to ELSE f.self
From(f) == IF pending.kind = "delegate" THEN f.from ELSE f.self
Entered(f) ==
    IF pending.kind = "create" THEN Created(f.chain, f.self, pending.to, pending.value)
    ELSE Transferred(f.chain, From(f), Self(f), pending.value)

(* do_create refuses an address that is in use.                            *)
Refused(f) == pending.kind = "create" /\ f.chain[pending.to].live /\ ~AllowOverride

(* Code is run for a call of an account that has some, and for the init     *)
(* code of a creation, unless that is empty.                               *)
StartCall(hasCode) ==
    LET f == Caller IN
    /\ ~Refused(f) /\ hasCode
    /\ pending.kind # "create" => f.chain[pending.to].code
    /\ Start(Frame(NextPort, pending.kind, Self(f), From(f), pending.value, Entered(f), f.dead),
             Append(Outer, f))

PlainCall(hasCode) ==
    LET f == Caller IN
    /\ IF Refused(f) THEN Answer(Outer, f, FALSE, f.chain, f.dead)
       ELSE /\ IF pending.kind = "create" THEN ~hasCode ELSE ~f.chain[pending.to].code
            /\ Answer(Outer, f, TRUE, Entered(f), f.dead)
    /\ UNCHANGED <<pool, opened>>

TakeCallUpdates ==
    /\ frames # <<>> /\ pending # Nothing
    /\ \E i \in DOMAIN mailbox : mailbox[i].op = "su"
    /\ \/ /\ \E hasCode \in BOOLEAN : StartCall(hasCode) \/ PlainCall(hasCode)
          /\ pending' = Nothing
          /\ mailbox' = RemoveAt(mailbox, FirstUpdates)
          /\ UNCHANGED <<world, evals, vm, budget>>
       \/ \* a precompiled contract that runs out of gas has no output to send
          pending.kind = "call" /\ pending.to \in Precompiles /\ Die

(* "ok": eval_internal_evm may still turn success into :evmc_out_of_gas for *)
(* the deposit of the output; do_create stores the output as code.          *)
Ended(f, hasOutput) ==
    IF f.kind = "create" THEN [f.chain EXCEPT ![f.self].code = @ \/ hasOutput] ELSE f.chain
DeadNow(f) == IF f.will THEN f.dead \cup {f.self} ELSE f.dead

TakeOk(paid, hasOutput) ==
    LET f == This
        ok == Head(mailbox).ok /\ paid
    IN
    /\ Awaited({"ok"})
    /\ IF Len(frames) = 1 /\ ok /\ DeadNow(f) # {}
       THEN Die             \* eval_timed: <<benefector::160>> of a binary raises
       ELSE /\ pool' = <<f.port>> \o pool
            /\ IF Len(frames) = 1
               THEN /\ world' = IF ok THEN f.chain ELSE world
                    /\ frames' = <<>>
                    /\ UNCHANGED toVm
               ELSE /\ Answer(SubSeq(frames, 1, Len(frames) - 2), Last(Outer), ok,
                              Ended(f, hasOutput), DeadNow(f))
                    /\ UNCHANGED world
            /\ mailbox' = Tail(mailbox)
            /\ UNCHANGED <<pending, opened, evals, vm, budget>>

(* Five seconds without a message.                                         *)
Timeout == frames # <<>> /\ mailbox = <<>> /\ Die

-----------------------------------------------------------------------------
(* A step of the host interface that the running code takes.               *)
CodeStep(p, step) ==
    \/ step.op = "load" /\ LoadSlot(p, step.key)
    \/ step.op = "store" /\ StoreSlot(p, step.key, step.val)
    \/ step.op = "query" /\ Query(p, step.beyond)
    \/ step.op = "log" /\ EmitLog(p, step.topics)
    \/ step.op = "call" /\ Call(p, step.kind, step.to, step.value)

VmStep(p) ==
    \/ ReadContext(p) \/ ReadSeed(p) \/ ReadRun(p) \/ ReadValue(p) \/ ReadAnswer(p) \/ ReadResult(p)
    \/ Running(p) /\ \E step \in Does[vm[p].self] : CodeStep(p, step)
    \/ \E ok, dies \in BOOLEAN : Finish(p, ok, dies)

EvmStep ==
    \/ AnswerRead \/ AnswerQuery \/ TakeUpdates \/ TakeDeath \/ TakeLog \/ TakeCall \/ TakeCallUpdates
    \/ \E paid, hasOutput \in BOOLEAN : TakeOk(paid, hasOutput)

Next ==
    \/ \E to \in Addrs, value \in 0 .. MaxValue : Begin(to, value)
    \/ \E p \in Ports : VmStep(p)
    \/ EvmStep
    \/ Timeout

(* The operating system runs each C++ process, the Erlang scheduler the     *)
(* Elixir process.                                                         *)
Spec == Init /\ [][Next]_vars /\ WF_vars(EvmStep) /\ \A p \in Ports : WF_vars(VmStep(p))
-----------------------------------------------------------------------------
Accounts == [Addrs -> [live : BOOLEAN, code : BOOLEAN, slots : [Keys -> Vals], bal : Int]]

TypeOK ==
    /\ world \in Accounts
    /\ Len(frames) <= MaxDepth
    /\ \A i \in DOMAIN frames :
          /\ frames[i].port \in Ports /\ frames[i].self \in Addrs
          /\ frames[i].chain \in Accounts /\ frames[i].dead \subseteq Addrs
    /\ opened \in 0 .. MaxDepth /\ Range(pool) \subseteq 1 .. opened
    /\ \A p \in Ports :
          /\ vm[p].mode \in {"cmd", "run", "gs", "query", "result", "seed"}
          /\ vm[p].complete \subseteq Addrs
          /\ \A e \in Range(Entries(vm[p].cache)) \cup Range(Entries(vm[p].writes)) :
                e.key \in MapKeys /\ e.val \in Vals
    /\ budget \in 0 .. Budget /\ evals \in 0 .. MaxEvals

Waits(p, ops) == \E i \in DOMAIN toVm[p] : toVm[p][i].op \in ops

(* The accounts as message i sees them: those its process holds, with what  *)
(* its C++ process has written and not reported yet.                       *)
Seen(i) ==
    LET p == frames[i].port
    IN IF Waits(p, {"c", "p"}) THEN frames[i].chain
       ELSE Updated(frames[i].chain, Entries(vm[p].writes))

(* A value a C++ process would use for a slot, out of its caches or on the  *)
(* way to it, is the value of the slot, also of a message that is suspended *)
(* while the ones it called write to the same account.                     *)
CacheIsCurrent ==
    \A i \in DOMAIN frames :
        LET f == frames[i]
            m == vm[f.port]
        IN m.mode \in {"run", "gs", "query", "result"} /\ ~Waits(f.port, {"p"}) =>
              /\ \A k \in Keys : Cached(m, k) \in {Nothing, Seen(i)[f.self].slots[k]}
              /\ Waits(f.port, {"value"}) =>
                    Head(toVm[f.port]).val = Seen(i)[f.self].slots[m.pend.key]

(* The hash tables of the caches stay sound while they grow.               *)
TablesAreSound == \A p \in Ports : Sound(vm[p].cache) /\ Sound(vm[p].writes)

(* A port serves one message at a time, and goes back to the pool at rest.  *)
PoolIsAtRest ==
    /\ \A i, j \in DOMAIN frames : frames[i].port = frames[j].port => i = j
    /\ \A i, j \in DOMAIN pool : pool[i] = pool[j] => i = j
    /\ \A i \in DOMAIN pool :
          /\ \A j \in DOMAIN frames : frames[j].port # pool[i]
          /\ vm[pool[i]].mode = "cmd" /\ toVm[pool[i]] = <<>>
    /\ Cardinality({p \in 1 .. opened : p \notin Range(pool)}) = Len(frames)

(* The pipes carry no lengths a reader could resynchronise on: what a C++   *)
(* process finds in its pipe is what it waits for, the mailbox holds the    *)
(* messages of the innermost message only, "su" directly after "ca"; and a   *)
(* port that serves nothing is at rest in the pool.                         *)
Expected(mode) ==
    CASE mode = "cmd"    -> {<<>>, <<"c", "p", "r">>, <<"p", "r">>, <<"r">>}
      [] mode = "gs"     -> {<<>>, <<"value">>}
      [] mode = "query"  -> {<<>>, <<"answer">>}
      [] mode = "result" -> {<<>>, <<"result">>, <<"result", "p">>}
      [] mode = "seed"   -> {<<"p">>}
      [] OTHER           -> {<<>>}

PipesAreInStep ==
    /\ PoolIsAtRest
    /\ frames = <<>> => mailbox = <<>>
    /\ \A i \in DOMAIN mailbox : mailbox[i].port = This.port
    /\ \A i \in DOMAIN mailbox : mailbox[i].op = "ca" => mailbox[i + 1].op = "su"
    /\ pending # Nothing => mailbox # <<>> /\ Head(mailbox).op = "su"
    /\ \A p \in Ports :
          /\ [i \in DOMAIN toVm[p] |-> toVm[p][i].op] \in Expected(vm[p].mode)
          /\ toVm[p] # <<>> => p = This.port /\ mailbox = <<>>

(* The evaluation implements the journal: the writes in a C++ process, the  *)
(* updates on the way and the nested results are one stack of accounts.     *)
Stack == [i \in DOMAIN frames |->
             [self |-> frames[i].self, acc |-> Seen(i), dead |-> frames[i].dead]]
Journal == INSTANCE EvmJournal WITH stack <- Stack
ImplementsJournal == Journal!Spec

(* Every evaluation comes to an end: no process waits for another for ever. *)
EvaluationEnds == frames # <<>> ~> frames = <<>>

(* evmc.h:78: the value of a DELEGATECALL is ignored.                      *)
DelegateMovesNoValue ==
    [][pending # Nothing /\ pending.kind = "delegate" /\ frames' # <<>> =>
          \A a \in Addrs : Last(frames').chain[a].bal = This.chain[a].bal]_vars
=============================================================================
