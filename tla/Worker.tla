------------------------------- MODULE Worker --------------------------------
(***************************************************************************)
(* Mining: the GenServer Chain.Worker (lib/chain/worker.ex) with the       *)
(* transaction pool Chain.Pool it proposes from.  The worker calls Chain   *)
(* and Pool from inside its handlers; blocks and transactions arrive       *)
(* between those calls.  One sending account is modelled: transaction t    *)
(* carries its nonce.  A block is the sequence of blocks from the origin   *)
(* to it; the origin stands for some block above number 100, whose         *)
(* predecessors count only by who mined them.  Which branch is heavier is  *)
(* left open.  The block reward transaction is left out.                   *)
(*                                                                         *)
(* The operators named Bad... are faulty variants of the operator they     *)
(* precede; no action uses them.  They show that the properties can fail.  *)
(***************************************************************************)
EXTENDS Integers, SequencesExt

CONSTANTS
    Txs,            \* transactions of the account
    Nonce,          \* of each transaction, counted from 0
    Price,          \* gas price of each transaction
    MinFee,         \* Contract.Registry.min_transaction_fee
    Limit,          \* transactions in a proposal
    Self, Peers,    \* who mines: this node, and the others
    Recent,         \* who mined the blocks up to the origin, at height 0
    WindowSize,     \* Chain.window_size, 100 in the code
    Final0,         \* height of the last final block at the origin
    InitialMode,    \* WORKER_MODE
    Modes,          \* modes an operator sets
    NoBlock,
    MaxHeight,      \* bound: blocks above the genesis
    MaxEvents       \* bound: reorganisations, answers while Chain fills its
                    \* cache, calls of set_mode, work and candidate, and
                    \* restarts of the worker, together

AllModes == {"run", "poll", "disabled"}     \* "run" is a CPU percentage

Miners == Peers \cup {Self}
Block == [txs : Seq(Txs), miner : Miners, fork : Nat]
Candidate == [parent : Seq(Block), fresh : BOOLEAN, txs : Seq(Txs)]

ASSUME WorkerAssumption ==
    /\ NoBlock \notin Seq(Block) /\ NoBlock \notin Candidate
    /\ Nonce \in [Txs -> Nat]
    /\ Price \in [Txs -> Nat]
    /\ MinFee \in Nat /\ Limit \in Nat
    /\ Self \notin Peers
    /\ WindowSize \in Nat \ {0}
    /\ Final0 \in Int /\ Final0 <= 0
    /\ Recent \in Seq(Miners) /\ Len(Recent) >= 4 /\ Len(Recent) >= WindowSize - Final0
    /\ InitialMode \in AllModes /\ Modes \subseteq AllModes
    /\ MaxHeight \in Nat /\ MaxEvents \in Nat

VARIABLES
    chain,      \* Chain.peak_block()
    forks,      \* reorganisations so far; it tells their blocks apart
    pool,       \* Chain.Pool
    due,        \* the Debouncer holds an update for the worker
    mailbox,    \* of the worker
    w,          \* the worker's state: mode, parent, proposal, candidate, working;
                \* candidate.fresh: it is less than 10 seconds old
    task, pc,   \* the message being handled, and where
    seen,       \* the peak it read
    past,       \* history, since the worker started: it was "restarted" without
                \* work, it was "disabled", it has "skipped" a do_work then, it was
                \* "asked" for a candidate at rest
    events

world == <<chain, forks, pool, due>>
control == <<task, pc, seen>>
rest == <<past, events>>
vars == <<chain, forks, pool, due, mailbox, w, task, pc, seen, past, events>>

-----------------------------------------------------------------------------
(* Blocks and transactions.                                                *)

Executed(b) == FlattenSeq([i \in DOMAIN b |-> b[i].txs])
NonceAt(b) == Len(Executed(b))
MinedBy(m, txs, f) == [txs |-> txs, miner |-> m, fork |-> f]

(***************************************************************************)
(* Who may mine the next block (Block.validate), as a rule on the miners m *)
(* of the blocks above the origin.  The last final block moves to a block  *)
(* when the miners seen since the former one, which its own successor does *)
(* not count among, mined more than half of the window that ends there.    *)
(***************************************************************************)
MinerAt(m, h) == IF h > 0 THEN m[h] ELSE Recent[Len(Recent) + h]

IsDiverse(m) == \E h \in Len(m) - 3 .. Len(m) - 1 : MinerAt(m, h) # MinerAt(m, Len(m))

Support(m, p, n) ==
    Cardinality({i \in p - WindowSize + 1 .. p :
                    \E j \in p + 2 .. n : MinerAt(m, i) = MinerAt(m, j)})

LastFinal(m) ==
    LET final[n \in 0 .. Len(m)] ==
            IF n = 0 THEN Final0
            ELSE IF Support(m, final[n - 1], n) > WindowSize \div 2 THEN n ELSE final[n - 1]
    IN  final[Len(m)]

InFinalWindow(m) == LastFinal(m) + WindowSize - WindowSize \div 10 >= Len(m)

Permitted == {m \in BoundedSeq(Miners, MaxHeight + 1) : IsDiverse(m) /\ InFinalWindow(m)}

MayBeMined(b) == [i \in DOMAIN b |-> b[i].miner] \in Permitted

(* Enum.sort by ascending key; which of several equals comes first is open.  *)
SortedBy(S, key) ==
    CHOOSE s \in [1 .. Cardinality(S) -> S] :
        \A i, j \in DOMAIN s : i < j => s[i] # s[j] /\ key[s[i]] <= key[s[j]]

(* Pool.proposal sorts by ascending price before it takes, and what it      *)
(* takes by nonce; update_parent filters it by the fee.                     *)
Taken == LET byPrice == SortedBy(pool, Price)
         IN  {byPrice[i] : i \in {j \in DOMAIN byPrice : j <= Limit}}
Proposal == SortedBy(Taken, Nonce)

PaysFee(t) == Price[t] >= MinFee
PayingProposal == SortedBy({t \in Taken : PaysFee(t)}, Nonce)

(* Bodies a valid block of a peer on b may have.                            *)
Bodies(b) == {<<>>} \cup {<<t>> : t \in {u \in Txs : PaysFee(u) /\ Nonce[u] = NonceAt(b)}}

(* append_transaction over the proposal: a transaction executes at exactly  *)
(* its nonce; wrong_nonce is one that is already spent.                     *)
Applied(b, txs) ==
    FoldLeft(LAMBDA acc, t : IF Nonce[t] = NonceAt(b) + Len(acc) THEN Append(acc, t) ELSE acc,
             <<>>, txs)
Spent(b, txs) ==
    {txs[i] : i \in {j \in DOMAIN txs :
        Nonce[txs[j]] < NonceAt(b) + Len(Applied(b, SubSeq(txs, 1, j - 1)))}}

-----------------------------------------------------------------------------
(* activate_timer, as the state it returns and the message it sends.        *)

BadSchedulesPolling(s) == ~s.working /\ s.mode # "disabled"

Schedules(s) ==
    /\ ~s.working
    /\ s.mode # "disabled"
    /\ ~(s.mode = "poll" /\ s.proposal = <<>>)

Activated(s) == [s EXCEPT !.working = s.working \/ Schedules(s)]
Sent(s) == IF Schedules(s) THEN <<"work">> ELSE <<>>

Refreshed(s) == [s EXCEPT !.parent = seen, !.proposal = PayingProposal]

(* do_update.                                                               *)
Updated(s) ==
    IF Refreshed(s) = s THEN s
    ELSE [Activated(Refreshed(s)) EXCEPT !.candidate = NoBlock]
UpdateSends(s) == IF Refreshed(s) = s THEN <<>> ELSE Sent(Refreshed(s))

Fresh == [mode |-> InitialMode, parent |-> NoBlock, proposal |-> <<>>,
          candidate |-> NoBlock, working |-> FALSE]

Init ==
    /\ chain = <<>>
    /\ forks = 0
    /\ pool = {}
    /\ due = FALSE
    /\ w = Activated(Fresh)
    /\ mailbox = Sent(Fresh)
    /\ task = "none" /\ pc = "receive" /\ seen = NoBlock
    /\ past = {"disabled"} \cap {InitialMode}
    /\ events = 0

-----------------------------------------------------------------------------
(* The worker's handlers.                                                  *)

Event == events < MaxEvents /\ events' = events + 1

Receive(m) ==
    /\ pc = "receive"
    /\ mailbox # <<>>
    /\ Head(mailbox) = m
    /\ mailbox' = Tail(mailbox)

(* The read of Chain.peak_block in update_parent.                           *)
ReadPeak(t) == task' = t /\ pc' = "pool" /\ seen' = chain

HandleSetMode ==
    \E m \in AllModes :
        /\ Receive(m)
        /\ w' = [w EXCEPT !.mode = m, !.parent = NoBlock]
        /\ past' = past \cup ({"disabled"} \cap {m})
        /\ UNCHANGED <<world, control, events>>

HandleUpdate ==
    /\ Receive("update")
    /\ ReadPeak("update")
    /\ UNCHANGED <<world, w, rest>>

(* work() in dev mode.                                                      *)
HandleUpdateWork ==
    /\ Receive("update_work")
    /\ w' = [w EXCEPT !.working = TRUE]
    /\ ReadPeak("update_work")
    /\ UNCHANGED <<world, rest>>

HandleWorkDisabled ==
    /\ Receive("work")
    /\ w.mode = "disabled"
    /\ past' = past \cup {"skipped"}
    /\ UNCHANGED <<world, w, control, events>>

BadHandleGenerateNoParent(t) ==
    /\ Receive(t)
    /\ t = "work" => w.mode # "disabled"
    /\ task' = t /\ pc' = "build"
    /\ UNCHANGED <<world, w, seen, rest>>

(* generate_candidate reads the peak only when the parent was forgotten.    *)
HandleGenerate(t) ==
    /\ Receive(t)
    /\ t = "work" => w.mode # "disabled"
    /\ IF w.parent = NoBlock
       THEN ReadPeak(t)
       ELSE task' = t /\ pc' = "build" /\ UNCHANGED seen
    /\ past' = IF t = "candidate" /\ ~w.working THEN past \cup {"asked"} ELSE past
    /\ UNCHANGED <<world, w, events>>

Done == task' = "none" /\ pc' = "receive" /\ seen' = NoBlock

(* The rest of update_parent: Chain.Pool.proposal, and what follows it.     *)
ReadPoolToUpdate ==
    /\ pc = "pool"
    /\ task \in {"update", "update_work"}
    /\ w' = Updated(w)
    /\ mailbox' = mailbox \o UpdateSends(w)
    /\ IF task = "update_work" /\ w.mode # "disabled"
       THEN pc' = "build" /\ seen' = NoBlock /\ UNCHANGED task
       ELSE Done
    /\ past' = IF task = "update_work" /\ w.mode = "disabled" THEN past \cup {"skipped"} ELSE past
    /\ UNCHANGED <<world, events>>

ReadPoolToBuild ==
    /\ pc = "pool"
    /\ task \in {"work", "candidate"}
    /\ w' = Refreshed(w)
    /\ pc' = "build" /\ seen' = NoBlock
    /\ UNCHANGED <<world, mailbox, task, rest>>

ReadPoolAfterBlock ==
    /\ pc = "pool"
    /\ task = "added"
    /\ w' = Activated(Updated(w))
    /\ mailbox' = mailbox \o UpdateSends(w) \o Sent(Updated(w))
    /\ Done
    /\ UNCHANGED <<world, rest>>

AfterBuild == IF task = "candidate" THEN Done ELSE pc' = "mine" /\ UNCHANGED <<task, seen>>

HasFreshCandidate == w.candidate # NoBlock /\ w.candidate.fresh

KeepCandidate ==
    /\ pc = "build"
    /\ HasFreshCandidate
    /\ AfterBuild
    /\ UNCHANGED <<world, mailbox, w, rest>>

(* The proposal kept afterwards is the pool's, not filtered by the fee.     *)
BuildCandidate ==
    /\ pc = "build"
    /\ ~HasFreshCandidate
    /\ pool' = pool \ Spent(w.parent, w.proposal)
    /\ w' = [w EXCEPT !.candidate = [parent |-> w.parent, fresh |-> TRUE,
                                     txs |-> Applied(w.parent, w.proposal)],
                      !.proposal = Proposal']
    /\ AfterBuild
    /\ UNCHANGED <<chain, forks, due, mailbox, rest>>

BadGiveUpStillWorking(s) ==
    /\ w' = Activated(s)
    /\ mailbox' = mailbox \o Sent(s)
    /\ Done

(* The end of do_work without an accepted block.                            *)
GiveUp(s) ==
    /\ w' = Activated([s EXCEPT !.working = FALSE])
    /\ mailbox' = mailbox \o Sent([s EXCEPT !.working = FALSE])
    /\ Done

Forgotten == [w EXCEPT !.parent = NoBlock, !.candidate = NoBlock]

MissTarget ==
    /\ pc = "mine"
    /\ GiveUp(w)
    /\ UNCHANGED <<world, rest>>

(* Block.valid?: what a candidate of build_block can be refused for.        *)
OwnOn(b, txs, f) == Append(b, MinedBy(Self, txs, f))

BlockIsValid ==
    /\ \A i \in DOMAIN w.candidate.txs : PaysFee(w.candidate.txs[i])
    /\ MayBeMined(OwnOn(w.candidate.parent, w.candidate.txs, forks))

BadFindInvalidKept ==
    /\ pc = "mine"
    /\ ~BlockIsValid
    /\ GiveUp(w)
    /\ UNCHANGED <<world, rest>>

FindInvalid ==
    /\ pc = "mine"
    /\ ~BlockIsValid
    /\ GiveUp(Forgotten)
    /\ UNCHANGED <<world, rest>>

FindValid ==
    /\ pc = "mine"
    /\ BlockIsValid
    /\ Len(w.candidate.parent) < MaxHeight
    /\ pc' = "submit"
    /\ UNCHANGED <<world, mailbox, w, task, seen, rest>>

Answered ==
    /\ w' = [w EXCEPT !.working = FALSE]
    /\ pc' = "added"
    /\ UNCHANGED <<mailbox, task, seen>>

(* What add_block does after its block became the peak: only the block's    *)
(* own transactions leave the pool, and the worker is due an update.        *)
Added ==
    /\ pool' = pool \ ToSet(w.candidate.txs)
    /\ due' = TRUE
    /\ Answered

BadBlockAddedAnywhere ==
    /\ pc = "submit"
    /\ chain' = OwnOn(chain, w.candidate.txs, forks)
    /\ Added
    /\ UNCHANGED <<forks, rest>>

(* Chain.add_block extends the peak; do_update then reads the new one.      *)
BlockAdded ==
    /\ pc = "submit"
    /\ chain = w.candidate.parent
    /\ chain' = OwnOn(chain, w.candidate.txs, forks)
    /\ Added
    /\ UNCHANGED <<forks, rest>>

(* The peak moved since, but the own block outweighs it: the main chain is  *)
(* replaced by the branch it was built on.                                  *)
BlockReorganises ==
    /\ pc = "submit"
    /\ chain # w.candidate.parent
    /\ Event
    /\ forks' = forks + 1
    /\ chain' = OwnOn(w.candidate.parent, w.candidate.txs, forks')
    /\ Added
    /\ UNCHANGED past

(* While Chain fills its cache block_by_hash? finds every block: add_block  *)
(* answers :added and does nothing.                                         *)
BlockTakenForKnown ==
    /\ pc = "submit"
    /\ Event
    /\ Answered
    /\ UNCHANGED <<world, past>>

(* It does not: Chain keeps it as a side branch, and the worker starts over. *)
BlockStored ==
    /\ pc = "submit"
    /\ chain # w.candidate.parent
    /\ GiveUp(Forgotten)
    /\ UNCHANGED <<world, rest>>

ReadNewPeak ==
    /\ pc = "added"
    /\ ReadPeak("added")
    /\ UNCHANGED <<world, mailbox, w, rest>>

Step ==
    \/ HandleSetMode
    \/ HandleUpdate
    \/ HandleUpdateWork
    \/ HandleWorkDisabled
    \/ \E t \in {"work", "candidate"} : HandleGenerate(t)
    \/ ReadPoolToUpdate
    \/ ReadPoolToBuild
    \/ ReadPoolAfterBlock
    \/ KeepCandidate
    \/ BuildCandidate
    \/ MissTarget
    \/ FindInvalid
    \/ FindValid
    \/ BlockAdded
    \/ BlockReorganises
    \/ BlockTakenForKnown
    \/ BlockStored
    \/ ReadNewPeak

-----------------------------------------------------------------------------
(* Everybody else.                                                         *)

(* Pool.add_transaction, by RPC or from a peer.                             *)
AddTransaction(t) ==
    /\ pool' = pool \cup {t}
    /\ due' = TRUE
    /\ UNCHANGED <<chain, forks, mailbox, w, control, rest>>

(* Worker.update: Debouncer.immediate collapses the calls of its interval   *)
(* into one cast, and the interval is longer than the cast takes (bound).   *)
DeliverUpdate ==
    /\ due
    /\ "update" \notin ToSet(mailbox)
    /\ due' = FALSE
    /\ mailbox' = Append(mailbox, "update")
    /\ UNCHANGED <<chain, forks, pool, w, control, rest>>

(* Chain.add_block of a peer's block; after a reorganisation only the       *)
(* transactions of the tip leave the pool.                                  *)
PeerExtends(txs, m) ==
    /\ Len(chain) < MaxHeight
    /\ chain' = Append(chain, MinedBy(m, txs, forks))
    /\ MayBeMined(chain')
    /\ pool' = pool \ ToSet(txs)
    /\ due' = TRUE
    /\ UNCHANGED <<forks, mailbox, w, control, rest>>

PeerReorganises(txs, m) ==
    /\ chain # <<>>
    /\ Len(chain) < MaxHeight
    /\ Event
    /\ forks' = forks + 1
    /\ LET side == Append(Front(chain), MinedBy(m, <<>>, forks'))
       IN  /\ txs \in Bodies(side)
           /\ chain' = Append(side, MinedBy(m, txs, forks'))
           /\ MayBeMined(side) /\ MayBeMined(chain')
    /\ pool' = pool \ ToSet(txs)
    /\ due' = TRUE
    /\ UNCHANGED <<mailbox, w, control, past>>

(* set_mode, work() in dev mode, and candidate().                           *)
Call(m) ==
    /\ Event
    /\ mailbox' = Append(mailbox, m)
    /\ UNCHANGED <<world, w, control, past>>

CandidateAges ==
    /\ HasFreshCandidate
    /\ w' = [w EXCEPT !.candidate.fresh = FALSE]
    /\ UNCHANGED <<world, mailbox, control, rest>>

(* A call of Chain or Pool times out: the supervisor starts a new worker.   *)
Restart ==
    /\ Event
    /\ pc \in {"pool", "build", "submit", "added"}
    /\ w' = Activated(Fresh)
    /\ mailbox' = Sent(Fresh)
    /\ Done
    /\ past' = ({"disabled"} \cap {InitialMode}) \cup (IF Schedules(Fresh) THEN {} ELSE {"restarted"})
    /\ UNCHANGED world

Next ==
    \/ Step
    \/ \E t \in Txs : AddTransaction(t)
    \/ DeliverUpdate
    \/ \E txs \in Bodies(chain), m \in Peers : PeerExtends(txs, m)
    \/ \E txs \in {<<>>} \cup {<<t>> : t \in Txs}, m \in Peers : PeerReorganises(txs, m)
    \/ \E m \in Modes \cup {"update_work", "candidate"} : Call(m)
    \/ CandidateAges
    \/ Restart

(* The worker is scheduled and its timers expire; each hundred nonces find  *)
(* a block with a positive probability, so not for ever none.               *)
Fairness ==
    /\ WF_vars(Step)
    /\ WF_vars(DeliverUpdate)
    /\ WF_vars(CandidateAges)
    /\ SF_vars(FindValid)
    /\ SF_vars(FindInvalid)

Spec == Init /\ [][Next]_vars /\ Fairness

-----------------------------------------------------------------------------
(* Properties.                                                             *)

IsBlock(b) ==
    /\ Len(b) \in 0 .. MaxHeight
    /\ \A i \in DOMAIN b : ToSet(b[i].txs) \subseteq Txs

Past == {"restarted", "disabled", "skipped", "asked"}

(* The worker's state, the message it handles and what it has read.         *)
TypeOK ==
    /\ IsBlock(chain)
    /\ pool \subseteq Txs
    /\ due \in BOOLEAN
    /\ ToSet(mailbox) \subseteq AllModes \cup {"work", "update", "update_work", "candidate"}
    /\ w.mode \in AllModes /\ w.working \in BOOLEAN /\ past \subseteq Past
    /\ w.parent # NoBlock => IsBlock(w.parent)
    /\ ToSet(w.proposal) \subseteq Txs
    /\ w.candidate # NoBlock =>
           /\ IsBlock(w.candidate.parent)
           /\ ToSet(w.candidate.txs) \subseteq Txs
           /\ w.candidate.fresh \in BOOLEAN
    /\ pc \in {"build", "mine", "submit"} => w.parent # NoBlock
    /\ pc \in {"mine", "submit"} => w.candidate # NoBlock
    /\ pc = "pool" => IsBlock(seen)

(* working is the promise that a :work message is on its way or being       *)
(* handled; activate_timer sends none while it is set, so a worker that     *)
(* keeps the promise without the message never mines again.  It is broken   *)
(* only where do_work drops the message for :disabled: see MiningResumes.   *)
WorkIsScheduled ==
    w.working /\ "skipped" \notin past =>
        \/ "work" \in ToSet(mailbox)
        \/ task \in {"work", "update_work"}

(* Every transaction of the main chain runs at its nonce, also when the     *)
(* peak moved or was reorganised while the worker built and mined, and when *)
(* the worker's late block then brings a former branch back.                *)
LedgerIsSequential ==
    LET txs == Executed(chain) IN \A i \in DOMAIN txs : Nonce[txs[i]] = i - 1

(* A pooled transaction that pays the fee and can run on the peak does not  *)
(* stay in the pool for ever while this node may mine the next block.  Left *)
(* out are a worker that was disabled and has no message (MiningResumes), a *)
(* polling one that was restarted and waits for the next update, and one    *)
(* asked for a candidate at rest, which has read the pool without           *)
(* scheduling work, so that do_update finds nothing new.                    *)
ExecutableIsMined ==
    \A t \in Txs :
        ~<>[](/\ t \in pool /\ PaysFee(t) /\ Nonce[t] = NonceAt(chain)
              /\ Len(chain) < MaxHeight /\ MayBeMined(OwnOn(chain, <<t>>, forks))
              /\ past = {})

(* A polling worker comes to rest when the pool stays empty.                *)
PollingRests ==
    <>[](w.mode = "poll" /\ "skipped" \notin past /\ pool = {}) => <>[](~w.working)

(***************************************************************************)
(* The inductive invariant behind WorkIsScheduled: a worker that does not   *)
(* handle a message has no task that could keep the promise, and one whose  *)
(* block was added has made none.                                           *)
(***************************************************************************)
Messages == AllModes \cup {"work", "update", "update_work", "candidate"}
Fields(s) == [mode |-> s.mode, parent |-> s.parent, proposal |-> s.proposal,
              candidate |-> s.candidate, working |-> s.working]

ScheduleOK ==
    /\ w = Fields(w) /\ w.mode \in AllModes /\ w.working \in BOOLEAN
    /\ mailbox \in Seq(Messages)
    /\ pc = "receive" => task = "none"
    /\ pc = "added" \/ task = "added" => ~w.working
    /\ WorkIsScheduled

(***************************************************************************)
(* The inductive invariant behind LedgerIsSequential and TypeOK: the        *)
(* candidate carries the block it was built on, and its transactions go on  *)
(* from there, whatever the worker's parent and the peak are by now.  That  *)
(* block, and every other the worker has read, is a ledger as good as the   *)
(* peak: its late block may make it part of the main chain again.           *)
(***************************************************************************)
Runs(txs, n) == \A i \in DOMAIN txs : Nonce[txs[i]] = n + i - 1
IsChain(b) == b \in Seq(Block) /\ Len(b) <= MaxHeight
IsLedger(b) == IsChain(b) /\ Runs(Executed(b), 0)
CandidateOK(c) ==
    /\ c \in Candidate
    /\ IsLedger(c.parent)
    /\ Runs(c.txs, NonceAt(c.parent))

WorldOK ==
    /\ IsLedger(chain) /\ forks \in Nat
    /\ pool \subseteq Txs /\ IsFiniteSet(pool) /\ due \in BOOLEAN
    /\ past \subseteq Past

StateOK(s) ==
    /\ s.proposal \in Seq(Txs)
    /\ s.parent # NoBlock => IsLedger(s.parent)
    /\ s.candidate # NoBlock => CandidateOK(s.candidate)

PlaceOK ==
    /\ pc \in {"build", "mine", "submit"} => w.parent # NoBlock
    /\ pc \in {"mine", "submit"} => w.candidate # NoBlock
    /\ pc = "submit" => Len(w.candidate.parent) < MaxHeight
    /\ pc = "pool" => IsLedger(seen)

LedgerOK == ScheduleOK /\ WorldOK /\ StateOK(w) /\ PlaceOK

(* A claim of the repository that the code does not keep: README.md says    *)
(* that WORKER_MODE controls how much the node mines, and eth_mining of     *)
(* rpc.ex answers true for every mode but :disabled.  A :work message that  *)
(* arrives while the mode is :disabled is dropped with working still set,   *)
(* and no update schedules another one once the mode is set back.           *)
MiningResumes ==
    <>[](w.mode = "run") /\ []<>(task = "update") => []<>(pc = "mine")

==============================================================================
