# A verification of the Diode server

This directory holds TLA+ models of the Diode server (an Elixir blockchain node and traffic
relay) and of the EVM processes it drives (`src/evm`, C++), TLC configurations that check them on
small instances, and TLAPS proofs of what holds for every instance. The models are written from the
code under `src/lib` and `src/evm`; a comment in front of
every action names the function it stands for, and `PROJECT.json` maps definitions to line ranges.

## 1. The system

The node is a supervision tree (`Diode.Supervisor`, one_for_one) of GenServers: Stats, Model.Sql
and the SQL servers, Channels, PubSub, Chain.BlockCache, Chain, Chain.Pool, Chain.Worker,
TicketStore, Network.Server (one for peers, one or more for edge devices), Kademlia and Stages.
They talk by calls and casts, share ETS tables (read by everybody, written by several), and share
SQLite databases. Anything a GenServer does is one message at a time, but callers read ETS in
their own process, connections run their requests in spawned tasks, and timers (Debouncer,
`send_after`, call timeouts) fire in between. That is where the interesting behaviours are.

| Component | State it keeps | Operations | Hard behaviours | What makes it correct |
|---|---|---|---|---|
| Chain store (`chain.ex`, `model/chainsql.ex`) | SQL table `blocks` (row, main chain number, state delta), ETS cache hash/number, peak in memory, `placeholder_complete` | `add_block`, `block`, `block_by_hash(?)`, `init`, `ets_prefetch` | callers look into the cache before they call; the preloading process writes it beside the server; SQL commits before memory follows; a restart deletes side branches | the numbered rows are one branch, the heaviest; cache and peak agree with the rows; main chain states stay readable |
| Ticket store (`ticketstore.ex`, `model/ticketsql.ex`) | ETS in front of SQL table `tickets`, delayed flushes in the Debouncer | `add`, `find`, `put_ticket`, flush | several connections of a device; flush and newer ticket; reorganisation under a signed hash; crash | an accepted ticket is found and the last one is not lost; a ticket counts once |
| Miner (`chain/worker.ex`) | parent, proposal, candidate, mode, `working` | `work`, `update`, `candidate`, `set_mode` | the peak moves during any call; the `:work` message must neither be lost nor multiplied; a late own block may bring a former branch back; diversity and the final window | it keeps mining, its block fits the branch it was built on, it mines what it may mine |
| Transaction pool (`chain/pool.ex`) | map of transactions | `add_transaction`, `remove_transactions`, `proposal` | reorganisations, limits | nonce order, best prices first |
| Edge connections (`network/edge_v2.ex`) | ports with clients and monitors, unpaid bytes, pending packets | `portopen`, `portsend`, `portclose`, `ticket`, and queries | two servers, their tasks, two devices, a 15 s timeout and lost connections | the asked end knows when the opener's is gone; losses are noticed; no data before the device's answer; every request is answered |
| Channels (`network/channel.ex`, `channels.ex`) | ports of a hosted channel, mailbox of undelivered data | `portopen`, `portsend`, `portclose` | clients come and go | mailbox data is delivered, ports are removed |
| Peer handler (`network/peerhandler.ex`), sync table (`model/syncsql.ex`) | request queue, wanted block range, import job | `rpc`, `publish`, `handle_block`, `sync_done` | new blocks while an import runs; late answers | the range closes, the import ends, answers go to their caller |
| Connection server (`network/server.ex`, `handler.ex`) | connections by process and by node id | `ensure_node_connection`, `register`, EXIT | double connections, exits in any order | a node id maps to a living connection |
| Kademlia (`kademlia.ex`, `kademliasearch.ex`, `kbuckets.ex`) | routing table, search state | `find_value`, `store`, redistribution | workers that crash or answer late | a search ends; buckets keep their bound |
| Block rules (`chain/block.ex`, `blockcache.ex`) | memoised difficulty, finality and window | `validate`, `last_final`, `is_diverse?` | memoised values along competing branches | finality does not move back |
| Caches (`lru.ex`, `etslru.ex`, `processlru.ex`) | bounded map with an eviction counter | `put`, `get`, `fetch` | concurrent puts | the bound holds, no put fails |
| Stages (`stages.ex`) | stage and ticks | `:tick` | connections drop while counting | clients are let in after synchronisation only |
| EVM host (`evm.ex`, `src/evm/main.cpp`, `host.cpp`, `host.hpp`) | a stack of running messages, each with its accounts and its C++ process; in each process a storage cache, the writes not reported yet and the hash tables of both; the pool of ports | `eval`, the requests `gs ae gb gc gd cc gh su ca sd lo ok` and their answers, 5 s timeout | an account is written by a message that its suspended caller has cached; processes that crash or hang while others wait; a table that grows | a slot read is the slot last written; a failed message leaves nothing; answers meet their requests; every evaluation ends |
| EVM interpreter (`src/evm/libaleth-interpreter`, `libevm`, `evmc/instruction_metrics.c`) | code and jump table, program counter, stack, memory, gas, return data | one handler per instruction | bounds from one table, code from another; sizes and gas at their limits; code that ends inside an instruction | nothing is read outside code, stack and memory; no program runs for nothing |
| EVM arithmetic and hashing (`src/evm/intx`, `src/evm/ethash`) | none | 128/256/512 bit arithmetic, keccak256 | estimated quotient digits; padding at the edge of a word or a block | the result is exact |
| Pure parts | none | RLP, ABI, Merkle trees, objects, wallet, precompiles | none | functions on bytes |

`PROJECT.json` lists all of them with their status, and under `hazards` each place in the code where
an interleaving, a crash, a late message or a bound can bite, with the properties that guard it.

## 2. The modules

* `BlockTree`: the blocks that may ever exist, as constants (parent, number, total difficulty) and
  the least branch `Lineage[b]` that reaches genesis. Its assumption states what `Block.validate`
  enforces: a child is one higher and heavier than its parent.
* `ForkChoice`: the abstract specification of the chain store. A set of known blocks and a head that
  is the heaviest of them. A block is accepted also when its parent has been forgotten, but becomes the head
  only if all it is built on is known; the only thing that may be forgotten are the side branches.
* `ChainStore`: the GenServer `Chain`, its table, its ETS cache and the preloading process.
  `stored`, `norm` and `base` are the columns of table `blocks`; `ets.hash` and `ets.index` the two
  kinds of cache keys; `job` is the call being handled after its SQL commit, so that a crash can fall
  between the commit and the update of the cache. `Submit` is `add_block` up to the GenServer call. The parent is not looked up there: the caller
  read it when it validated the block (`ReadParent`), and its row may be gone since a restart.
  `CommitAlt/CommitExtension/CommitReorg` are the three branches of the handler, `ReorgFails` the third when
  the walk of `set_normative` meets the gap (the match on `{:ok, result}` fails and ends the GenServer), `RefetchBlock` one round
  of `ets_refetch`, `ReadPage .. AddTop` the rounds of `ets_prefetch`, `Restart` a crash and `init`.
* `TicketStore`: the tickets of one device and fleet. `Submit, FindEts, FindSql, Accept, TooLow, Put`
  are the steps of `handle_ticket` and `add`, each between two accesses to shared tables;
  `Fire, FlushWrite, FlushRemove` are the delayed flush; `Reorganise` makes signed hashes unknown.
* `Worker`: the miner and the pool. `w` is the worker's state; a handler is cut at each call it makes
  to Chain or Pool (`ReadPeak`, `ReadPool...`, `BuildCandidate`, and the four answers of `add_block`: the block
  extends the peak (`BlockAdded`), outweighs a peak that moved and brings its branch back (`BlockReorganises`),
  is taken for known while Chain preloads (`BlockTakenForKnown`) or becomes a side block (`BlockStored`)), and peers,
  users, operators and timers act in between. A block knows who mined it: `MayBeMined` is the
  diversity rule and the final window of `Block.validate`.
* `EdgePorts`: the ports of edge connections. `inbox` is the mailbox of a connection's server; `ports`
  and `monitors` are its tables; `attempt` is the task that runs `do_portopen`, with the arguments it
  was given; `jobs` are the tasks of device messages that have not called their server back; `device`
  is what the device has been told. There is one action per handler of the server, one per step of
  the task and one per thing a device may send. `HandlerCrashes` is a `case` or a match without a
  fitting clause: the server dies as it would.
* `EvmHost`: an evaluation. `frames` is the stack of `%Evm{}` records the Elixir process keeps, the
  innermost last; `mailbox` is what the ports have sent it, `toVm` the pipes in the other direction and
  `vm` the C++ processes: what they wait for, cache and writes. `ReadContext, ReadSeed, ReadRun` are the
  three commands of `main`, `LoadSlot/Ask/ReadValue/StoreSlot/Query/EmitLog/Call/ReadResult` the methods
  of `Host` (each cut where it waits for an answer), `Finish` the end of the command `r`; `AnswerRead` to
  `TakeOk` are the clauses of `process_data`, `Timeout` the `after` of `loop`, and `Die` what a crash of the
  Elixir process does. Code may take any step that `Does` allows its account, in any order.
* `HostMap`: the open-addressing hash table `Map` of `host.hpp`, with its growth and its probing.
* `EvmJournal`: the abstract specification of an evaluation: a stack of journals, each opened on what the
  message below it sees, merged into it or dropped as a whole.
* `EvmVm`: the interpreter, from `exec` to the result of `execute`. One instruction is one step; each group
  of handlers is an action (`Compute`, `Query`, `Push`, `Dup`, `Swap`, `Jump`, `Create`, `Call`, `Halt`, ...),
  and each way to fail one (`throwOutOfGas`, `throwBadStack`, ...), in the order the handler tests for it.
* `EvmOpcodes`: the tables. `Instruction` (the bytes), `MetricsTable` (gas and stack per revision, six tables
  of 256 rows), `jumpTable` (which handler runs) and what the handlers themselves refuse and read.
* `EvmWords`: intx from the 64-bit limb up: add with carry, multiplication by parts, shifts, reciprocals,
  division by one, two or more limbs with Knuth's algorithm, signed division, `addmod`, `mulmod`.
* `EvmHash`: `keccak` with its unrolled rounds; a 64-bit lane is the set of its bits.
* `ChainStore_proofs`, `TicketStore_proofs`, `Worker_proofs`, `EdgePorts_proofs`, `HostMap_proofs`,
  `EvmHost_proofs`, `EvmVm_proofs`: the theorems.
* `FoldLemmas`: what `FoldLeft` computes, one element after the other, and the induction over naturals that
  the proofs of the worker and of the EVM need for folds and sorted sequences.
* `MC...`: the instances for TLC.

Composition: `ChainStore` implements `ForkChoice` (INSTANCE with `known <- stored`, `head` the
tip of the numbered rows). `EvmHost` implements `EvmJournal`
(INSTANCE with `stack` the accounts as each running message sees them: its record with what its C++
process has written and not reported). `EvmVm` computes with `EvmWords`, hashes with `EvmHash` and is
steered by `EvmOpcodes`. `Worker` uses the promise of `ForkChoice` in place of the chain store: the peak is
extended or replaced by a heavier branch. It does not instantiate it, because the worker tells branches
apart only by their transactions. `TicketStore` sees the chain only as an epoch and as the fact that
signed hashes stop being known.

## 3. What is abstracted

Blocks, tickets and transactions are model values or small records. Signatures, hashes and encodings
are left out except for what depends on them: a ticket signed on an abandoned branch recovers to
another device (`Recovers`). An SQL transaction is one step (SQLite serialises them); power loss below
SQLite is not modelled.

* Chain store. `Chain.Lru` and `ProcessLru` in front of it are left out, as are `set_state`,
  `reset_state` (tests and a development RPC), `set_peak` (no caller), the `transactions` table, `import`
  and the test net's extra row. Total difficulties are constants of the tree. In the code `BlockCache` computes
  them from the parent; asked about a block whose parent is gone it remembers the least difficulty for
  it, which the model does not have.
* Ticket store. One device and fleet; the credit in bytes is not modelled. A lookup is two steps, ETS
  and SQL, as in the code. The Debouncer is external: `delay` replaces what is pending under a key,
  and it runs one function at a time.
* Worker. One sending account. The block reward transaction is left out (and with it `registry_tx`), the minimum fee is
  constant, and a mining round either finds a block or not. Of `Block.validate` the fee, the diversity and the
  final window are modelled; number, hashes, simulation and state of an own block agree by construction. The
  origin stands for a block above number 100, where the window is that of the real predecessors (`Recent`); the
  window is a constant, 100 in the code. Which of two branches is heavier is left open. `Debouncer.immediate` collapses calls, so
  at most one update waits. `SortedBy` is `Enum.sort`: which of two equal prices comes first is some
  fixed choice (the code's order is that of the map's keys).
* Edge ports. What a server sends is seen by its device at once; what a device sends waits in the
  mailbox. All ports carry one port name, so that sharing happens. A lost connection stays lost: a
  device that returns is a new connection. A stop is `:normal`, which linked tasks survive, and a crash is
  not. `Process.demonitor` of a failed open has no effect, since the task that calls it does not own the
  monitor; the model leaves that monitor in place. The payment throttle (`unpaid_bytes`,
  `pending_packets`, tickets) and the queries are not part of this module.
* EVM host. The code of contracts is any sequence of steps out of a small set, with a budget in place of
  gas; `TakeOk` therefore chooses whether the transaction could pay. The read-only queries are one kind, of
  which one (`EXTCODECOPY` from beyond the end) makes `binary_part` raise. A log is its number of topics,
  because `LOG0` raises (`for i <- 1..count`). A precompile has no effect but that of its call.
  `allow_contract_override` is false on the main net. Evaluations with `static: true`, which only the development
  shell makes and whose `su` is ignored (`evm.ex:561`), are not modelled. Nested results lose their logs in the code, and no
  part of the model reads logs. The numbers of `host.hpp`'s table (100, 6, 4, 1051) are constants, so that a
  small table grows; `Targets` are the sizes it is asked to have.
* Interpreter. A word has 8 bits in four limbs of 2 (in place of 256 in four of 64) and 4 bytes, so that every
  carry, borrow, correction and sign can be enumerated; gas costs, the stack bounds of the tables and 32-byte
  memory words are those of the code, `stackLimit`, `quadCoeffDiv` and the largest size are constants. What the
  host answers or memory holds is any of `Inputs`. `main.cpp` starts every message with depth 0 and no
  flags, so the depth limit and static mode never apply and are left out. The first pass of the optimiser, the
  constant pool and the subroutine instructions are not compiled in; the dispatch is by jump table (GCC).
  A step that reads behind the copied code keeps the last row; `CodeIsReadInside` says that never happens.
  The host gives back between none and all of the gas of a call (`Leftovers`): the gas part of `TypeOK` and
  `EveryStepCosts` rest on it, and what `evm.ex` charges a nested create on top is outside this module.
* Words. `reciprocal_2by1` is its contract, the rounded reciprocal: its table of 256 entries and its three
  refinements are for words of 64 bits only and are not checked. `umul` is the compiled one; the `constexpr` variants are
  the same algorithm.
* Hash. Lanes have their 64 bits; `Contents` is what memory holds where `SHA3` hashes it.

## 4. The runs

| Run | Instance | What it shows |
|---|---|---|
| `chain_store` | 7 blocks in three branches, state interval 3, cache of 2, pages of 2, one waiting call, one crash, then blocks whose parent row is gone | all safety properties of the store, refinement of `ForkChoice`, preloading ends |
| `chain_state` | the same | finding: a main chain state becomes unreadable |
| `chain_index` | the same | finding: `Chain.block(peak)` is not the peak |
| `tickets` | 2 connections, 3 submissions, 2 epochs, one reorganisation, one crash | no accepted ticket is invisible, the last is not lost and reaches SQL |
| `ticket_repeat` | one connection, no crash, no reorganisation | finding: a ticket is accepted twice |
| `worker` | 2 transactions (one pays too little), 3 miners, a window of 4, height 2, one disturbing event | the worker keeps its work message, the main chain's transactions run in order, it mines what it may, rests |
| `worker_mode` | one transaction, two events: the mode is changed and set back | finding: mining does not resume |
| `edge_ports` | 2 connections, 2 open attempts, one loss, devices that send when their mailbox is empty | the asked side's ends agree, losses are noticed, data comes after the device's answer, requests are answered, ended ports are forgotten |
| `edge_crash` | the same | finding: data right after an accept kills the connection |
| `evm_host` | two contracts with two slots, a creation, a precompile; 3 messages deep, 3 steps of code, 2 evaluations, tables that start with one free place | reads see the latest write, tables and pipes stay sound, the journal is implemented, evaluations end |
| `evm_delegate` | the same | finding: the value moves twice |
| `evm_vm` | all 256 bytes after four stacks with six amounts of gas, 24 x 24 operands for every computation, jumps, loops, full stacks, data of 0 to 144 bytes to hash | code, stack, memory and gas stay in bounds, tables agree, results and hashes are exact |

Why the bounds are enough for the questions asked:

* The block tree has a reorganisation at equal height, one to a shorter but heavier branch and
  one back to a branch replaced before; four heights pass the state interval and the eviction
  distance, so deltas, full states and placeholders all occur. Pages of two make preloading take
  several rounds while blocks arrive. One crash can fall between any two steps. It
  deletes side branches, after which blocks with a missing parent arrive, to be stored beside the main chain or, if heavier, to
  crash the store again, as often as they come.
* Three submissions are what it takes to have one ticket flushed, one stored meanwhile and one
  judged against both; a second connection gives the stale lookup; a second epoch a second key.
* One disturbing event in the worker (a reorganisation by a peer or by the own late block, an answer of a preloading
  Chain, a call, a mode change or a restart) can fall into each gap of each handler; blocks and transactions of
  others are not counted. The miners before the origin are chosen so that all verdicts occur: at the origin the node
  may mine, after its own block it may not for diversity, after a block of `p` it may because that block
  moves the last final one, after a block of `q` it may not because the window has been left.
* Two attempts in the edge model can share a port, go in opposite directions or be made to a port that
  is being closed. The device of the first connection asks for shared ports it may only write to, the
  device of the other for private ports it may only read from, so both rights are refused to someone.
* Three messages deep is what it takes for a contract to be called back while it is suspended, with another
  in between; three steps are a read that fills a cache, a nested write to the same slot and the read
  after it; the second evaluation runs on ports of the pool, also after one that died. Each table
  holds one entry before it grows, both keys start at the same place.
* With 8-bit words both operands of a division take all shapes (one to four limbs, quotient digits that are
  estimated one or two too high); `Samples` has the neighbours of every limb boundary and of the sign. A
  stack of 17 is as deep as `DUP16` and `SWAP16` need, and one short of what `PUSH` needs above it.

`CHECK_DEADLOCK FALSE` is used where the system may really stop: all submissions, blocks or
attempts are used up. In `chain_store` callers can always repeat a block, so deadlock is checked.

### Fairness

The Erlang runtime runs every process that has work: weak fairness of the handlers, the tasks and
the preloading process, and of `EvmStep`; the operating system runs the C++ processes: weak fairness of
`VmStep`. `EvaluationEnds` uses no fairness of `Timeout`: processes that do not hang end by themselves. Timers of the Debouncer and of a call expire: weak fairness of `Fire`,
`DeliverUpdate`, `CandidateAges` and `CallTimesOut`. Peers, users, devices and the network owe
nothing: no fairness. Only the worker needs strong fairness, of `FindValid` and `FindInvalid`: each
round of mining tries a hundred nonces with an independent, positive chance, so it does not fail for
ever although misses keep disabling the action in between.

### Properties worth a remark

* `BasesAreFull` says what `prepare_state` promises of a base: that it is a full state. Whether a base is still
  there when it is needed is another matter, see finding 1 (`chain_state`).
* `PreloadingEnds` is stated for the time after the last `ReorgFails`: a peer that keeps sending the heavier block
  of a cut branch crashes the store each time, and each time preloading starts again.
* `MainChainIsALineage` and `TipIsHeaviest` together say the numbers in the table are the result of
  fork choice alone; `PeakIsTheStoredTip` says that a restart reads back what the node believed.
* `PreloadedCacheIsComplete` and `AnsweredBlocksAreStored` hold only after preloading. Before that,
  `add_block` answers `:added` to any block and drops it; the model has that behaviour, and
  `PreloadingEnds` says that it passes.
* `AcceptedTicketIsFound` is stated for the time before a reorganisation below the signed hash, because
  the flush then files the row under a foreign address and drops the ETS entry.
* `WorkIsScheduled` ends where `do_work` drops the message for `:disabled` (`past`, a history variable):
  `worker_mode` shows what comes of it. `ExecutableIsMined` is stated while the node may mine the next
  block: a lone miner, or one that the final window has left behind, is refused by its own `Block.valid?` for as
  long as the others are silent. It leaves out three situations that the model reaches: mining was
  disabled; a polling worker has restarted and waits for the next update; and
  `candidate()` (the "pending" block of the RPC) at rest has stored the proposal without scheduling work, after
  which `do_update` sees nothing new.
* `LedgerIsSequential` is about the branch the worker's block was built on, not about the peak: a late block
  that outweighs the peak replaces it (`BlockReorganises`), and what it carries must follow on its own branch.
* `CacheIsCurrent` is not about one process: the cache of a suspended contract survives the messages it waits
  for. It holds because the answer to a call carries all slots of the account anew (`cache_account`) or
  clears the cache.
* `PipesAreInStep` includes `PoolIsAtRest`: a port goes back to the pool only when nothing is left in either
  direction, because nothing in the protocol would tell an old answer from a new one.
* `ResultIsExact` and `HashIsKeccak` compare with a definition that shares nothing with the code: numbers
  modulo a power of two, and Keccak's five steps with offsets and round constants derived from their
  recurrences instead of tables.
* `EveryStepCosts` is what makes an evaluation finite. The stipend of a call is added after the gas was paid
  and comes back with what is left of it; the charge for a value is larger.
* `EndsAgree` looks from the side that was asked, and `EndedPortIsForgotten` at what happens there once the opener's
  end is gone. Of the opener's own ports neither says anything, and they can be left without another end: a close or a `DOWN`
  that is handled before the opener's own `put` finds no client, and a client that joins a shared port while it is
  being closed is not told. Nothing in the repository promises otherwise, so it is recorded as a hazard and
  not as a finding.
* `DataIsInvited` relates what a server has forwarded to what the receiving device has said: the answer of the
  device, its task's call, the reply to the opener's task, its `put` and the first `portsend` are five steps of four
  processes. It is about the device that was asked. The opener's device can get data before its own `ok`.
* `EvaluationEnds` assumes that C++ processes go on (`VmStep`); that the 5 second timeout ends a hang is not
  credited to it. `LastTicketIsKept` is about the ticket stored last, which need not be the highest when two connections
  of a device overlap.

## 5. What is proved

For every block tree, state interval, cache size, page size and number of crashes
(`ChainStore_proofs`; the assumptions are `BlockTreeAssumption` and `ChainStoreAssumption`):

* `TypeCorrect`, `MainChainCorrect`, `ForkChoiceCorrect`, `PeakIsDurable`,
  `CacheCorrect`: the types, the main chain and its rows, the heaviest tip, the peak in
  memory between calls, and the backing of the cache;
* `DeltasEndAtAFullState`: no delta is taken against a delta;
* `PreloadedCacheKnowsEveryRow`, `AnswersAreBackedByRows`: once preloading says it is complete a miss in the
  cache means that there is no row, and "added" is answered of stored blocks only;
* `WeightIsMonotonic`: no step makes the durable chain lighter;
* `StoreImplementsForkChoice`: the initial states and steps of the store are those of `ForkChoice`.

The safety properties are not inductive: the peak lags behind the table from the commit of a call to
its answer. `IndInv` names the block that is the tip at every moment (`Tip`: the block of the job
while one is between commit and answer, else the peak) and says that the numbered rows are exactly its
lineage and all have rows, and that cache, index and preloading list name stored blocks only. That the numbered rows
are stored cannot be had from stored parents, since a stored block may lack its parent: it is kept step by step.
The one step that needs an argument is `CommitReorg`. `WalkRows` shows that the walk of `set_normative`, where it
ends, has met rows only, and `NormativeIsLineage` that `put_peak`, which stops renumbering at the first ancestor with
a number, still leaves precisely the new lineage, from facts on branches (lineages are closed,
ordered by number and share everything below a common block).

The cache needs what is still on its way into it (`PreloadOK`). Until preloading is complete nothing can be
committed, so the rows are those of the main chain; each of them is cached, or in the page being
written, or above the pages read so far. Afterwards each row is cached or belongs to the block of the
running call, whose entry is written between its commit and its answer, and a miss in `block_by_hash`
can be trusted. `BaseOK` reads the interval off the numbers: a base is at the start of an
interval, a block with a base is not.

For any number of connections, tickets, epochs, reorganisations and crashes (`TicketStore_proofs`,
from `TicketStoreAssumption`): `TicketTypeCorrect`, `LastTicketIsNeverLost` and
`AcceptedTicketStaysVisible`. The invariant adds that what is pending is what was delayed last, and so
is what is being written if nothing newer is pending (`FlowOK`), that no ticket is signed on a chain
still to come (`PastOK`), and that an ETS entry is only removed when there is a row (`RemovedOK`).

For any number of transactions, blocks, mode changes and restarts (`Worker_proofs`, from
`WorkerAssumption`): `PromisedWorkIsScheduled`, `TransactionsRunInOrder` and `TypesOfMining`.

* `ScheduleOK` adds to the promise of `working` what the record and the mailbox may hold, that the worker
  works for nobody while it waits, and that a worker whose block was added has made no promise (so the
  update that follows schedules anew).
* `LedgerOK` is the invariant behind the ledger's order. The worker's parent, the block its
  candidate was built on, the peak it has just read and the peak of now may all differ, and any of them may become part
  of the main chain again. So each of them is a ledger on its own (`IsLedger`: its nonces run from 0), and the candidate's
  transactions go on from the block stored in the candidate (`CandidateOK`). `BlockAdded` and `BlockReorganises` both
  append them there (`OwnExtends`), whether that block is the peak or replaces it; a peer's reorganisation
  drops the peak, and the front of a ledger is one (`LedgerFront`). The lemmas `SortedByTyped`, `FlattenIs` and `AppliedRuns` say that
  sorting a finite pool gives a sequence of it, that the ledger is the concatenation of the bodies, and that
  `append_transaction` over any proposal leaves a run of nonces. That the pool is finite is part of the invariant, not assumed;
  that `NoBlock` is neither a chain nor a candidate is assumed.

For any number of connections, references and losses (`EdgePorts_proofs`, from `EdgePortsAssumption`; there are
finitely many references): `TypesOfPorts`, `LossesAreNoticed`, `PortEndsAgree`, `DataAwaitsTheAnswer`.
`EdgeInv` has these parts:

* `TablesOK`: the types of attempts and ports, and that the two ends of an attempt differ.
* `Held`, `Gone`: the types of the tables, and that a lost connection has no messages, ports or jobs left.
* `Stage`: an attempt's ends are two connections, its task lives only with its opener, and it knows a port it
  joined only once its request was handled.
* `Rule`, `Single`: what a message in a mailbox or with a task says of the attempt it is about; a task sends one
  open request and one request to monitor, which is why the two cannot be handled twice.
* `PortShape`, `Answers`: a port that waits for its device has exactly the attempt that opened it, and the device
  answers it once.
* `Client` (`Alone`, `Belongs`, `Watched`, `Linked`): a client belongs to one port, its opener is monitored or has
  its `DOWN` in the mailbox, and its port's end is there or the message that closes it is. `LossIsNoticed` and
  `EndsAgree` are read off this part. Neither can be proved alone: that no `DOWN` is flushed for another client
  rests on where an attempt may be a client, that rests on the shape of the ports, and this on the answers.
* `Invites` adds to `EdgeInv` how far the answer of a device has come, for `DataIsInvited`. `Heard`: where an `ok`, its
  task's call or an open port is, the device has answered, and a port of an opener has learnt a reference. `Joined`:
  a reference that was learnt is of a port the device answered for, and an attempt that got its reply has learnt
  one. `Respects` says what each step may do to them: only a device makes an `ok` that was not there, and only
  a request that has not arrived makes a device undecided again.

For any keys, values, hash function and sizes of the table (`HostMap_proofs`, from `MapAssumption` and
`ProbeAssumption`): `StoreKeepsTable`, `LookupFinds` and `StoreIsFound`. `Sound` says that the indexes are those of
the entries, each once, that no two entries have one key, and that each entry is met by the probe of its key before
a free place. A store that grows the table moves every entry in turn (`GrownKeeps`); the order of the entries stays
that of their first store. `MapAssumption` needs a load of more than one (the code's is 4): at a load of
one a table may be full, and then the `while` of `get()` need not end. `ProbeAssumption` says that a probe comes by every
place of the tables that occur. 1051 is a prime, so this fails exactly for capacities it divides: none that a table starting
empty has, and of those made for fewer than 100 slots the one made for 24, which grows to 50448 = 48 * 1051 places
at 8308 entries, where a probe sees 48 of them. The theorems hold for the code up to that size.

For any accounts, storage keys, values, programs and depth of calls (`EvmHost_proofs`, from
`EvmHostAssumption` and the two above: keys are finite, `Nothing` is no value and no account, the world is typed,
precompiles and the origin have no code, and tables are asked for as many slots as are sent ahead):
`TypesOfEvaluation`, `PipesStayInStep`, `TablesStaySound`, `AgreementHolds` and `CacheStaysCurrent`.

* `HostInv` is `Typed`, `PortsAreHeld` (every open port serves one message or lies in the pool once) and `InStep`, which
  says for each state of a C++ process what may lie in its pipe, that all but the innermost wait for a
  result with an empty pipe, and what the Elixir process may find in its mailbox, in order (`Said`, `Waiting`). The
  order is what the protocol has in place of framing; a port given back with a byte in its pipe would answer
  the next message with it. That every table is sound is one of the types.
* `Agrees` is the invariant behind the caches. `Known`: what a process holds of its account and has not written
  itself is what its frame holds, and what it does not hold of a complete account is zero there.
  It is stated of a process only while no seed is on its way to it (`Settled`), because then its tables are about
  to be replaced; for a seed, a value or a command in the pipe `Told` says that it is of the frame as it is *now*. For the
  other direction `Spoken` says that a read in the mailbox is the one the process waits for, and
  that a report of writes is all of its table. A suspended process is the hard case: the message it waits for
  may have written to its account, so what it holds is out of date until the answer, which carries a seed
  (not `Settled`) or belongs to a failed message, whose frame is dropped (`PopAgrees`, `ReplyCurrent`).
  `CacheIsCurrent` is read off it; that no running process has a seed in its pipe is `HostInv`.

For every program, revision and size of words and stack (`EvmVm_proofs`, from `EvmVmAssumption`):

* `CodeReadInside`. `CodeInv` says that the code is what `optimize` made of the program, that `m_PC` is a start of
  the program at most 32 bytes behind its end, and that the row fetched is that of the byte there. It needs
  what the fold of `optimize` computes: `Scanned` relates, after each byte, the scan to the starts passed so far
  (one start at most lies ahead, every destination is a start, the code has changed only where there was an opcode
  of the interpreter's own). From a start before the end the next one is at most 32 bytes behind the end, a jump
  lands on a destination, and behind the end there is only `STOP`, which ends the message: the 33 bytes are enough.
* `TablesAlwaysAgree`. `AllAgree` shows it of every byte but the three opcodes of the interpreter's own, through the
  names of the bytes and the differences between the tables of successive revisions; for those three it is
  false (they have a row and are refused). `CodeInv` says that none of them is met: the copy replaces them wherever
  an instruction starts.
* `VmTyped`, `StepsCost` and `MemoryCovers`, from one invariant: `VmInv` is `CodeInv`, `TypeOK`, a memory of
  whole 32-byte words (`Whole`) and no leftover gas before the end. `StepsOf` splits a step into entering, failing,
  carrying on and halting; the theorems are read off it. It rests on four things. That what `EvmWords` computes
  is a word again (`ComputedIn`), limb by limb up to the folds of Knuth's division and the tables of two bits.
  That a word an instruction reads is on the stack (`ArgsIn`), and that every row costs gas, unless it ends the
  message or the handler prices it (`RowsShaped`). That a call that carries value costs at least 9000, more than
  the stipend of 2300 that may come back from it (`TotalIn`), and that a callee leaves no more than it was
  given, which is assumed of the host (`LeftoversIn`). That the areas an instruction touches end within the size it has asked
  for (`AreasIn`). The host's other answers are assumed to be words.

Only model-checked:

* liveness (`PreloadingEnds`, `LastTicketReachesTheTable`, `ExecutableIsMined`, `PollingRests`,
  `OpenIsAnswered`, `EndedPortIsForgotten`, `EvaluationEnds`): it needs ENABLED, which the prover does not handle;
* of `EvmHost`, `ImplementsJournal`: the steps of a message map as `Agrees` says, but the transfer of value and the
  end of an account need more of the world than `EvmHostAssumption` states (balances that do not
  overflow, accounts with code or balance that are alive);
* of `EvmVm`, `ResultIsExact` and `HashIsKeccak`: that a result is a word is proved, which word it is needs
  arithmetic of bits and an induction over the digits of a division, neither of which the provers have.

## 6. Findings

1. `chain_state`: a state delta is taken against the main chain's block of the moment, which need not
   be an ancestor; once it is a replaced branch a restart deletes it and the state is lost.
2. `chain_index`: the preloading process writes numbers it read before a reorganisation.
3. `ticket_repeat`: the flush removes the ETS entry of a newer ticket.
4. `worker_mode`: a `:work` message that arrives while mining is disabled leaves `working` set.
5. `edge_crash`: `portsend` is handled by the server and the `ok` before it by a task, so data can
   meet a port that is `:pre_open`, for which there is no clause. The model has the same crash for a
   late `ok` or `error` after the opener is gone, and for a close behind an `ok`.
6. `evm_delegate`: `DELEGATECALL` passes the value of its own message on, which the protocol says to ignore,
   and `do_call_contract` moves it a second time, from the caller's caller to the contract.

Each is a counterexample of a run; `PROJECT.json` quotes the line it contradicts.

Met while modelling, without a line of the repository that says otherwise: a successful `SELFDESTRUCT`, a `LOG0`
and an `EXTCODECOPY` from beyond the end raise in the Elixir process, which ends the whole evaluation (the
model has them as `Die`); a delegate call or call code to a precompile never runs it; the flag of a
`STATICCALL` and the depth are not transmitted; the pool's proposal takes its cheapest transactions first
(`pool.ex:82`); a "pending" block asked for at rest keeps a polling worker from mining what is in the pool
(`worker.ex:117`).

## 7. Not modelled, and the plan

Not planned: precompiles, Merkle trees and states, codecs and cryptography, the RPC front
ends, contracts and genesis, the command line, and the headers of Aleth that nothing links. They are pure functions, vendored code or plain I/O.

Would come next, in this order:

1. `Throttle`: the payment side of a connection (`unpaid_bytes`, `pending_packets`, `handle_ticket`,
   `stop_unpaid`, `must_have_ticket`): packets leave in order, none waits while the grace is not used,
   a paying device is not cut off.
2. `Channel`: the mailbox of a channel and its ports, composed with `EdgePorts`.
3. `PeerSync`: `handle_block`, the wanted range, `SyncSql.resolve` and the import job, over `ChainStore`'s
   promise (`ForkChoice`).
4. `ConnServer`: registration and exits; `Search` and `KBuckets`: termination and bounds.
5. `BlockQuick`: `last_final` and `is_diverse?` as functions against a reference definition.
6. `EtsLru`, `Stages`.
7. Proofs: the refinement of `EvmJournal`; `ResultIsExact` of the single operations that use no division.

## 8. Running it

`tlc -config MCChainStore.cfg MCChainStore.tla` and the like; `tlapm ChainStore_proofs.tla`. The runs
of `PROJECT.json` with `expect: violation` end in the counterexample of the finding they belong to.
