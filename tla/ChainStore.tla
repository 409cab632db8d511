------------------------------ MODULE ChainStore -----------------------------
(***************************************************************************)
(* The chain store: the GenServer Chain (lib/chain.ex) over the table      *)
(* blocks of Model.ChainSql (lib/model/chainsql.ex), with the ETS table    *)
(* that caches it and the process that preloads this cache after every     *)
(* start.                                                                  *)
(*                                                                         *)
(* Four actors interleave: callers of add_block, which look into the cache *)
(* in their own process before they call; the GenServer, which commits to  *)
(* SQL first and updates the cache and its peak afterwards; the linked     *)
(* preloading process; and crashes, which restart the GenServer from SQL.  *)
(*                                                                         *)
(* The operators named Bad... are faulty variants of the operator they     *)
(* precede; no action uses them.  They show that the properties can fail.  *)
(***************************************************************************)
EXTENDS BlockTree, Sequences

CONSTANTS
    NoBlock,        \* nil
    StateInterval,  \* every block 1 (mod StateInterval) stores a full state; 100
    EtsSize,        \* @ets_size: how many top blocks stay in the cache; 1000
    PageSize,       \* LIMIT of a page of ChainSql.all_block_hashes; 1000
    MailboxLimit,   \* bound: calls waiting for the GenServer
    MaxRestarts     \* bound: crashes of the GenServer

ASSUME ChainStoreAssumption ==
    /\ NoBlock \notin Blocks
    /\ StateInterval \in Nat \ {0, 1}
    /\ EtsSize \in Nat \ {0}
    /\ PageSize \in Nat \ {0}
    /\ MailboxLimit \in Nat
    /\ MaxRestarts \in Nat

VARIABLES
    stored,     \* SQL: the hashes of the rows of table blocks
    norm,       \* SQL: the rows whose number is not NULL
    base,       \* SQL: the row the state of a row is a delta to, or NoBlock
    ets,        \* ETS: hash -> "block" or true, and number -> hash
    complete,   \* persistent_term placeholder_complete
    peak,       \* GenServer state
    mailbox,    \* GenServer: the blocks of the add_block calls that wait
    job,        \* GenServer: the call being handled, after its SQL commit
    prefetch,   \* the preloading process
    reply,      \* the last answer of add_block
    restarts    \* crashes so far

sql == <<stored, norm, base>>
vars == <<stored, norm, base, ets, complete, peak, mailbox, job, prefetch,
          reply, restarts>>

-----------------------------------------------------------------------------
(* Table blocks.                                                           *)

Heights == {Number[b] : b \in Blocks}

(* SELECT data FROM blocks ORDER BY number DESC LIMIT 1                     *)
TipOf(rows) == CHOOSE b \in rows : \A c \in rows : Number[c] <= Number[b]

(***************************************************************************)
(* prepare_state: the first block of an interval stores its whole state,   *)
(* any other a delta to the block the main chain has at the start of the   *)
(* interval, whether or not the new block descends from it.                *)
(***************************************************************************)
IntervalStart(n) == n - (n % StateInterval) + 1

BadPrepareStateNoFull(b) ==
    LET rows == {c \in norm : Number[c] = IntervalStart(Number[b])}
    IN  IF rows = {} THEN NoBlock ELSE CHOOSE c \in rows : TRUE

PrepareState(b) ==
    LET rows == {c \in norm : Number[c] = IntervalStart(Number[b])}
    IN  IF Number[b] % StateInterval = 1 \/ rows = {}
        THEN NoBlock
        ELSE CHOOSE c \in rows : TRUE

(* INSERT OR FAIL: an existing row stays as it is.                          *)
InsertRow(b) ==
    /\ stored' = stored \cup {b}
    /\ base' = IF b \in stored THEN base ELSE [base EXCEPT ![b] = PrepareState(b)]

(***************************************************************************)
(* put_peak gives b its number, drops every number from Number[b] up, and  *)
(* set_normative walks from the parent down to the first block that has    *)
(* its number already: Renumbered(b) is what the walk visits.              *)
(***************************************************************************)
Renumbered(b) ==
    {b} \cup {c \in Lineage[b] :
                 \A d \in norm \cap Lineage[b] :
                     Number[d] < Number[b] => Number[d] < Number[c]}

BadNormativeKeepsRivals(b) == Renumbered(b) \cup {c \in norm : Number[c] < Number[b]}

Normative(b) ==
    Renumbered(b) \cup
    {c \in norm : /\ Number[c] < Number[b]
                  /\ \A d \in Renumbered(b) : Number[c] # Number[d]}

-----------------------------------------------------------------------------
(* The ETS cache.                                                          *)

EmptyEts == [hash |-> [b \in Blocks |-> "none"],
             index |-> [n \in Heights |-> NoBlock]]

EtsPlaceholder(e, b) ==
    [hash |-> [e.hash EXCEPT ![b] = "true"],
     index |-> [e.index EXCEPT ![Number[b]] = b]]

(* ets_remove_idx: the block EtsSize below shrinks to a placeholder.        *)
Evicted(index, b) ==
    {c \in Blocks : /\ Number[b] - EtsSize > 0
                    /\ Number[b] - EtsSize \in Heights
                    /\ index[Number[b] - EtsSize] = c}

EtsAdd(e, b) ==
    LET index == [e.index EXCEPT ![Number[b]] = b]
    IN  [hash |-> [c \in Blocks |->
                      IF c \in Evicted(index, b) THEN "true"
                      ELSE IF c = b THEN "block" ELSE e.hash[c]],
         index |-> index]

BadExists(b) == ets.hash[b] # "none" \/ complete

(* block_by_hash?: an absent hash counts as present until preloading ends.  *)
Exists(b) == ets.hash[b] # "none" \/ ~complete

(* block_by_hash: a placeholder, or a hash not preloaded yet, asks SQL.     *)
Found(b) ==
    CASE ets.hash[b] = "block" -> TRUE
      [] ets.hash[b] = "true" -> b \in stored
      [] OTHER -> ~complete /\ b \in stored

(***************************************************************************)
(* set_normative asks for the parent of every block it renumbers, and      *)
(* raises on a parent that has no row: the transaction is rolled back.     *)
(***************************************************************************)
WalkEnds(b) == \A c \in Renumbered(b) \ {Genesis} : Found(Parent[c])

-----------------------------------------------------------------------------
Idle == [pc |-> "idle", block |-> NoBlock, cursor |-> NoBlock]
StartPrefetch == [pc |-> "hashes", n |-> 0, todo |-> <<>>]
NoReply == [block |-> NoBlock, ret |-> "none"]

Init ==
    /\ stored = {Genesis}
    /\ norm = {Genesis}
    /\ base = [b \in Blocks |-> NoBlock]
    /\ ets = EmptyEts
    /\ complete = FALSE
    /\ peak = Genesis
    /\ mailbox = <<>>
    /\ job = Idle
    /\ prefetch = StartPrefetch
    /\ reply = NoReply
    /\ restarts = 0

-----------------------------------------------------------------------------
(* add_block in the caller's process.                                      *)

(***************************************************************************)
(* A caller read the parent when it validated the block, at some earlier   *)
(* time; import_blocks takes it from its own stream.  add_block does not   *)
(* look for it again.  Only a restart deletes rows, and only while a       *)
(* restarted store preloads does a stream run past blocks that were not    *)
(* stored (import_blocks starts at a block the preloaded store misses): so *)
(* a parent may have no row any more after a restart, and not before.      *)
(***************************************************************************)
ReadParent(b) == Parent[b] \in stored \/ restarts > 0

SubmitKnown(b) ==
    /\ Exists(b)
    /\ reply' = [block |-> b, ret |-> "added"]
    /\ UNCHANGED <<sql, ets, complete, peak, mailbox, job, prefetch, restarts>>

SubmitGenesis(b) ==
    /\ ~Exists(b)
    /\ Number[b] < 1
    /\ reply' = [block |-> b, ret |-> "rejected"]
    /\ UNCHANGED <<sql, ets, complete, peak, mailbox, job, prefetch, restarts>>

SubmitNew(b) ==
    /\ ~Exists(b)
    /\ Number[b] >= 1
    /\ Len(mailbox) < MailboxLimit
    /\ mailbox' = Append(mailbox, b)
    /\ UNCHANGED <<sql, ets, complete, peak, job, prefetch, reply, restarts>>

Submit(b) ==
    /\ ReadParent(b)
    /\ SubmitKnown(b) \/ SubmitGenesis(b) \/ SubmitNew(b)

-----------------------------------------------------------------------------
BadStartOverOldCache ==
    /\ stored' = norm
    /\ peak' = TipOf(norm)
    /\ mailbox' = <<>>
    /\ job' = Idle
    /\ prefetch' = StartPrefetch
    /\ reply' = NoReply
    /\ UNCHANGED <<norm, base, ets, complete>>

(***************************************************************************)
(* init after a crash: the ETS table and the mailbox are gone, the peak is *)
(* read from SQL, the side branches are deleted and preloading starts over.*)
(***************************************************************************)
StartOver ==
    /\ stored' = norm
    /\ UNCHANGED <<norm, base>>
    /\ ets' = EmptyEts
    /\ complete' = FALSE
    /\ peak' = TipOf(norm)
    /\ mailbox' = <<>>
    /\ job' = Idle
    /\ prefetch' = StartPrefetch
    /\ reply' = NoReply

-----------------------------------------------------------------------------
(* handle_call({:add_block, ...}): look up, commit to SQL, then update the *)
(* cache and the peak.  Between the two a crash loses the latter.          *)

Next1 == Head(mailbox)

Dequeue ==
    /\ job.pc = "idle"
    /\ mailbox # <<>>
    /\ mailbox' = Tail(mailbox)

SkipExisting ==
    /\ Dequeue
    /\ Exists(Next1)
    /\ reply' = [block |-> Next1, ret |-> "added"]
    /\ UNCHANGED <<sql, ets, complete, peak, job, prefetch, restarts>>

BadCommitAltAnyWeight ==
    /\ Dequeue
    /\ ~Exists(Next1)
    /\ Parent[Next1] # peak
    /\ InsertRow(Next1)
    /\ job' = [pc |-> "alt", block |-> Next1, cursor |-> NoBlock]
    /\ UNCHANGED <<norm, ets, complete, peak, prefetch, reply, restarts>>

CommitAlt ==
    /\ Dequeue
    /\ ~Exists(Next1)
    /\ Parent[Next1] # peak
    /\ TotalDifficulty[Next1] <= TotalDifficulty[peak]
    /\ InsertRow(Next1)
    /\ job' = [pc |-> "alt", block |-> Next1, cursor |-> NoBlock]
    /\ UNCHANGED <<norm, ets, complete, peak, prefetch, reply, restarts>>

CommitExtension ==
    /\ Dequeue
    /\ ~Exists(Next1)
    /\ Parent[Next1] = peak
    /\ stored' = stored \cup {Next1}
    /\ base' = [base EXCEPT ![Next1] = PrepareState(Next1)]
    /\ norm' = norm \cup {Next1}
    /\ job' = [pc |-> "extend", block |-> Next1, cursor |-> NoBlock]
    /\ UNCHANGED <<ets, complete, peak, prefetch, reply, restarts>>

BadReorgTo(lighter) ==
    /\ Dequeue
    /\ ~Exists(Next1)
    /\ Parent[Next1] # peak
    /\ TotalDifficulty[Next1] > TotalDifficulty[peak] \/ lighter
    /\ WalkEnds(Next1)
    /\ InsertRow(Next1)
    /\ norm' = Normative(Next1)
    /\ job' = [pc |-> "refetch", block |-> Next1, cursor |-> Next1]
    /\ UNCHANGED <<ets, complete, peak, prefetch, reply, restarts>>
BadCommitReorgAnyWeight == BadReorgTo(TRUE)
BadCommitReorgOnTie == BadReorgTo(TotalDifficulty[Head(mailbox)] = TotalDifficulty[peak])

CommitReorg ==
    /\ Dequeue
    /\ ~Exists(Next1)
    /\ Parent[Next1] # peak
    /\ TotalDifficulty[Next1] > TotalDifficulty[peak]
    /\ WalkEnds(Next1)
    /\ InsertRow(Next1)
    /\ norm' = Normative(Next1)
    /\ job' = [pc |-> "refetch", block |-> Next1, cursor |-> Next1]
    /\ UNCHANGED <<ets, complete, peak, prefetch, reply, restarts>>

(***************************************************************************)
(* A heavier block on a branch a restart has cut: the rollback fails the   *)
(* match on {:ok, result}, which ends the GenServer.  The supervisor       *)
(* starts it again.                                                        *)
(***************************************************************************)
ReorgFails ==
    /\ job.pc = "idle"
    /\ mailbox # <<>>
    /\ ~Exists(Next1)
    /\ Parent[Next1] # peak
    /\ TotalDifficulty[Next1] > TotalDifficulty[peak]
    /\ ~WalkEnds(Next1)
    /\ StartOver
    /\ UNCHANGED restarts

Answer(ret) ==
    /\ job' = Idle
    /\ reply' = [block |-> job.block, ret |-> ret]

BadFinishAltUncached ==
    /\ job.pc = "alt"
    /\ Answer("stored")
    /\ UNCHANGED <<sql, ets, complete, peak, mailbox, prefetch, restarts>>

FinishAlt ==
    /\ job.pc = "alt"
    /\ ets' = [ets EXCEPT !.hash[job.block] = "true"]
    /\ Answer("stored")
    /\ UNCHANGED <<sql, complete, peak, mailbox, prefetch, restarts>>

FinishExtension ==
    /\ job.pc = "extend"
    /\ ets' = EtsAdd(ets, job.block)
    /\ peak' = job.block
    /\ Answer("added")
    /\ UNCHANGED <<sql, complete, mailbox, prefetch, restarts>>

(***************************************************************************)
(* ets_refetch: add the new branch to the cache, from its tip down to the  *)
(* first block the index names already.                                    *)
(***************************************************************************)
RefetchBlock ==
    /\ job.pc = "refetch"
    /\ ets.index[Number[job.cursor]] # job.cursor
    /\ job.cursor # Genesis
    /\ ets' = EtsAdd(ets, job.cursor)
    /\ job' = [job EXCEPT !.cursor = Parent[job.cursor]]
    /\ UNCHANGED <<sql, complete, peak, mailbox, prefetch, reply, restarts>>

BadFinishReorgOldPeak ==
    /\ job.pc = "refetch"
    /\ ets.index[Number[job.cursor]] = job.cursor \/ job.cursor = Genesis
    /\ Answer("added")
    /\ UNCHANGED <<sql, ets, complete, peak, mailbox, prefetch, restarts>>

FinishReorg ==
    /\ job.pc = "refetch"
    /\ \/ /\ ets.index[Number[job.cursor]] = job.cursor
          /\ UNCHANGED ets
       \/ /\ ets.index[Number[job.cursor]] # job.cursor
          /\ job.cursor = Genesis
          /\ ets' = EtsAdd(ets, Genesis)
    /\ peak' = job.block
    /\ Answer("added")
    /\ UNCHANGED <<sql, complete, mailbox, prefetch, restarts>>

-----------------------------------------------------------------------------
(* The preloading process of ets_prefetch.                                 *)

(* Numbered rows in ascending order; at most one row has a given number.    *)
RowAt(n) == CHOOSE b \in norm : Number[b] = n
TopNumber == Number[TipOf(norm)]

(* SELECT hash, number FROM blocks WHERE number > n ORDER BY number LIMIT   *)
Page(n) ==
    LET last == IF n + PageSize < TopNumber THEN n + PageSize ELSE TopNumber
    IN  IF last <= n THEN <<>> ELSE [i \in 1 .. last - n |-> RowAt(n + i)]

(* SELECT data FROM blocks ... ORDER BY number DESC LIMIT EtsSize           *)
TopBlocks ==
    LET size == IF EtsSize < TopNumber + 1 THEN EtsSize ELSE TopNumber + 1
    IN  [i \in 1 .. size |-> RowAt(TopNumber + 1 - i)]

BadReadPage(n) ==
    /\ prefetch.pc = "hashes"
    /\ prefetch.todo = <<>>
    /\ Page(prefetch.n) # <<>>
    /\ prefetch' = [prefetch EXCEPT !.todo = Page(prefetch.n), !.n = n]
    /\ UNCHANGED <<sql, ets, complete, peak, mailbox, job, reply, restarts>>
BadReadPageAgain == BadReadPage(prefetch.n)
BadReadPageBackwards == BadReadPage(prefetch.n - Len(Page(prefetch.n)))

ReadPage ==
    /\ prefetch.pc = "hashes"
    /\ prefetch.todo = <<>>
    /\ Page(prefetch.n) # <<>>
    /\ prefetch' = [prefetch EXCEPT !.todo = Page(prefetch.n),
                                    !.n = prefetch.n + Len(Page(prefetch.n))]
    /\ UNCHANGED <<sql, ets, complete, peak, mailbox, job, reply, restarts>>

AddPlaceholder ==
    /\ prefetch.pc = "hashes"
    /\ prefetch.todo # <<>>
    /\ ets' = EtsPlaceholder(ets, Head(prefetch.todo))
    /\ prefetch' = [prefetch EXCEPT !.todo = Tail(@)]
    /\ UNCHANGED <<sql, complete, peak, mailbox, job, reply, restarts>>

PlaceholdersComplete ==
    /\ prefetch.pc = "hashes"
    /\ prefetch.todo = <<>>
    /\ Page(prefetch.n) = <<>>
    /\ complete' = TRUE
    /\ prefetch' = [prefetch EXCEPT !.pc = "read_top"]
    /\ UNCHANGED <<sql, ets, peak, mailbox, job, reply, restarts>>

ReadTop ==
    /\ prefetch.pc = "read_top"
    /\ prefetch' = [prefetch EXCEPT !.pc = "top", !.todo = TopBlocks]
    /\ UNCHANGED <<sql, ets, complete, peak, mailbox, job, reply, restarts>>

AddTop ==
    /\ prefetch.pc = "top"
    /\ prefetch.todo # <<>>
    /\ ets' = EtsAdd(ets, Head(prefetch.todo))
    /\ prefetch' = [prefetch EXCEPT !.todo = Tail(@)]
    /\ UNCHANGED <<sql, complete, peak, mailbox, job, reply, restarts>>

-----------------------------------------------------------------------------
(* A crash of the GenServer at any point.                                   *)
Restart ==
    /\ restarts < MaxRestarts
    /\ restarts' = restarts + 1
    /\ StartOver

Handle ==
    \/ SkipExisting
    \/ CommitAlt
    \/ CommitExtension
    \/ CommitReorg
    \/ ReorgFails
    \/ FinishAlt
    \/ FinishExtension
    \/ RefetchBlock
    \/ FinishReorg

Preload ==
    \/ ReadPage
    \/ AddPlaceholder
    \/ PlaceholdersComplete
    \/ ReadTop
    \/ AddTop

Next ==
    \/ \E b \in Blocks : Submit(b)
    \/ Handle
    \/ Preload
    \/ Restart

(***************************************************************************)
(* Both processes are scheduled by the runtime whenever they are runnable. *)
(***************************************************************************)
Fairness == WF_vars(Handle) /\ WF_vars(Preload)

Spec == Init /\ [][Next]_vars /\ Fairness

-----------------------------------------------------------------------------
(* Properties.                                                             *)

Rets == {"none", "added", "stored", "rejected"}
MaybeBlocks == Blocks \cup {NoBlock}

(* The types of the variables, rows and caches of lib/chain.ex.             *)
TypeOK ==
    /\ stored \subseteq Blocks
    /\ norm \subseteq Blocks
    /\ base \in [Blocks -> MaybeBlocks]
    /\ ets \in [hash : [Blocks -> {"none", "true", "block"}],
               index : [Heights -> MaybeBlocks]]
    /\ complete \in BOOLEAN
    /\ peak \in Blocks
    /\ mailbox \in Seq(Blocks)
    /\ job \in [pc : {"idle", "alt", "extend", "refetch"},
               block : MaybeBlocks, cursor : MaybeBlocks]
    /\ prefetch \in [pc : {"hashes", "read_top", "top"},
                    n : Nat, todo : Seq(Blocks)]
    /\ reply \in [block : MaybeBlocks, ret : Rets]
    /\ restarts \in Nat

(* The numbered rows are one unbroken branch, genesis to tip: no number is *)
(* given twice, none is left over from a branch that was replaced, and no  *)
(* block of it lacks a row, though callers hand in blocks whose parents a  *)
(* restart has deleted.                                                    *)
MainChainIsALineage ==
    /\ norm \subseteq stored
    /\ norm = Lineage[TipOf(norm)]

(* Fork choice: no stored block outweighs the tip, whatever the order in   *)
(* which the blocks of the branches arrived.                               *)
TipIsHeaviest ==
    \A b \in stored : TotalDifficulty[b] <= TotalDifficulty[TipOf(norm)]

(* Between calls the peak in memory is the tip a restart would read back.  *)
PeakIsTheStoredTip == job.pc = "idle" => peak = TipOf(norm)

(* A delta is never taken against another delta: prepare_state matches the *)
(* row at the start of the interval against a full %Chain.State{}.         *)
BasesAreFull ==
    \A b \in stored : base[b] # NoBlock => base[base[b]] = NoBlock

(* block_by_hash? never claims from the cache a block that has no row: the *)
(* node would refuse that block for as long as it runs.                    *)
CacheIsBackedByRows == \A b \in Blocks : ets.hash[b] # "none" => b \in stored

(* Once preloading says it is complete, a miss in the cache means there is *)
(* no row (genesis, number 0, is never preloaded as a placeholder).        *)
PreloadedCacheIsComplete ==
    complete /\ job.pc = "idle" =>
        \A b \in stored : Number[b] > 0 => ets.hash[b] # "none"

(* No step, a crash in the middle of a reorganisation included, makes the  *)
(* durable main chain lighter.                                             *)
WeightNeverDrops ==
    [][TotalDifficulty[TipOf(norm')] >= TotalDifficulty[TipOf(norm)]]_sql

(* After preloading, add_block says :added only of a block that has a row. *)
AnsweredBlocksAreStored ==
    [][complete /\ reply' # reply /\ reply'.ret = "added"
          => reply'.block \in stored]_vars

(* The tables implement the abstract fork choice, crashes included.        *)
Abstract == INSTANCE ForkChoice WITH known <- stored, head <- TipOf(norm)
ImplementsForkChoice == Abstract!Spec

(* If the heavier blocks of cut branches stop coming, which crash the store *)
(* again and again, preloading ends and new blocks are accepted again.     *)
PreloadingEnds ==
    <>[][~ReorgFails]_vars => <>[](prefetch.pc = "top" /\ prefetch.todo = <<>>)

(***************************************************************************)
(* The inductive invariant behind the safety properties.  A commit to SQL  *)
(* moves the tip before the peak follows, so the tip is the block of the   *)
(* call being handled from its commit to its answer and the peak otherwise.*)
(***************************************************************************)
Tip == IF job.pc \in {"extend", "refetch"} THEN job.block ELSE peak

RowsOK ==
    /\ norm = Lineage[Tip]
    /\ norm \subseteq stored
    /\ \A b \in stored : TotalDifficulty[b] <= TotalDifficulty[Tip]

JobOK ==
    /\ job.pc # "idle" => job.block \in stored
    /\ job.pc = "refetch" => job.cursor \in norm

QueueOK == \A i \in 1 .. Len(mailbox) : mailbox[i] # Genesis

CacheOK ==
    /\ \A b \in Blocks : ets.hash[b] # "none" => b \in stored
    /\ \A n \in Heights : ets.index[n] # NoBlock => ets.index[n] \in stored

TodoOK == \A i \in 1 .. Len(prefetch.todo) : prefetch.todo[i] \in stored

IndInv == TypeOK /\ RowsOK /\ JobOK /\ QueueOK /\ CacheOK /\ TodoOK

(***************************************************************************)
(* Two more, each inductive beside IndInv.  A delta is taken against a      *)
(* block that starts an interval, which has no delta of its own; and while  *)
(* the cache is being preloaded nothing is committed, so that each row is   *)
(* cached, on the list, above the last page, or is the block of the call    *)
(* being handled until the call caches it.                                 *)
(***************************************************************************)
BaseOK ==
    \A b \in Blocks : base[b] # NoBlock =>
        Number[b] % StateInterval # 1 /\ Number[base[b]] % StateInterval = 1

Cached(b) == ets.hash[b] # "none"
Listed(b) == \E i \in 1 .. Len(prefetch.todo) : prefetch.todo[i] = b
Fresh(b) == /\ job.pc # "idle"
            /\ b = job.block
            /\ job.pc = "refetch" => job.cursor = b

PreloadOK ==
    /\ complete <=> prefetch.pc # "hashes"
    /\ \A n \in Heights : ets.index[n] # NoBlock => Cached(ets.index[n])
    /\ ~complete =>
          /\ job.pc = "idle" /\ stored = norm
          /\ \A b \in norm : 0 < Number[b] /\ Number[b] <= prefetch.n => Cached(b) \/ Listed(b)
    /\ complete => \A b \in stored : Number[b] > 0 => Cached(b) \/ Fresh(b)

-----------------------------------------------------------------------------
(* Two claims of the repository that the code does not keep.               *)

(* Block.state is specified to return a %Chain.State{} for every block,    *)
(* and ChainSql.state knows only whole states and deltas to a stored row:  *)
(* so the row a main chain block is a delta to is never deleted.           *)
MainChainStatesAreReadable ==
    \A b \in norm : base[b] # NoBlock => base[b] \in stored

(* Chain.block(n): through the index, or from SQL where it has no entry.    *)
BlockByNumber(n) == IF ets.index[n] # NoBlock THEN ets.index[n] ELSE RowAt(n)

(* test/chain_test.exs: the block under the number of the peak is the peak. *)
PeakIsTheBlockAtItsNumber ==
    job.pc = "idle" => BlockByNumber(Number[peak]) = peak

==============================================================================
