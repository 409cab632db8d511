----------------------------- MODULE TicketStore -----------------------------
(***************************************************************************)
(* The traffic tickets of one device and fleet (lib/ticketstore.ex): an ETS*)
(* table in front of the SQL table tickets, written behind by the          *)
(* Debouncer.  TicketStore.add runs in the process of the connection that  *)
(* received the ticket (handle_ticket of edge_v2.ex), so two connections of*)
(* the device and the debounced flush interleave between its reads and its *)
(* writes.  Tickets are keyed by epoch; a ticket is signed over a block    *)
(* hash, so it recovers to this device only on the chain it was signed on. *)
(*                                                                         *)
(* The operators named Bad... are faulty variants of the operator they     *)
(* precede; no action uses them.  They show that the properties can fail.  *)
(***************************************************************************)
EXTENDS Integers

CONSTANTS
    Handlers,       \* connections of the device
    Offers,         \* the tickets the device may sign: [epoch, conns, bytes]
    NoTicket,
    MaxEpoch,       \* bound: epochs the chain reaches
    MaxReorgs,      \* bound: reorganisations of the signed block
    MaxCrashes,     \* bound: restarts of the node
    MaxSubmits      \* bound: tickets sent

Epochs == 0 .. MaxEpoch
Tickets == {[epoch |-> o.epoch, conns |-> o.conns, bytes |-> o.bytes, branch |-> k] :
               o \in Offers, k \in 0 .. MaxReorgs}
MaybeTickets == Tickets \cup {NoTicket}

ASSUME TicketStoreAssumption ==
    /\ Offers \subseteq [epoch : Epochs, conns : Nat, bytes : Nat]
    /\ NoTicket \notin Tickets
    /\ MaxEpoch \in Nat /\ MaxReorgs \in Nat
    /\ MaxCrashes \in Nat /\ MaxSubmits \in Nat

VARIABLES
    epoch,      \* Chain.epoch()
    branch,     \* which chain the signed block hashes are taken from
    ets,        \* ETS table TicketStore, by epoch
    sql,        \* SQL table tickets, by epoch
    pending,    \* Debouncer: the ticket the delayed flush of a key will write
    flush,      \* the flush being executed
    pc,         \* where each handler is in add
    tck,        \* the ticket it was given
    last,       \* the ticket it found
    delayed,    \* history: the ticket delayed last, by epoch
    submits, crashes

chain == <<epoch, branch>>
handlers == <<pc, tck, last>>
vars == <<epoch, branch, ets, sql, pending, flush, pc, tck, last, delayed,
          submits, crashes>>

NoFlush == [step |-> "none", ticket |-> NoTicket]

Init ==
    /\ epoch = 0
    /\ branch = 0
    /\ ets = [e \in Epochs |-> NoTicket]
    /\ sql = [e \in Epochs |-> NoTicket]
    /\ pending = [e \in Epochs |-> NoTicket]
    /\ flush = NoFlush
    /\ pc = [h \in Handlers |-> "idle"]
    /\ tck = [h \in Handlers |-> NoTicket]
    /\ last = [h \in Handlers |-> NoTicket]
    /\ delayed = [e \in Epochs |-> NoTicket]
    /\ submits = 0
    /\ crashes = 0

-----------------------------------------------------------------------------
(* Ticket.device_address recovers the device only with the signed hash.    *)
Recovers(t) == t.branch = branch

(* handle_ticket: neither from the future nor with another signature; the  *)
(* epoch test of add turns away tickets of a past epoch.                   *)
Submit(h, o) ==
    LET t == [epoch |-> o.epoch, conns |-> o.conns, bytes |-> o.bytes, branch |-> branch]
    IN  /\ pc[h] = "idle"
        /\ submits < MaxSubmits
        /\ o.epoch <= epoch
        /\ submits' = submits + 1
        /\ IF epoch - 1 < o.epoch
           THEN /\ pc' = [pc EXCEPT ![h] = "find_ets"]
                /\ tck' = [tck EXCEPT ![h] = t]
           ELSE UNCHANGED <<pc, tck>>
        /\ UNCHANGED <<chain, ets, sql, pending, flush, last, delayed, crashes>>

(* find: Ets.lookup, and TicketSql.find when it misses.                     *)
FindEts(h) ==
    LET t == ets[tck[h].epoch]
    IN  /\ pc[h] = "find_ets"
        /\ last' = [last EXCEPT ![h] = t]
        /\ pc' = [pc EXCEPT ![h] = IF t = NoTicket THEN "find_sql" ELSE "judge"]
        /\ UNCHANGED <<chain, ets, sql, pending, flush, tck, delayed, submits, crashes>>

FindSql(h) ==
    /\ pc[h] = "find_sql"
    /\ last' = [last EXCEPT ![h] = sql[tck[h].epoch]]
    /\ pc' = [pc EXCEPT ![h] = "judge"]
    /\ UNCHANGED <<chain, ets, sql, pending, flush, tck, delayed, submits, crashes>>

Higher(t, prev) == prev.conns < t.conns \/ prev.bytes < t.bytes

Accepted(h) ==
    last[h] # NoTicket => Higher(tck[h], last[h]) \/ ~Recovers(last[h])

BadAccept(h, e, t) ==
    /\ pc[h] = "judge"
    /\ Accepted(h)
    /\ pending' = [pending EXCEPT ![e] = t]
    /\ delayed' = [delayed EXCEPT ![tck[h].epoch] = tck[h]]
    /\ pc' = [pc EXCEPT ![h] = "put"]
    /\ UNCHANGED <<chain, ets, sql, flush, tck, last, submits, crashes>>
BadAcceptCurrentEpoch(h) == BadAccept(h, epoch, tck[h])
BadAcceptOnce(h) ==
    LET p == pending[tck[h].epoch]
    IN  BadAccept(h, tck[h].epoch, IF p = NoTicket THEN tck[h] ELSE p)

(* put_ticket, first half: Debouncer.delay replaces the flush of the key.   *)
Accept(h) ==
    /\ pc[h] = "judge"
    /\ Accepted(h)
    /\ pending' = [pending EXCEPT ![tck[h].epoch] = tck[h]]
    /\ delayed' = [delayed EXCEPT ![tck[h].epoch] = tck[h]]
    /\ pc' = [pc EXCEPT ![h] = "put"]
    /\ UNCHANGED <<chain, ets, sql, flush, tck, last, submits, crashes>>

TooLow(h) ==
    /\ pc[h] = "judge"
    /\ ~Accepted(h)
    /\ pc' = [pc EXCEPT ![h] = "idle"]
    /\ tck' = [tck EXCEPT ![h] = NoTicket]
    /\ last' = [last EXCEPT ![h] = NoTicket]
    /\ UNCHANGED <<chain, ets, sql, pending, flush, delayed, submits, crashes>>

(* put_ticket, second half: Ets.put, and the answer "thanks!".              *)
Put(h) ==
    /\ pc[h] = "put"
    /\ ets' = [ets EXCEPT ![tck[h].epoch] = tck[h]]
    /\ pc' = [pc EXCEPT ![h] = "idle"]
    /\ tck' = [tck EXCEPT ![h] = NoTicket]
    /\ last' = [last EXCEPT ![h] = NoTicket]
    /\ UNCHANGED <<chain, sql, pending, flush, delayed, submits, crashes>>

-----------------------------------------------------------------------------
(* The debounced flush of a key: write the row, then drop the ETS entry.    *)

Fire(e) ==
    /\ flush = NoFlush
    /\ pending[e] # NoTicket
    /\ flush' = [step |-> "write", ticket |-> pending[e]]
    /\ pending' = [pending EXCEPT ![e] = NoTicket]
    /\ UNCHANGED <<chain, ets, sql, handlers, delayed, submits, crashes>>

BadFlushWriteOnce ==
    /\ flush.step = "write"
    /\ sql' = IF Recovers(flush.ticket) /\ sql[flush.ticket.epoch] = NoTicket
              THEN [sql EXCEPT ![flush.ticket.epoch] = flush.ticket]
              ELSE sql
    /\ flush' = [flush EXCEPT !.step = "remove"]
    /\ UNCHANGED <<chain, ets, pending, handlers, delayed, submits, crashes>>

BadFlushWriteCurrentEpoch ==
    /\ flush.step = "write"
    /\ sql' = IF Recovers(flush.ticket) THEN [sql EXCEPT ![epoch] = flush.ticket] ELSE sql
    /\ flush' = [flush EXCEPT !.step = "remove"]
    /\ UNCHANGED <<chain, ets, pending, handlers, delayed, submits, crashes>>

(* TicketSql.put_ticket keys the row by the address the ticket recovers to  *)
(* now: after a reorganisation that is not this device any more.            *)
FlushWrite ==
    /\ flush.step = "write"
    /\ sql' = IF Recovers(flush.ticket)
              THEN [sql EXCEPT ![flush.ticket.epoch] = flush.ticket]
              ELSE sql
    /\ flush' = [flush EXCEPT !.step = "remove"]
    /\ UNCHANGED <<chain, ets, pending, handlers, delayed, submits, crashes>>

FlushRemove ==
    /\ flush.step = "remove"
    /\ ets' = [ets EXCEPT ![flush.ticket.epoch] = NoTicket]
    /\ flush' = NoFlush
    /\ UNCHANGED <<chain, sql, pending, handlers, delayed, submits, crashes>>

-----------------------------------------------------------------------------
(* The chain moves on, is reorganised below a signed block, or the node     *)
(* restarts: ETS, the Debouncer and the connections are gone.               *)

NewEpoch ==
    /\ epoch < MaxEpoch
    /\ epoch' = epoch + 1
    /\ UNCHANGED <<branch, ets, sql, pending, flush, handlers, delayed, submits, crashes>>

Reorganise ==
    /\ branch < MaxReorgs
    /\ branch' = branch + 1
    /\ UNCHANGED <<epoch, ets, sql, pending, flush, handlers, delayed, submits, crashes>>

Crash ==
    /\ crashes < MaxCrashes
    /\ crashes' = crashes + 1
    /\ ets' = [e \in Epochs |-> NoTicket]
    /\ pending' = [e \in Epochs |-> NoTicket]
    /\ flush' = NoFlush
    /\ pc' = [h \in Handlers |-> "idle"]
    /\ tck' = [h \in Handlers |-> NoTicket]
    /\ last' = [h \in Handlers |-> NoTicket]
    /\ delayed' = sql
    /\ UNCHANGED <<chain, sql, submits>>

Add(h) ==
    FindEts(h) \/ FindSql(h) \/ Accept(h) \/ TooLow(h) \/ Put(h)

Next ==
    \/ \E h \in Handlers, o \in Offers : Submit(h, o)
    \/ \E h \in Handlers : Add(h)
    \/ \E e \in Epochs : Fire(e)
    \/ FlushWrite
    \/ FlushRemove
    \/ NewEpoch
    \/ Reorganise
    \/ Crash

(* The runtime schedules every runnable process, and the timers of the      *)
(* Debouncer expire.                                                        *)
Fairness ==
    /\ \A h \in Handlers : WF_vars(Add(h))
    /\ \A e \in Epochs : WF_vars(Fire(e))
    /\ WF_vars(FlushWrite \/ FlushRemove)

Spec == Init /\ [][Next]_vars /\ Fairness

-----------------------------------------------------------------------------
(* Properties.                                                             *)

(* The types of the two tables, the Debouncer and the handlers; a delayed   *)
(* flush is kept under the key of its ticket.                               *)
TypeOK ==
    /\ epoch \in Epochs
    /\ branch \in 0 .. MaxReorgs
    /\ ets \in [Epochs -> MaybeTickets]
    /\ sql \in [Epochs -> MaybeTickets]
    /\ pending \in [Epochs -> MaybeTickets]
    /\ \A e \in Epochs : pending[e] # NoTicket => pending[e].epoch = e
    /\ flush = NoFlush \/ flush \in [step : {"write", "remove"}, ticket : Tickets]
    /\ pc \in [Handlers -> {"idle", "find_ets", "find_sql", "judge", "put"}]
    /\ tck \in [Handlers -> MaybeTickets]
    /\ \A h \in Handlers : pc[h] # "idle" => tck[h] # NoTicket
    /\ last \in [Handlers -> MaybeTickets]
    /\ delayed \in [Epochs -> MaybeTickets]
    /\ submits \in Nat
    /\ crashes \in Nat

Find(e) == IF ets[e] # NoTicket THEN ets[e] ELSE sql[e]

(* Once a ticket of an epoch was accepted, find never answers nil again,    *)
(* also in the middle of a flush: the row is written before the ETS entry   *)
(* is dropped.  (A reorganisation below the signed block ends this.)        *)
AcceptedTicketIsFound ==
    \A e \in Epochs :
        /\ branch = 0
        /\ delayed[e] # NoTicket
        /\ \A h \in Handlers : ~(pc[h] = "put" /\ tck[h].epoch = e)
        => Find(e) # NoTicket

(* The ticket delayed last is never lost between the Debouncer and the      *)
(* table while it still recovers to the device: neither a flush of an older *)
(* ticket of the key nor a concurrent add drops it.                         *)
LastTicketIsKept ==
    \A e \in Epochs :
        delayed[e] # NoTicket /\ Recovers(delayed[e]) =>
            \/ pending[e] = delayed[e]
            \/ flush.step = "write" /\ flush.ticket = delayed[e]
            \/ sql[e] = delayed[e]

(* Write-behind: what was accepted last reaches the table, unless the chain *)
(* it was signed on is abandoned first.                                     *)
LastTicketReachesTheTable ==
    \A e \in Epochs :
        [](delayed[e] # NoTicket =>
              <>(sql[e] = delayed[e] \/ ~Recovers(delayed[e])))

(***************************************************************************)
(* The inductive invariant behind the two safety properties.  A pending    *)
(* flush is always of the ticket delayed last; so is the flush being       *)
(* written when nothing newer is pending; and no ticket is signed on a     *)
(* chain that is still to come.                                            *)
(***************************************************************************)
KeyOK(row, e) == row # NoTicket => row.epoch = e

FlowOK ==
    \A e \in Epochs :
        /\ KeyOK(delayed[e], e) /\ KeyOK(sql[e], e)
        /\ pending[e] # NoTicket => pending[e] = delayed[e]
        /\ flush.step = "write" /\ flush.ticket.epoch = e /\ pending[e] = NoTicket =>
               flush.ticket = delayed[e]

Past(t) == t # NoTicket => t.branch <= branch

PastOK ==
    /\ \A e \in Epochs : Past(delayed[e]) /\ Past(sql[e])
    /\ \A h \in Handlers : Past(tck[h])
    /\ Past(flush.ticket)

RemovedOK ==
    branch = 0 /\ flush.step = "remove" => sql[flush.ticket.epoch] # NoTicket

IndInv ==
    TypeOK /\ FlowOK /\ PastOK /\ RemovedOK /\ LastTicketIsKept /\ AcceptedTicketIsFound

(* A claim of the repository that the code does not keep: test/edge2_test   *)
(* says that submitting a second ticket with the same count should fail.    *)
SameTicketIsNotAcceptedTwice ==
    [][\A h \in Handlers :
          pc[h] = "judge" /\ pc'[h] = "put" => tck[h] # delayed[tck[h].epoch]]_vars

==============================================================================
