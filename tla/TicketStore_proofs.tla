------------------------- MODULE TicketStore_proofs --------------------------
(***************************************************************************)
(* Type correctness and the safety of the write-behind ticket table, for   *)
(* any number of connections, tickets, epochs, reorganisations and crashes.*)
(***************************************************************************)
EXTENDS TicketStore, TLAPS

USE TicketStoreAssumption

(* A ticket names an epoch and a chain the model knows, and is not nil.     *)
LEMMA TicketFields ==
    \A t \in Tickets : t.epoch \in Epochs /\ t.branch \in 0 .. MaxReorgs /\ t # NoTicket
  BY DEF Tickets

(* What a submitted ticket is.                                              *)
LEMMA SubmittedTicket ==
    ASSUME NEW o \in Offers, branch \in 0 .. MaxReorgs
    PROVE  [epoch |-> o.epoch, conns |-> o.conns, bytes |-> o.bytes, branch |-> branch]
               \in Tickets
  BY DEF Tickets

LEMMA InitIndInv == Init => IndInv
  <1> SUFFICES ASSUME Init PROVE IndInv
      OBVIOUS
  <1> USE DEF Init, NoFlush
  <1>1. TypeOK
      BY DEF TypeOK, Epochs, MaybeTickets
  <1>2. FlowOK /\ PastOK /\ RemovedOK
      BY DEF FlowOK, KeyOK, PastOK, Past, RemovedOK
  <1>3. LastTicketIsKept /\ AcceptedTicketIsFound
      BY DEF LastTicketIsKept, AcceptedTicketIsFound
  <1> QED
      BY <1>1, <1>2, <1>3 DEF IndInv

(* Every step keeps the types.                                              *)
LEMMA StepTypeOK == TypeOK /\ [Next]_vars => TypeOK'
  <1> SUFFICES ASSUME TypeOK, [Next]_vars PROVE TypeOK'
      OBVIOUS
  <1> USE TicketFields DEF TypeOK, MaybeTickets, chain, handlers
  <1>1. ASSUME NEW h \in Handlers, NEW o \in Offers, Submit(h, o) PROVE TypeOK'
      BY <1>1, SubmittedTicket DEF Submit
  <1>2. ASSUME NEW h \in Handlers, Add(h) PROVE TypeOK'
      BY <1>2 DEF Add, FindEts, FindSql, Accept, TooLow, Put
  <1>3. ASSUME NEW e \in Epochs, Fire(e) PROVE TypeOK'
      BY <1>3 DEF Fire, NoFlush
  <1>4. ASSUME FlushWrite \/ FlushRemove PROVE TypeOK'
      BY <1>4 DEF FlushWrite, FlushRemove, NoFlush
  <1>5. ASSUME NewEpoch \/ Reorganise PROVE TypeOK'
      BY <1>5 DEF NewEpoch, Reorganise, Epochs
  <1>6. CASE Crash
      BY <1>6 DEF Crash
  <1>7. CASE UNCHANGED vars
      BY <1>7 DEF vars
  <1> QED
      BY <1>1, <1>2, <1>3, <1>4, <1>5, <1>6, <1>7 DEF Next

(* The tickets on their way to the table are never older than the chain and *)
(* the pending one of a key is the one delayed last.                        *)
LEMMA StepFlow == IndInv /\ [Next]_vars => FlowOK' /\ PastOK'
  <1> SUFFICES ASSUME IndInv, [Next]_vars PROVE FlowOK' /\ PastOK'
      OBVIOUS
  <1> USE TicketFields
      DEF IndInv, TypeOK, MaybeTickets, FlowOK, KeyOK, PastOK, Past, chain, handlers
  <1>1. ASSUME NEW h \in Handlers, NEW o \in Offers, Submit(h, o) PROVE FlowOK' /\ PastOK'
      BY <1>1 DEF Submit
  <1>2. ASSUME NEW h \in Handlers, Add(h) PROVE FlowOK' /\ PastOK'
    <2>1. CASE FindEts(h) \/ FindSql(h)
        BY <2>1 DEF FindEts, FindSql
    <2>2. CASE Accept(h)
        BY <2>2 DEF Accept
    <2>3. CASE TooLow(h) \/ Put(h)
        BY <2>3 DEF TooLow, Put
    <2> QED
        BY <1>2, <2>1, <2>2, <2>3 DEF Add
  <1>3. ASSUME NEW e \in Epochs, Fire(e) PROVE FlowOK' /\ PastOK'
      BY <1>3 DEF Fire, NoFlush
  <1>4. CASE FlushWrite
      BY <1>4 DEF FlushWrite, NoFlush
  <1>5. CASE FlushRemove
      BY <1>5 DEF FlushRemove, NoFlush
  <1>6. CASE NewEpoch \/ Reorganise
      BY <1>6 DEF NewEpoch, Reorganise, Epochs, NoFlush
  <1>7. CASE Crash
      BY <1>7 DEF Crash, NoFlush
  <1>8. CASE UNCHANGED vars
      BY <1>8 DEF vars
  <1> QED
      BY <1>1, <1>2, <1>3, <1>4, <1>5, <1>6, <1>7, <1>8 DEF Next

(* The ticket delayed last stays pending, being written or in the table.    *)
LEMMA StepKept == IndInv /\ [Next]_vars => LastTicketIsKept'
  <1> SUFFICES ASSUME IndInv, [Next]_vars PROVE LastTicketIsKept'
      OBVIOUS
  <1> USE TicketFields
      DEF IndInv, TypeOK, MaybeTickets, FlowOK, KeyOK, PastOK, Past, chain, handlers,
          LastTicketIsKept, Recovers
  <1>1. ASSUME NEW h \in Handlers, NEW o \in Offers, Submit(h, o) PROVE LastTicketIsKept'
      BY <1>1 DEF Submit
  <1>2. ASSUME NEW h \in Handlers, Add(h) PROVE LastTicketIsKept'
      BY <1>2 DEF Add, FindEts, FindSql, Accept, TooLow, Put
  <1>3. ASSUME NEW e \in Epochs, Fire(e) PROVE LastTicketIsKept'
      BY <1>3 DEF Fire, NoFlush
  <1>4. CASE FlushWrite
      BY <1>4 DEF FlushWrite, NoFlush
  <1>5. CASE FlushRemove
      BY <1>5 DEF FlushRemove, NoFlush
  <1>6. CASE NewEpoch \/ Reorganise
      BY <1>6 DEF NewEpoch, Reorganise, Epochs
  <1>7. CASE Crash
      BY <1>7 DEF Crash
  <1>8. CASE UNCHANGED vars
      BY <1>8 DEF vars
  <1> QED
      BY <1>1, <1>2, <1>3, <1>4, <1>5, <1>6, <1>7, <1>8 DEF Next

(* find sees an accepted ticket before, while and after it is flushed.      *)
LEMMA StepFound == IndInv /\ [Next]_vars => RemovedOK' /\ AcceptedTicketIsFound'
  <1> SUFFICES ASSUME IndInv, [Next]_vars PROVE RemovedOK' /\ AcceptedTicketIsFound'
      OBVIOUS
  <1> USE TicketFields
      DEF IndInv, TypeOK, MaybeTickets, PastOK, Past, chain, handlers, RemovedOK,
          AcceptedTicketIsFound, Find, Recovers
  <1>1. ASSUME NEW h \in Handlers, NEW o \in Offers, Submit(h, o)
        PROVE  RemovedOK' /\ AcceptedTicketIsFound'
      BY <1>1 DEF Submit
  <1>2. ASSUME NEW h \in Handlers, Add(h) PROVE RemovedOK' /\ AcceptedTicketIsFound'
    <2>1. CASE FindEts(h) \/ FindSql(h) \/ TooLow(h)
        BY <2>1 DEF FindEts, FindSql, TooLow
    <2>2. CASE Accept(h)
        BY <2>2 DEF Accept
    <2>3. CASE Put(h)
        BY <2>3 DEF Put
    <2> QED
        BY <1>2, <2>1, <2>2, <2>3 DEF Add
  <1>3. ASSUME NEW e \in Epochs, Fire(e) PROVE RemovedOK' /\ AcceptedTicketIsFound'
      BY <1>3 DEF Fire, NoFlush
  <1>4. CASE FlushWrite
      BY <1>4 DEF FlushWrite, NoFlush
  <1>5. CASE FlushRemove
      BY <1>5 DEF FlushRemove, NoFlush
  <1>6. CASE NewEpoch \/ Reorganise
      BY <1>6 DEF NewEpoch, Reorganise, Epochs
  <1>7. CASE Crash
      BY <1>7 DEF Crash, NoFlush
  <1>8. CASE UNCHANGED vars
      BY <1>8 DEF vars
  <1> QED
      BY <1>1, <1>2, <1>3, <1>4, <1>5, <1>6, <1>7, <1>8 DEF Next

LEMMA Invariance == Spec => []IndInv
  <1>1. IndInv /\ [Next]_vars => IndInv'
      BY StepTypeOK, StepFlow, StepKept, StepFound DEF IndInv
  <1> QED
      BY InitIndInv, <1>1, PTL DEF Spec

(* The tables, the Debouncer and the handlers stay well-typed: a delayed    *)
(* flush is kept under the key of its ticket (put_ticket).                  *)
THEOREM TicketTypeCorrect == Spec => []TypeOK
  <1>1. IndInv => TypeOK
      BY DEF IndInv
  <1> QED
      BY Invariance, <1>1, PTL

(* The ticket that put_ticket delayed last is never dropped on its way to   *)
(* the table, whatever flush and other connection it races with.            *)
THEOREM LastTicketIsNeverLost == Spec => []LastTicketIsKept
  <1>1. IndInv => LastTicketIsKept
      BY DEF IndInv
  <1> QED
      BY Invariance, <1>1, PTL

(* find never forgets a key in the middle of a flush.                       *)
THEOREM AcceptedTicketStaysVisible == Spec => []AcceptedTicketIsFound
  <1>1. IndInv => AcceptedTicketIsFound
      BY DEF IndInv
  <1> QED
      BY Invariance, <1>1, PTL

==============================================================================
