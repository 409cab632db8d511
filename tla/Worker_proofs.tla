----------------------------- MODULE Worker_proofs -----------------------------
(***************************************************************************)
(* Proofs about Worker for every set of transactions, pool, fee and mode: a *)
(* set `working' has its message until do_work drops it, every transaction  *)
(* of the main chain runs at its nonce, and the types.                      *)
(***************************************************************************)
EXTENDS Worker, FoldLemmas, FiniteSetTheorems

LEMMA SetWorking ==
    ASSUME NEW s, s = Fields(s), NEW b
    PROVE  [s EXCEPT !.working = b] = [mode |-> s.mode, parent |-> s.parent,
               proposal |-> s.proposal, candidate |-> s.candidate, working |-> b]
    BY DEF Fields

LEMMA SetParent ==
    ASSUME NEW s, s = Fields(s), NEW p, NEW c
    PROVE  [s EXCEPT !.parent = p, !.candidate = c] = [mode |-> s.mode, parent |-> p,
               proposal |-> s.proposal, candidate |-> c, working |-> s.working]
<1> DEFINE t == [s EXCEPT !.parent = p, !.candidate = c]
<1>1. DOMAIN s = {"mode", "parent", "proposal", "candidate", "working"}
    BY DEF Fields
<1>2. t = [x \in DOMAIN s |-> IF x = "candidate" THEN c ELSE IF x = "parent" THEN p ELSE s[x]]
    BY <1>1
<1> HIDE DEF t
<1>3. t = [mode |-> s.mode, parent |-> p, proposal |-> s.proposal,
           candidate |-> c, working |-> s.working]
    BY <1>1, <1>2
<1> QED
    BY <1>3 DEF t

(* What activate_timer does to a state, and to the mailbox.                 *)
LEMMA TimerFacts ==
    ASSUME NEW s, s = Fields(s)
    PROVE  /\ Activated(s) = Fields(Activated(s))
           /\ Activated(s).mode = s.mode
           /\ Activated(s).working = (s.working \/ Schedules(s))
           /\ Schedules(s) => Sent(s) = <<"work">>
           /\ ~Schedules(s) => Sent(s) = <<>>
<1> DEFINE b == s.working \/ Schedules(s)
<1>1. Activated(s) = [s EXCEPT !.working = b]
    BY DEF Activated
<1> HIDE DEF b
<1>2. Activated(s) = [mode |-> s.mode, parent |-> s.parent, proposal |-> s.proposal,
                      candidate |-> s.candidate, working |-> b]
    BY <1>1 DEF Fields
<1> QED
    BY <1>2 DEF b, Fields, Sent

(* do_update keeps working set, and when it sets it, it sends the message.  *)
LEMMA UpdateFacts ==
    ASSUME w = Fields(w), w.working \in BOOLEAN
    PROVE  /\ Refreshed(w) = Fields(Refreshed(w))
           /\ Refreshed(w).mode = w.mode /\ Refreshed(w).working = w.working
           /\ Updated(w) = Fields(Updated(w))
           /\ Updated(w).mode = w.mode /\ Updated(w).working \in BOOLEAN
           /\ \/ UpdateSends(w) = <<>> /\ Updated(w).working = w.working
              \/ UpdateSends(w) = <<"work">> /\ Updated(w).working
<1> DEFINE txs == PayingProposal
           r == Refreshed(w)
<1>1. r = [w EXCEPT !.parent = seen, !.proposal = txs]
    BY DEF Refreshed
<1> HIDE DEF txs
<1>2. r = [mode |-> w.mode, parent |-> seen, proposal |-> txs,
           candidate |-> w.candidate, working |-> w.working]
    BY <1>1 DEF Fields
<1>3. r = Fields(r) /\ r.mode = w.mode /\ r.working = w.working
    BY <1>2 DEF Fields
<1>4. CASE r = w
    BY <1>3, <1>4 DEF Updated, UpdateSends
<1>5. CASE r # w
    <2> DEFINE a == Activated(r)
    <2>1. /\ a = Fields(a) /\ a.mode = w.mode
          /\ a.working = (r.working \/ Schedules(r))
          /\ Schedules(r) => Sent(r) = <<"work">>
          /\ ~Schedules(r) => Sent(r) = <<>>
        BY <1>3, TimerFacts
    <2>2. Updated(w) = [a EXCEPT !.candidate = NoBlock] /\ UpdateSends(w) = Sent(r)
        BY <1>5 DEF Updated, UpdateSends
    <2> HIDE DEF a, r
    <2>3. Updated(w) = [mode |-> a.mode, parent |-> a.parent, proposal |-> a.proposal,
                        candidate |-> NoBlock, working |-> a.working]
        BY <2>1, <2>2 DEF Fields
    <2>4. /\ Updated(w) = Fields(Updated(w)) /\ Updated(w).mode = w.mode
          /\ Updated(w).working = a.working
        BY <2>1, <2>3 DEF Fields
    <2>5. CASE Schedules(r)
        BY <1>3, <2>1, <2>2, <2>4, <2>5 DEF r
    <2>6. CASE ~Schedules(r)
        BY <1>3, <2>1, <2>2, <2>4, <2>6 DEF r
    <2> QED
        BY <1>3, <2>4, <2>5, <2>6 DEF r
<1> QED
    BY <1>3, <1>4, <1>5

-----------------------------------------------------------------------------
(* Mailboxes.                                                              *)

LEMMA InConcat ==
    ASSUME NEW S, NEW s \in Seq(S), NEW t \in Seq(S)
    PROVE  ToSet(s \o t) = ToSet(s) \cup ToSet(t)
<1>1. ASSUME NEW i \in DOMAIN s PROVE s[i] \in ToSet(s \o t)
    BY <1>1 DEF ToSet
<1>2. ASSUME NEW i \in DOMAIN t PROVE t[i] \in ToSet(s \o t)
    <2>1. Len(s) + i \in DOMAIN (s \o t) /\ (s \o t)[Len(s) + i] = t[i]
        OBVIOUS
    <2> QED
        BY <2>1 DEF ToSet
<1>3. ASSUME NEW i \in DOMAIN (s \o t) PROVE (s \o t)[i] \in ToSet(s) \cup ToSet(t)
    <2>1. CASE i <= Len(s)
        BY <2>1 DEF ToSet
    <2>2. CASE ~(i <= Len(s))
        <3>1. i - Len(s) \in DOMAIN t /\ (s \o t)[i] = t[i - Len(s)]
            BY <2>2
        <3> QED
            BY <3>1 DEF ToSet
    <2> QED
        BY <2>1, <2>2
<1> QED
    BY <1>1, <1>2, <1>3 DEF ToSet

LEMMA InTail ==
    ASSUME NEW S, NEW s \in Seq(S), s # <<>>, NEW m \in ToSet(s), m # Head(s)
    PROVE  m \in ToSet(Tail(s))
<1>1. PICK i \in DOMAIN s : s[i] = m
    BY DEF ToSet
<1>2. i - 1 \in DOMAIN Tail(s) /\ Tail(s)[i - 1] = m
    BY <1>1
<1> QED
    BY <1>2 DEF ToSet

(* A message that is taken from the mailbox leaves the others there.        *)
LEMMA ReceiveFacts ==
    ASSUME ScheduleOK, NEW m, Receive(m)
    PROVE  /\ pc = "receive" /\ task = "none" /\ m \in Messages
           /\ mailbox' \in Seq(Messages)
           /\ "work" \in ToSet(mailbox) => m = "work" \/ "work" \in ToSet(mailbox')
<1>1. mailbox \in Seq(Messages) /\ mailbox # <<>> /\ Head(mailbox) = m /\ mailbox' = Tail(mailbox)
    BY DEF Receive, ScheduleOK
<1> QED
    BY <1>1, InTail DEF Receive, ScheduleOK

(* A message that is sent is there, and so are those before it.             *)
LEMMA SendFacts ==
    ASSUME ScheduleOK, NEW sends \in Seq(Messages), mailbox' = mailbox \o sends
    PROVE  /\ mailbox' \in Seq(Messages)
           /\ ToSet(mailbox') = ToSet(mailbox) \cup ToSet(sends)
    BY InConcat DEF ScheduleOK

LEMMA WorkMessage == <<"work">> \in Seq(Messages) /\ "work" \in ToSet(<<"work">>)
    BY DEF ToSet, Messages

LEMMA NoMessage == <<>> \in Seq(Messages)
    OBVIOUS

-----------------------------------------------------------------------------
(* ScheduleOK is inductive.                                                *)

LEMMA ScheduleInit == Init => ScheduleOK
<1> SUFFICES ASSUME Init PROVE ScheduleOK
    OBVIOUS
<1>1. Fresh = Fields(Fresh) /\ Fresh.mode = InitialMode /\ Fresh.working = FALSE
    BY DEF Fresh, Fields
<1>2. /\ w = Activated(Fresh) /\ mailbox = Sent(Fresh) /\ pc = "receive" /\ task = "none"
    BY DEF Init
<1>3. /\ w = Fields(w) /\ w.mode = InitialMode /\ (w.working = (FALSE \/ Schedules(Fresh)))
      /\ Schedules(Fresh) => mailbox = <<"work">>
      /\ ~Schedules(Fresh) => mailbox = <<>>
    BY <1>1, <1>2, TimerFacts
<1>4. w.working \in BOOLEAN /\ mailbox \in Seq(Messages)
    BY <1>3, WorkMessage, NoMessage
<1>5. WorkIsScheduled
    BY <1>3, WorkMessage DEF WorkIsScheduled
<1> QED
    BY <1>2, <1>3, <1>4, <1>5, WorkerAssumption DEF ScheduleOK

(* A step that ends a message with activate_timer.                          *)
LEMMA TimerStep ==
    ASSUME ScheduleOK, NEW s, s = Fields(s), s.mode = w.mode, s.working \in BOOLEAN,
           w' = Activated(s), NEW before \in Seq(Messages),
           s.working => "work" \in ToSet(mailbox \o before),
           mailbox' = (mailbox \o before) \o Sent(s), Done
    PROVE  ScheduleOK'
<1>1. /\ w' = Fields(w)' /\ w'.mode = w.mode
      /\ w'.working = (s.working \/ Schedules(s)) /\ w'.working \in BOOLEAN
      /\ Schedules(s) => Sent(s) = <<"work">>
      /\ ~Schedules(s) => Sent(s) = <<>>
    <2>1. /\ Activated(s) = Fields(Activated(s)) /\ Activated(s).mode = s.mode
          /\ Activated(s).working = (s.working \/ Schedules(s))
          /\ Schedules(s) => Sent(s) = <<"work">>
          /\ ~Schedules(s) => Sent(s) = <<>>
        BY TimerFacts
    <2> QED
        BY <2>1 DEF Fields
<1>2. Sent(s) \in Seq(Messages)
    BY <1>1, WorkMessage, NoMessage
<1> DEFINE box == mailbox \o before
           sends == Sent(s)
<1>3. box \in Seq(Messages)
    <2>1. mailbox \in Seq(Messages)
        BY DEF ScheduleOK
    <2> QED
        BY <2>1
<1>4. mailbox' = box \o sends /\ sends \in Seq(Messages)
    BY <1>2
<1> HIDE DEF box, sends
<1>5. /\ mailbox' \in Seq(Messages)
      /\ ToSet(mailbox') = ToSet(box) \cup ToSet(sends)
    BY <1>4, <1>3, InConcat
<1>6. w'.working => "work" \in ToSet(mailbox')
    BY <1>1, <1>5, WorkMessage DEF box, sends
<1>7. task' = "none" /\ pc' = "receive"
    BY DEF Done
<1> QED
    BY <1>1, <1>5, <1>6, <1>7 DEF ScheduleOK, WorkIsScheduled

(* The end of do_work: working is reset before the timer is set.            *)
LEMMA GiveUpStep ==
    ASSUME ScheduleOK, NEW s, s = Fields(s), s.mode = w.mode, GiveUp(s)
    PROVE  ScheduleOK'
<1> DEFINE t == [s EXCEPT !.working = FALSE]
<1>1. t = [mode |-> s.mode, parent |-> s.parent, proposal |-> s.proposal,
           candidate |-> s.candidate, working |-> FALSE]
    BY SetWorking
<1>2. t = Fields(t) /\ t.mode = w.mode /\ t.working = FALSE
    BY <1>1 DEF Fields
<1>3. w' = Activated(t) /\ mailbox' = mailbox \o Sent(t) /\ Done
    BY DEF GiveUp
<1>4. mailbox = mailbox \o <<>>
    BY DEF ScheduleOK
<1> HIDE DEF t
<1> QED
    BY <1>2, <1>3, <1>4, NoMessage, TimerStep

(* Handlers that end or go on without a change of mode, working or mailbox. *)
LEMMA QuietStep ==
    ASSUME ScheduleOK, UNCHANGED mailbox, past \subseteq past',
           w' = Fields(w)', w'.mode = w.mode, w'.working = w.working,
           pc' = "receive" => task' = "none",
           pc' = "added" \/ task' = "added" => ~w.working,
           task' = task \/ task \notin {"work", "update_work"}
    PROVE  ScheduleOK'
    BY DEF ScheduleOK, WorkIsScheduled

LEMMA ReceiveStep ==
    ASSUME ScheduleOK,
           \/ HandleSetMode \/ HandleUpdate \/ HandleUpdateWork \/ HandleWorkDisabled
           \/ \E t \in {"work", "candidate"} : HandleGenerate(t)
    PROVE  ScheduleOK'
<1>1. CASE HandleSetMode
    <2>1. PICK m \in AllModes : Receive(m) /\ w' = [w EXCEPT !.mode = m, !.parent = NoBlock]
                               /\ UNCHANGED control /\ past \subseteq past'
        BY <1>1 DEF HandleSetMode
    <2>2. /\ pc = "receive" /\ task = "none" /\ m \in Messages /\ mailbox' \in Seq(Messages)
          /\ "work" \in ToSet(mailbox) => "work" \in ToSet(mailbox')
        BY <2>1, ReceiveFacts DEF AllModes
    <2>3. w' = Fields(w)' /\ w'.mode = m /\ w'.working = w.working
        BY <2>1 DEF ScheduleOK, Fields
    <2> QED
        BY <2>1, <2>2, <2>3 DEF ScheduleOK, WorkIsScheduled, control
<1>2. CASE HandleUpdate
    <2>1. Receive("update") /\ task' = "update" /\ pc' = "pool" /\ w' = w /\ past' = past
        BY <1>2 DEF HandleUpdate, ReadPeak, rest
    <2>2. /\ pc = "receive" /\ task = "none" /\ mailbox' \in Seq(Messages)
          /\ "work" \in ToSet(mailbox) => "work" \in ToSet(mailbox')
        BY <2>1, ReceiveFacts
    <2> QED
        BY <2>1, <2>2 DEF ScheduleOK, WorkIsScheduled, Fields
<1>3. CASE HandleUpdateWork
    <2>1. /\ Receive("update_work") /\ task' = "update_work" /\ pc' = "pool"
          /\ w' = [w EXCEPT !.working = TRUE]
        BY <1>3 DEF HandleUpdateWork, ReadPeak
    <2>2. mailbox' \in Seq(Messages)
        BY <2>1, ReceiveFacts
    <2>3. w' = [mode |-> w.mode, parent |-> w.parent, proposal |-> w.proposal,
                candidate |-> w.candidate, working |-> TRUE]
        BY <2>1, SetWorking DEF ScheduleOK
    <2>4. w' = Fields(w)' /\ w'.mode = w.mode /\ w'.working = TRUE
        BY <2>3 DEF Fields
    <2> QED
        BY <2>1, <2>2, <2>4 DEF ScheduleOK, WorkIsScheduled
<1>4. CASE HandleWorkDisabled
    <2>1. Receive("work") /\ "skipped" \in past' /\ w' = w /\ UNCHANGED control
        BY <1>4 DEF HandleWorkDisabled
    <2>2. mailbox' \in Seq(Messages)
        BY <2>1, ReceiveFacts
    <2> QED
        BY <2>1, <2>2 DEF ScheduleOK, WorkIsScheduled, Fields, control
<1>5. ASSUME NEW t \in {"work", "candidate"}, HandleGenerate(t) PROVE ScheduleOK'
    <2>1. Receive(t) /\ task' = t /\ pc' \in {"pool", "build"} /\ w' = w /\ past \subseteq past'
        BY <1>5 DEF HandleGenerate, ReadPeak
    <2>2. /\ pc = "receive" /\ task = "none" /\ mailbox' \in Seq(Messages)
          /\ "work" \in ToSet(mailbox) => t = "work" \/ "work" \in ToSet(mailbox')
        BY <2>1, ReceiveFacts
    <2> QED
        BY <2>1, <2>2 DEF ScheduleOK, WorkIsScheduled, Fields
<1> QED
    BY <1>1, <1>2, <1>3, <1>4, <1>5

LEMMA ReadPoolStep ==
    ASSUME ScheduleOK, ReadPoolToUpdate \/ ReadPoolToBuild \/ ReadPoolAfterBlock
    PROVE  ScheduleOK'
<1>1. w = Fields(w) /\ w.working \in BOOLEAN /\ mailbox \in Seq(Messages)
    BY DEF ScheduleOK
<1> DEFINE sends == UpdateSends(w)
           u == Updated(w)
<1>2. /\ u = Fields(u) /\ u.mode = w.mode /\ u.working \in BOOLEAN
      /\ \/ sends = <<>> /\ u.working = w.working
         \/ sends = <<"work">> /\ u.working
    BY <1>1, UpdateFacts
<1>3. sends \in Seq(Messages)
    BY <1>2, WorkMessage, NoMessage
<1>4. CASE ReadPoolToUpdate
    <2>1. /\ task \in {"update", "update_work"} /\ w' = u /\ mailbox' = mailbox \o sends
          /\ past \subseteq past'
          /\ \/ pc' = "build" /\ task' = "update_work"
             \/ /\ pc' = "receive" /\ task' = "none"
                /\ task = "update" \/ "skipped" \in past'
        BY <1>1, <1>4 DEF ReadPoolToUpdate, Done
    <2> HIDE DEF u, sends
    <2>2. mailbox' \in Seq(Messages) /\ ToSet(mailbox') = ToSet(mailbox) \cup ToSet(sends)
        BY <1>3, <2>1, SendFacts
    <2>3. w' = Fields(w)' /\ w'.mode = w.mode
        BY <1>2, <2>1 DEF Fields
    <2>4. CASE sends = <<>> /\ u.working = w.working
        BY <2>1, <2>2, <2>3, <2>4 DEF ScheduleOK, WorkIsScheduled
    <2>5. CASE sends = <<"work">> /\ u.working
        <3>1. "work" \in ToSet(mailbox')
            BY <2>2, <2>5, WorkMessage
        <3>2. w'.working \in BOOLEAN
            BY <1>2, <2>1
        <3> QED
            BY <2>1, <2>2, <2>3, <3>1, <3>2 DEF ScheduleOK, WorkIsScheduled
    <2> QED
        BY <1>2, <2>4, <2>5
<1>5. CASE ReadPoolToBuild
    <2>1. /\ w' = Refreshed(w) /\ pc' = "build" /\ UNCHANGED <<mailbox, task, past>>
          /\ task \in {"work", "candidate"}
        BY <1>5 DEF ReadPoolToBuild, rest
    <2>2. w' = Fields(w)' /\ w'.mode = w.mode /\ w'.working = w.working
        BY <1>1, <2>1, UpdateFacts DEF Fields
    <2> QED
        BY <2>1, <2>2, QuietStep
<1>6. CASE ReadPoolAfterBlock
    <2>1. task = "added" /\ w' = Activated(u) /\ mailbox' = mailbox \o sends \o Sent(u) /\ Done
        BY <1>6 DEF ReadPoolAfterBlock
    <2>2. ~w.working
        BY <2>1 DEF ScheduleOK
    <2> HIDE DEF u, sends
    <2>3. ToSet(mailbox \o sends) = ToSet(mailbox) \cup ToSet(sends)
        BY <1>1, <1>3, InConcat
    <2>4. u.working \in BOOLEAN /\ (u.working => "work" \in ToSet(mailbox \o sends))
        BY <1>1, <1>2, <2>2, <2>3, WorkMessage
    <2> QED
        BY <1>2, <1>3, <2>1, <2>4, TimerStep
<1> QED
    BY <1>4, <1>5, <1>6

LEMMA BuildStep ==
    ASSUME ScheduleOK, KeepCandidate \/ BuildCandidate \/ FindValid
    PROVE  ScheduleOK'
<1>1. w = Fields(w) /\ pc # "receive"
    BY DEF ScheduleOK, KeepCandidate, BuildCandidate, FindValid
<1>2. UNCHANGED <<mailbox, past>>
    BY DEF KeepCandidate, BuildCandidate, FindValid, rest
<1>3. \/ pc' \in {"mine", "submit"} /\ task' = task
      \/ task = "candidate" /\ task' = "none" /\ pc' = "receive"
    BY DEF KeepCandidate, BuildCandidate, FindValid, AfterBuild, Done
<1>4. w' = Fields(w)' /\ w'.mode = w.mode /\ w'.working = w.working
    <2>1. CASE w' = w
        BY <1>1, <2>1 DEF Fields
    <2>2. CASE BuildCandidate
        <3> DEFINE c == [parent |-> w.parent, fresh |-> TRUE, txs |-> Applied(w.parent, w.proposal)]
                   p == Proposal'
        <3>1. w' = [w EXCEPT !.candidate = c, !.proposal = p]
            BY <2>2 DEF BuildCandidate
        <3> HIDE DEF c, p
        <3> QED
            BY <1>1, <3>1 DEF Fields
    <2> QED
        BY <2>1, <2>2 DEF KeepCandidate, FindValid
<1>5. task' # "added" \/ ~w.working
    BY <1>3 DEF ScheduleOK
<1> QED
    BY <1>2, <1>3, <1>4, <1>5, QuietStep

LEMMA MineStep ==
    ASSUME ScheduleOK,
           \/ MissTarget \/ FindInvalid \/ BlockStored \/ ReadNewPeak
           \/ BlockAdded \/ BlockReorganises \/ BlockTakenForKnown
    PROVE  ScheduleOK'
<1>1. w = Fields(w)
    BY DEF ScheduleOK
<1>2. CASE MissTarget
    BY <1>1, <1>2, GiveUpStep DEF MissTarget
<1>3. CASE FindInvalid \/ BlockStored
    <2>1. GiveUp(Forgotten)
        BY <1>3 DEF FindInvalid, BlockStored
    <2>2. Forgotten = Fields(Forgotten) /\ Forgotten.mode = w.mode
        <3>1. Forgotten = [mode |-> w.mode, parent |-> NoBlock, proposal |-> w.proposal,
                           candidate |-> NoBlock, working |-> w.working]
            BY <1>1, SetParent DEF Forgotten
        <3> QED
            BY <3>1 DEF Fields
    <2> QED
        BY <2>1, <2>2, GiveUpStep
<1>4. CASE BlockAdded \/ BlockReorganises \/ BlockTakenForKnown
    <2>1. w' = [w EXCEPT !.working = FALSE] /\ pc' = "added" /\ UNCHANGED <<mailbox, task, past>>
        BY <1>4 DEF BlockAdded, BlockReorganises, BlockTakenForKnown, Added, Answered, rest
    <2>2. w' = [mode |-> w.mode, parent |-> w.parent, proposal |-> w.proposal,
                candidate |-> w.candidate, working |-> FALSE]
        BY <1>1, <2>1, SetWorking
    <2>3. w' = Fields(w)' /\ w'.mode = w.mode /\ w'.working = FALSE
        BY <2>2 DEF Fields
    <2> QED
        BY <2>1, <2>3 DEF ScheduleOK, WorkIsScheduled
<1>5. CASE ReadNewPeak
    <2>1. pc = "added" /\ task' = "added" /\ pc' = "pool" /\ UNCHANGED <<w, mailbox, past>>
        BY <1>5 DEF ReadNewPeak, ReadPeak, rest
    <2> QED
        BY <2>1 DEF ScheduleOK, WorkIsScheduled, Fields
<1> QED
    BY <1>2, <1>3, <1>4, <1>5

(* Everybody else.                                                         *)
LEMMA MessageStep ==
    ASSUME ScheduleOK, NEW m \in Messages, mailbox' = Append(mailbox, m), UNCHANGED <<w, control, past>>
    PROVE  ScheduleOK'
<1>1. mailbox \in Seq(Messages) /\ <<m>> \in Seq(Messages) /\ mailbox' = mailbox \o <<m>>
    BY DEF ScheduleOK
<1>2. mailbox' \in Seq(Messages) /\ ToSet(mailbox) \subseteq ToSet(mailbox')
    BY <1>1, SendFacts
<1> QED
    BY <1>2 DEF ScheduleOK, WorkIsScheduled, control, Fields

LEMMA WorldStep ==
    ASSUME ScheduleOK,
           \/ \E t \in Txs : AddTransaction(t)
           \/ DeliverUpdate
           \/ \E txs \in Bodies(chain), m \in Peers : PeerExtends(txs, m)
           \/ \E txs \in {<<>>} \cup {<<t>> : t \in Txs}, m \in Peers : PeerReorganises(txs, m)
           \/ \E m \in Modes \cup {"update_work", "candidate"} : Call(m)
           \/ CandidateAges
           \/ UNCHANGED vars
    PROVE  ScheduleOK'
<1>1. CASE UNCHANGED <<mailbox, w, control, past>>
    BY <1>1 DEF ScheduleOK, WorkIsScheduled, control, Fields
<1>2. ASSUME NEW m \in Messages, mailbox' = Append(mailbox, m), UNCHANGED <<w, control, past>>
      PROVE  ScheduleOK'
    BY <1>2, MessageStep
<1>3. CASE DeliverUpdate
    BY <1>2, <1>3 DEF DeliverUpdate, Messages, rest
<1>4. ASSUME NEW m \in Modes \cup {"update_work", "candidate"}, Call(m) PROVE ScheduleOK'
    <2>1. m \in Messages
        BY WorkerAssumption DEF Messages
    <2> QED
        BY <1>2, <1>4, <2>1 DEF Call
<1>5. CASE CandidateAges
    <2>1. w' = [w EXCEPT !.candidate.fresh = FALSE] /\ UNCHANGED <<mailbox, control, past>>
        BY <1>5 DEF CandidateAges, rest
    <2> DEFINE c == [w.candidate EXCEPT !.fresh = FALSE]
    <2>2. w' = [w EXCEPT !.candidate = c]
        BY <2>1
    <2> HIDE DEF c
    <2>3. w' = Fields(w)' /\ w'.mode = w.mode /\ w'.working = w.working
        BY <2>2 DEF ScheduleOK, Fields
    <2> QED
        BY <2>1, <2>3 DEF ScheduleOK, WorkIsScheduled, control
<1>6. ASSUME NEW t \in Txs, AddTransaction(t) PROVE ScheduleOK'
    BY <1>1, <1>6 DEF AddTransaction, rest
<1>7. ASSUME NEW txs, NEW m, PeerExtends(txs, m) \/ PeerReorganises(txs, m) PROVE ScheduleOK'
    BY <1>1, <1>7 DEF PeerExtends, PeerReorganises, rest
<1>8. CASE UNCHANGED vars
    BY <1>1, <1>8 DEF vars, control, rest
<1> QED
    BY <1>3, <1>4, <1>5, <1>6, <1>7, <1>8

LEMMA RestartStep ==
    ASSUME ScheduleOK, Restart
    PROVE  ScheduleOK'
<1>1. Fresh = Fields(Fresh) /\ Fresh.mode = InitialMode /\ Fresh.working = FALSE
    BY DEF Fresh, Fields
<1>2. w' = Activated(Fresh) /\ mailbox' = Sent(Fresh) /\ pc' = "receive" /\ task' = "none"
    BY DEF Restart, Done
<1>3. /\ w' = Fields(w)' /\ w'.mode = InitialMode /\ (w'.working = (FALSE \/ Schedules(Fresh)))
      /\ Schedules(Fresh) => mailbox' = <<"work">>
      /\ ~Schedules(Fresh) => mailbox' = <<>>
    BY <1>1, <1>2, TimerFacts DEF Fields
<1>4. w'.working \in BOOLEAN /\ mailbox' \in Seq(Messages)
    BY <1>3, WorkMessage, NoMessage
<1>5. WorkIsScheduled'
    BY <1>3, WorkMessage DEF WorkIsScheduled
<1> QED
    BY <1>2, <1>3, <1>4, <1>5, WorkerAssumption DEF ScheduleOK

LEMMA ScheduleStep == ScheduleOK /\ [Next]_vars => ScheduleOK'
<1> SUFFICES ASSUME ScheduleOK, [Next]_vars PROVE ScheduleOK'
    OBVIOUS
<1>1. CASE Step
    BY <1>1, ReceiveStep, ReadPoolStep, BuildStep, MineStep DEF Step
<1>2. CASE Restart
    BY <1>2, RestartStep
<1> QED
    BY <1>1, <1>2, WorldStep DEF Next

(* The worker keeps its promise: while no do_work was skipped, a set        *)
(* working has a :work message in the mailbox or being handled, whatever    *)
(* blocks, transactions, updates, mode changes and restarts come between    *)
(* the calls of its handlers.                                               *)
THEOREM PromisedWorkIsScheduled == Spec => []WorkIsScheduled
<1>1. ScheduleOK => WorkIsScheduled
    BY DEF ScheduleOK
<1> QED
    BY <1>1, ScheduleInit, ScheduleStep, PTL DEF Spec

-----------------------------------------------------------------------------
(* Sorting.  The least element of a finite set goes first, and the rest     *)
(* sorted after it: there is something for SortedBy to choose.              *)
Sorted(s, S, key) ==
    /\ s \in [1 .. Cardinality(S) -> S]
    /\ \A i, j \in DOMAIN s : i < j => s[i] # s[j] /\ key[s[i]] <= key[s[j]]

LEMMA SortExists ==
    ASSUME NEW A, NEW key \in [A -> Nat], NEW n \in Nat,
           NEW S \in SUBSET A, IsFiniteSet(S), Cardinality(S) = n + 1,
           \A T \in SUBSET A : IsFiniteSet(T) /\ Cardinality(T) = n => \E t : Sorted(t, T, key)
    PROVE  \E s : Sorted(s, S, key)
<1> DEFINE K == {key[x] : x \in S}
<1>1. K \in SUBSET Nat /\ K # {}
    <2>1. S # {}
        BY FS_EmptySet
    <2> QED BY <2>1
<1>2. PICK k \in K : \A l \in K : k <= l
    <2> HIDE DEF K
    <2> QED BY <1>1, NatLeast
<1>3. PICK x \in S : key[x] = k
    BY <1>2
<1>4. \A y \in S : key[x] <= key[y]
    BY <1>2, <1>3
<1> DEFINE T == S \ {x}
<1>5. T \in SUBSET A /\ IsFiniteSet(T) /\ Cardinality(T) = n
    <2>1. IsFiniteSet(T) /\ Cardinality(T) = Cardinality(S) - 1
        <3> HIDE DEF K
        <3> QED BY FS_RemoveElement
    <2>2. (n + 1) - 1 = n
        OBVIOUS
    <2> QED BY <2>1, <2>2
<1>6. PICK t : Sorted(t, T, key)
    <2> HIDE DEF T
    <2> QED BY <1>5
<1>7. /\ t \in [1 .. n -> T]
      /\ \A i, j \in 1 .. n : i < j => t[i] # t[j] /\ key[t[i]] <= key[t[j]]
    BY <1>5, <1>6 DEF Sorted
<1> DEFINE s == [i \in 1 .. n + 1 |-> IF i = 1 THEN x ELSE t[i - 1]]
<1>8. ASSUME NEW i \in 1 .. n + 1, i # 1
      PROVE  i - 1 \in 1 .. n /\ s[i] = t[i - 1] /\ t[i - 1] \in T
    BY <1>7, <1>8
<1>9. s \in [1 .. n + 1 -> S] /\ s[1] = x
    BY <1>7, <1>8
<1>10. ASSUME NEW i \in 1 .. n + 1, NEW j \in 1 .. n + 1, i < j
       PROVE  s[i] # s[j] /\ key[s[i]] <= key[s[j]]
    <2>1. j # 1
        BY <1>10
    <2>2. CASE i = 1
        BY <1>4, <1>8, <1>9, <2>1, <2>2
    <2>3. CASE i # 1
        <3>1. i - 1 < j - 1
            BY <1>10
        <3> HIDE DEF s
        <3> QED BY <1>7, <1>8, <2>1, <2>3, <3>1
    <2> QED BY <2>2, <2>3
<1>11. DOMAIN s = 1 .. n + 1
    OBVIOUS
<1> HIDE DEF s
<1> QED BY <1>9, <1>10, <1>11 DEF Sorted

LEMMA SortedByTyped ==
    ASSUME NEW A, NEW key \in [A -> Nat], NEW S \in SUBSET A, IsFiniteSet(S)
    PROVE  SortedBy(S, key) \in Seq(S)
<1> DEFINE Has(T) == \E s : Sorted(s, T, key)
           All == {n \in Nat : \A T \in SUBSET A :
                       IsFiniteSet(T) /\ Cardinality(T) = n => Has(T)}
<1>1. 0 \in All
    <2>1. ASSUME NEW T \in SUBSET A, IsFiniteSet(T), Cardinality(T) = 0
          PROVE  Has(T)
        <3> DEFINE e == [i \in 1 .. 0 |-> 0]
        <3>1. e \in [1 .. 0 -> T] /\ DOMAIN e = {}
            OBVIOUS
        <3>2. Sorted(e, T, key)
            BY <2>1, <3>1 DEF Sorted
        <3> QED BY <3>2
    <2> QED BY <2>1
<1>2. ASSUME NEW n \in All PROVE n + 1 \in All
    <2>1. ASSUME NEW T \in SUBSET A, IsFiniteSet(T), Cardinality(T) = n + 1
          PROVE  Has(T)
        BY <2>1, SortExists
    <2> QED BY <2>1
<1>3. All = Nat
    <2>1. All \in SUBSET Nat
        OBVIOUS
    <2> HIDE DEF All
    <2> QED BY <1>1, <1>2, <2>1, NatSetInduction
<1>4. Cardinality(S) \in Nat
    BY FS_CardinalityType
<1>5. PICK s : Sorted(s, S, key)
    BY <1>3, <1>4
<1>6. SortedBy(S, key) \in [1 .. Cardinality(S) -> S]
    BY <1>5 DEF Sorted, SortedBy
<1> QED BY <1>4, <1>6

(* What the pool proposes are transactions.                                *)
LEMMA ProposalTyped ==
    pool \subseteq Txs /\ IsFiniteSet(pool) =>
        Proposal \in Seq(Txs) /\ PayingProposal \in Seq(Txs)
<1> SUFFICES ASSUME pool \subseteq Txs, IsFiniteSet(pool)
             PROVE  Proposal \in Seq(Txs) /\ PayingProposal \in Seq(Txs)
    OBVIOUS
<1>1. Price \in [Txs -> Nat] /\ Nonce \in [Txs -> Nat]
    BY WorkerAssumption
<1>2. SortedBy(pool, Price) \in Seq(pool)
    BY <1>1, SortedByTyped
<1>3. Taken \subseteq pool
    BY <1>2 DEF Taken
<1> DEFINE S == {t \in Taken : PaysFee(t)}
<1>4. S \subseteq pool
    BY <1>3
<1>5. ASSUME NEW T \in SUBSET pool PROVE SortedBy(T, Nonce) \in Seq(Txs)
    <2>1. IsFiniteSet(T)
        BY FS_Subset
    <2>2. SortedBy(T, Nonce) \in Seq(T)
        BY <1>1, <2>1, SortedByTyped
    <2> QED BY <2>2
<1> HIDE DEF S
<1>6. SortedBy(Taken, Nonce) \in Seq(Txs) /\ SortedBy(S, Nonce) \in Seq(Txs)
    BY <1>3, <1>4, <1>5
<1> QED BY <1>6 DEF Proposal, PayingProposal, S
-----------------------------------------------------------------------------
(* Flattening.                                                             *)
Flattens(f, ss) ==
    f = [i \in 1 .. Len(ss) |-> IF i = 1 THEN ss[i] ELSE f[i - 1] \o ss[i]]

LEMMA FlattenExists ==
    ASSUME NEW T, NEW ss \in Seq(Seq(T))
    PROVE  \E f \in [1 .. Len(ss) -> Seq(T)] : Flattens(f, ss)
<1> DEFINE Rec(f, n) == \A i \in 1 .. n : f[i] = IF i = 1 THEN ss[i] ELSE f[i - 1] \o ss[i]
           Found(n) == \E f \in [1 .. n -> Seq(T)] : Rec(f, n)
           All == {n \in Nat : n <= Len(ss) => Found(n)}
<1>1. 0 \in All
    <2> DEFINE e == [i \in 1 .. 0 |-> <<>>]
    <2>1. e \in [1 .. 0 -> Seq(T)] /\ Rec(e, 0)
        OBVIOUS
    <2> QED BY <2>1
<1>2. ASSUME NEW n \in All PROVE n + 1 \in All
    <2> SUFFICES ASSUME n + 1 <= Len(ss) PROVE Found(n + 1)
        <3> HIDE DEF Found
        <3> QED OBVIOUS
    <2>1. PICK g \in [1 .. n -> Seq(T)] : Rec(g, n)
        OBVIOUS
    <2>2. ss[n + 1] \in Seq(T) /\ n \in Nat
        OBVIOUS
    <2> DEFINE x == IF n = 0 THEN ss[n + 1] ELSE g[n] \o ss[n + 1]
               f == [i \in 1 .. n + 1 |-> IF i = n + 1 THEN x ELSE g[i]]
    <2>3. x \in Seq(T)
        <3>1. CASE n = 0
            BY <2>2, <3>1
        <3>2. CASE n # 0
            <4>1. g[n] \in Seq(T)
                BY <2>2, <3>2
            <4> QED BY <2>2, <3>2, <4>1
        <3> QED BY <3>1, <3>2
    <2>4. f \in [1 .. n + 1 -> Seq(T)]
        <3> HIDE DEF x
        <3> QED BY <2>2, <2>3
    <2>5. ASSUME NEW i \in 1 .. n + 1
          PROVE  f[i] = IF i = 1 THEN ss[i] ELSE f[i - 1] \o ss[i]
        <3>1. CASE i = n + 1
            BY <2>2, <3>1
        <3>2. CASE i # n + 1
            <4>1. i \in 1 .. n /\ f[i] = g[i] /\ (i # 1 => f[i - 1] = g[i - 1])
                BY <2>2, <3>2
            <4> HIDE DEF f
            <4> QED BY <2>1, <4>1
        <3> QED BY <3>1, <3>2
    <2> HIDE DEF f
    <2> QED BY <2>4, <2>5
<1>3. All = Nat
    <2>1. All \in SUBSET Nat
        OBVIOUS
    <2> HIDE DEF All
    <2> QED BY <1>1, <1>2, <2>1, NatSetInduction
<1>4. Found(Len(ss))
    <2>1. Len(ss) \in Nat
        OBVIOUS
    <2> HIDE DEF Found
    <2> QED BY <2>1, <1>3
<1>5. PICK f \in [1 .. Len(ss) -> Seq(T)] : Rec(f, Len(ss))
    BY <1>4
<1>6. Flattens(f, ss)
    BY <1>5 DEF Flattens
<1> QED BY <1>6

LEMMA FlattenIs ==
    ASSUME NEW T, NEW ss \in Seq(Seq(T)), ss # <<>>
    PROVE  \E f \in [1 .. Len(ss) -> Seq(T)] : Flattens(f, ss) /\ FlattenSeq(ss) = f[Len(ss)]
<1> DEFINE Rec(f) == [i \in 1 .. Len(ss) |-> IF i = 1 THEN ss[i] ELSE f[i - 1] \o ss[i]]
           it == CHOOSE f : f = Rec(f)
<1>1. Len(ss) # 0 /\ Len(ss) \in Nat
    OBVIOUS
<1>2. FlattenSeq(ss) = it[Len(ss)]
    BY <1>1 DEF FlattenSeq
<1>3. PICK f \in [1 .. Len(ss) -> Seq(T)] : Flattens(f, ss)
    BY FlattenExists
<1>4. it = Rec(it)
    <2>1. f = Rec(f)
        BY <1>3 DEF Flattens
    <2> HIDE DEF Rec
    <2> QED BY <2>1
<1> HIDE DEF it
<1> DEFINE Same == {n \in Nat : n \in 1 .. Len(ss) => it[n] = f[n]}
<1>5. Same = Nat
    <2>1. 0 \in Same /\ Same \in SUBSET Nat
        OBVIOUS
    <2>2. ASSUME NEW n \in Same PROVE n + 1 \in Same
        <3> SUFFICES ASSUME n + 1 \in 1 .. Len(ss) PROVE it[n + 1] = f[n + 1]
            OBVIOUS
        <3>0. (n + 1) - 1 = n
            OBVIOUS
        <3>1. f[n + 1] = IF n + 1 = 1 THEN ss[n + 1] ELSE f[n] \o ss[n + 1]
            <4>1. \A i \in 1 .. Len(ss) : f[i] = IF i = 1 THEN ss[i] ELSE f[i - 1] \o ss[i]
                BY <1>3 DEF Flattens
            <4> QED BY <3>0, <4>1
        <3>2. it[n + 1] = IF n + 1 = 1 THEN ss[n + 1] ELSE it[n] \o ss[n + 1]
            <4>1. \A i \in 1 .. Len(ss) : it[i] = IF i = 1 THEN ss[i] ELSE it[i - 1] \o ss[i]
                BY <1>4
            <4> QED BY <3>0, <4>1
        <3>3. n + 1 # 1 => it[n] = f[n]
            OBVIOUS
        <3> QED BY <3>1, <3>2, <3>3
    <2> HIDE DEF Same
    <2> QED BY <2>1, <2>2, NatSetInduction
<1>6. it[Len(ss)] = f[Len(ss)]
    <2>1. Len(ss) \in Same /\ Len(ss) \in 1 .. Len(ss)
        <3> HIDE DEF Same
        <3> QED BY <1>1, <1>5
    <2> QED BY <2>1
<1> QED BY <1>2, <1>3, <1>6

LEMMA FlattenAppend ==
    ASSUME NEW T, NEW ss \in Seq(Seq(T)), NEW x \in Seq(T)
    PROVE  FlattenSeq(Append(ss, x)) = FlattenSeq(ss) \o x
<1> DEFINE n == Len(ss)
           tt == Append(ss, x)
<1>1. /\ tt \in Seq(Seq(T)) /\ tt # <<>> /\ Len(tt) = n + 1 /\ n \in Nat
      /\ tt[n + 1] = x /\ \A i \in 1 .. n : tt[i] = ss[i]
    <2> DEFINE Q == Seq(T)
    <2>1. ss \in Seq(Q) /\ x \in Q
        OBVIOUS
    <2> HIDE DEF Q
    <2>2. tt \in Seq(Q) /\ Len(tt) = n + 1 /\ n \in Nat
        BY <2>1
    <2>3. tt[n + 1] = x /\ \A i \in 1 .. n : tt[i] = ss[i]
        BY <2>1
    <2>4. tt # <<>>
        BY <2>2
    <2> HIDE DEF tt
    <2> QED BY <2>2, <2>3, <2>4 DEF Q
<1> HIDE DEF tt
<1>2. PICK g \in [1 .. n + 1 -> Seq(T)] : Flattens(g, tt) /\ FlattenSeq(tt) = g[n + 1]
    BY <1>1, FlattenIs
<1>3. \A i \in 1 .. n + 1 : g[i] = IF i = 1 THEN tt[i] ELSE g[i - 1] \o tt[i]
    BY <1>1, <1>2 DEF Flattens
<1>4. CASE ss = <<>>
    <2>1. n = 0 /\ g[1] = x
        BY <1>1, <1>3, <1>4
    <2>2. FlattenSeq(ss) = <<>>
        BY <1>4 DEF FlattenSeq
    <2>3. <<>> \o x = x
        OBVIOUS
    <2> QED BY <1>2, <2>1, <2>2, <2>3 DEF tt
<1>5. CASE ss # <<>>
    <2>1. PICK f \in [1 .. n -> Seq(T)] : Flattens(f, ss) /\ FlattenSeq(ss) = f[n]
        BY <1>5, FlattenIs
    <2>2. \A i \in 1 .. n : f[i] = IF i = 1 THEN ss[i] ELSE f[i - 1] \o ss[i]
        BY <2>1 DEF Flattens
    <2> DEFINE Same == {k \in Nat : k \in 1 .. n => f[k] = g[k]}
    <2>3. Same = Nat
        <3>1. 0 \in Same /\ Same \in SUBSET Nat
            OBVIOUS
        <3>2. ASSUME NEW k \in Same PROVE k + 1 \in Same
            <4> SUFFICES ASSUME k + 1 \in 1 .. n PROVE f[k + 1] = g[k + 1]
                OBVIOUS
            <4>0. (k + 1) - 1 = k
                OBVIOUS
            <4>1. f[k + 1] = IF k + 1 = 1 THEN ss[k + 1] ELSE f[k] \o ss[k + 1]
                BY <2>2, <4>0
            <4>2. k + 1 \in 1 .. n + 1 /\ tt[k + 1] = ss[k + 1]
                BY <1>1
            <4>3. g[k + 1] = IF k + 1 = 1 THEN tt[k + 1] ELSE g[k] \o tt[k + 1]
                BY <1>3, <4>0, <4>2
            <4>4. k + 1 # 1 => f[k] = g[k]
                OBVIOUS
            <4> QED BY <4>1, <4>2, <4>3, <4>4
        <3> HIDE DEF Same
        <3> QED BY <3>1, <3>2, NatSetInduction
    <2>4. n # 0 /\ f[n] = g[n]
        BY <1>1, <1>5, <2>3
    <2>5. g[n + 1] = g[n] \o x
        <3>1. (n + 1) - 1 = n /\ n + 1 \in 1 .. n + 1 /\ n + 1 # 1
            BY <1>1, <2>4
        <3>2. g[n + 1] = IF n + 1 = 1 THEN tt[n + 1] ELSE g[(n + 1) - 1] \o tt[n + 1]
            BY <1>3, <3>1
        <3> QED BY <1>1, <3>1, <3>2
    <2> QED BY <1>2, <2>1, <2>4, <2>5 DEF tt
<1> QED BY <1>4, <1>5

LEMMA FlattenTyped ==
    ASSUME NEW T, NEW ss \in Seq(Seq(T))
    PROVE  FlattenSeq(ss) \in Seq(T)
<1>1. CASE ss = <<>>
    BY <1>1 DEF FlattenSeq
<1>2. CASE ss # <<>>
    <2>1. PICK f \in [1 .. Len(ss) -> Seq(T)] : FlattenSeq(ss) = f[Len(ss)]
        BY <1>2, FlattenIs
    <2>2. Len(ss) \in 1 .. Len(ss)
        BY <1>2
    <2> QED BY <2>1, <2>2
<1> QED BY <1>1, <1>2
-----------------------------------------------------------------------------
(* The transactions of a chain.                                            *)
LEMMA ExecutedNone == Executed(<<>>) = <<>>
    BY DEF Executed, FlattenSeq

LEMMA ExecutedAppend ==
    ASSUME NEW b \in Seq(Block), NEW x \in Block
    PROVE  /\ Executed(b) \in Seq(Txs)
           /\ Executed(Append(b, x)) = Executed(b) \o x.txs
<1> DEFINE ss == [i \in DOMAIN b |-> b[i].txs]
           c == Append(b, x)
           tt == [i \in DOMAIN c |-> c[i].txs]
           Q == Seq(Txs)
<1>1. x.txs \in Q /\ \A i \in 1 .. Len(b) : b[i].txs \in Q
    <2>1. \A y \in Block : y.txs \in Q
        BY DEF Block
    <2>2. \A i \in 1 .. Len(b) : b[i] \in Block
        OBVIOUS
    <2> QED BY <2>1, <2>2
<1>2. /\ Len(b) \in Nat /\ DOMAIN b = 1 .. Len(b) /\ DOMAIN c = 1 .. Len(b) + 1
      /\ c[Len(b) + 1] = x /\ \A i \in 1 .. Len(b) : c[i] = b[i]
    OBVIOUS
<1> HIDE DEF Q, c
<1>3. ss \in Seq(Q) /\ Len(ss) = Len(b)
    BY <1>1, <1>2
<1>4. tt = Append(ss, x.txs)
    <2>1. tt \in Seq(Q) /\ Len(tt) = Len(b) + 1
        BY <1>1, <1>2
    <2>2. Append(ss, x.txs) \in Seq(Q) /\ Len(Append(ss, x.txs)) = Len(b) + 1
        <3> HIDE DEF ss
        <3> QED BY <1>1, <1>3
    <2>3. ASSUME NEW i \in 1 .. Len(b) + 1 PROVE tt[i] = Append(ss, x.txs)[i]
        <3>1. CASE i = Len(b) + 1
            <4>1. tt[i] = x.txs
                BY <1>2, <3>1
            <4>2. Append(ss, x.txs)[i] = x.txs
                <5> HIDE DEF ss
                <5> QED BY <1>1, <1>3, <3>1
            <4> QED BY <4>1, <4>2
        <3>2. CASE i # Len(b) + 1
            <4>1. i \in 1 .. Len(b)
                BY <1>2, <3>2
            <4>2. tt[i] = ss[i]
                BY <1>2, <4>1
            <4>3. Append(ss, x.txs)[i] = ss[i]
                <5> HIDE DEF ss
                <5> QED BY <1>1, <1>3, <4>1
            <4> QED BY <4>2, <4>3
        <3> QED BY <3>1, <3>2
    <2> DEFINE u == Append(ss, x.txs)
    <2> HIDE DEF tt, u
    <2>4. tt \in [1 .. Len(b) + 1 -> Q] /\ u \in [1 .. Len(b) + 1 -> Q]
        <3>1. u \in Seq(Q) /\ Len(u) = Len(b) + 1
            BY <2>2 DEF u
        <3> QED BY <2>1, <3>1
    <2>5. tt = u
        BY <2>3, <2>4 DEF u
    <2> QED BY <2>5 DEF u
<1>5. Executed(b) = FlattenSeq(ss) /\ Executed(c) = FlattenSeq(tt)
    BY DEF Executed
<1> HIDE DEF ss, tt
<1>6. FlattenSeq(tt) = FlattenSeq(ss) \o x.txs
    BY <1>1, <1>3, <1>4, FlattenAppend DEF Q
<1>7. FlattenSeq(ss) \in Seq(Txs)
    BY <1>3, FlattenTyped DEF Q
<1> QED BY <1>5, <1>6, <1>7 DEF c

LEMMA RunsConcat ==
    ASSUME NEW s \in Seq(Txs), NEW t \in Seq(Txs)
    PROVE  Runs(s \o t, 0) <=> Runs(s, 0) /\ Runs(t, Len(s))
<1> DEFINE u == s \o t
<1>1. /\ u \in Seq(Txs) /\ Len(u) = Len(s) + Len(t) /\ Len(s) \in Nat /\ Len(t) \in Nat
      /\ DOMAIN s = 1 .. Len(s) /\ DOMAIN t = 1 .. Len(t) /\ DOMAIN u = 1 .. Len(s) + Len(t)
      /\ \A i \in 1 .. Len(s) : u[i] = s[i]
      /\ \A i \in 1 .. Len(t) : u[Len(s) + i] = t[i]
    OBVIOUS
<1>2. \A x \in Txs : Nonce[x] \in Nat
    BY WorkerAssumption
<1> HIDE DEF u
<1>3. ASSUME Runs(u, 0) PROVE Runs(s, 0) /\ Runs(t, Len(s))
    <2>1. ASSUME NEW i \in DOMAIN s PROVE Nonce[s[i]] = 0 + i - 1
        <3>1. i \in DOMAIN u /\ u[i] = s[i]
            BY <1>1
        <3> QED BY <1>3, <3>1 DEF Runs
    <2>2. ASSUME NEW i \in DOMAIN t PROVE Nonce[t[i]] = Len(s) + i - 1
        <3>1. Len(s) + i \in DOMAIN u /\ u[Len(s) + i] = t[i]
            BY <1>1
        <3>2. Nonce[u[Len(s) + i]] = 0 + (Len(s) + i) - 1
            BY <1>3, <3>1 DEF Runs
        <3> QED BY <1>1, <3>1, <3>2
    <2> QED BY <2>1, <2>2 DEF Runs
<1>4. ASSUME Runs(s, 0), Runs(t, Len(s)) PROVE Runs(u, 0)
    <2>1. ASSUME NEW i \in DOMAIN u PROVE Nonce[u[i]] = 0 + i - 1
        <3>1. CASE i <= Len(s)
            <4>1. i \in DOMAIN s /\ u[i] = s[i]
                BY <1>1, <3>1
            <4> QED BY <1>4, <4>1 DEF Runs
        <3>2. CASE ~(i <= Len(s))
            <4> DEFINE j == i - Len(s)
            <4>1. j \in DOMAIN t /\ Len(s) + j = i
                BY <1>1, <3>2
            <4>2. u[i] = t[j]
                BY <1>1, <4>1
            <4>3. Nonce[t[j]] = Len(s) + j - 1
                BY <1>4, <4>1 DEF Runs
            <4> QED BY <1>1, <4>1, <4>2, <4>3
        <3> QED BY <3>1, <3>2
    <2> QED BY <2>1 DEF Runs
<1> QED BY <1>3, <1>4 DEF u

(* A block whose transactions go on from there.                             *)
LEMMA LedgerExtends ==
    ASSUME NEW b, IsLedger(b), Len(b) < MaxHeight,
           NEW x \in Block, Runs(x.txs, NonceAt(b))
    PROVE  IsLedger(Append(b, x))
<1>1. b \in Seq(Block) /\ MaxHeight \in Nat /\ Runs(Executed(b), 0)
    BY WorkerAssumption DEF IsLedger, IsChain
<1>2. Append(b, x) \in Seq(Block) /\ Len(Append(b, x)) = Len(b) + 1
    BY <1>1
<1>3. IsChain(Append(b, x))
    BY <1>1, <1>2 DEF IsChain
<1>4. Executed(b) \in Seq(Txs) /\ Executed(Append(b, x)) = Executed(b) \o x.txs
    BY <1>1, ExecutedAppend
<1>5. x.txs \in Seq(Txs)
    BY DEF Block
<1> QED BY <1>1, <1>3, <1>4, <1>5, RunsConcat DEF NonceAt, IsLedger

(* A chain without its peak, which a reorganisation replaces.               *)
LEMMA LedgerFront ==
    ASSUME NEW b, IsLedger(b), b # <<>>
    PROVE  IsLedger(Front(b)) /\ Len(Front(b)) = Len(b) - 1
<1> DEFINE f == Front(b)
           x == b[Len(b)]
<1>1. b \in Seq(Block) /\ Len(b) \in Nat /\ Len(b) # 0 /\ MaxHeight \in Nat /\ Len(b) <= MaxHeight
    BY WorkerAssumption DEF IsLedger, IsChain
<1>2. f \in Seq(Block) /\ Len(f) = Len(b) - 1 /\ x \in Block /\ \A i \in 1 .. Len(b) - 1 : f[i] = b[i]
    <2> DEFINE m == Len(b) - 1
    <2>1. f = SubSeq(b, 1, m) /\ m \in Nat /\ m <= Len(b)
        BY <1>1 DEF Front
    <2> HIDE DEF m
    <2>2. SubSeq(b, 1, m) \in Seq(Block) /\ Len(SubSeq(b, 1, m)) = m
        BY <1>1, <2>1
    <2>3. \A i \in 1 .. m : SubSeq(b, 1, m)[i] = b[i]
        BY <1>1, <2>1
    <2>4. x \in Block
        BY <1>1
    <2> QED BY <2>1, <2>2, <2>3, <2>4 DEF m
<1> HIDE DEF f, x
<1>3. b = Append(f, x)
    BY <1>1, <1>2 DEF x
<1>4. Executed(f) \in Seq(Txs) /\ Executed(b) = Executed(f) \o x.txs /\ x.txs \in Seq(Txs)
    BY <1>2, <1>3, ExecutedAppend DEF Block
<1>5. Runs(Executed(f), 0)
    BY <1>4, RunsConcat DEF IsLedger
<1> QED BY <1>1, <1>2, <1>5 DEF IsLedger, IsChain, f

(* append_transaction over a proposal, whatever its order and its gaps: a   *)
(* candidate's transactions go on from its parent.                          *)
LEMMA AppliedRuns ==
    ASSUME NEW b \in Seq(Block), NEW txs \in Seq(Txs)
    PROVE  Applied(b, txs) \in Seq(Txs) /\ Runs(Applied(b, txs), NonceAt(b))
<1> DEFINE n == NonceAt(b)
           A == {acc \in Seq(Txs) : Runs(acc, n)}
           Op(acc, t) == IF Nonce[t] = n + Len(acc) THEN Append(acc, t) ELSE acc
           G == [p \in A \X Txs |-> Op(p[1], p[2])]
           Rec(f) == [S \in SUBSET DOMAIN txs |->
                         IF S = {} THEN <<>> ELSE Op(f[S \ {Max(S)}], txs[Max(S)])]
           it == CHOOSE f : f = Rec(f)
<1>1. Applied(b, txs) = it[DOMAIN txs]
    BY DEF Applied, FoldLeft, MapThenFoldSet
<1>2. n \in Nat
    <2>1. Executed(b) \in Seq(Txs)
        <3> DEFINE x == MinedBy(Self, <<>>, 0)
        <3>1. x \in Block
            BY DEF Block, MinedBy, Miners
        <3> HIDE DEF x
        <3> QED BY <3>1, ExecutedAppend
    <2> QED BY <2>1 DEF NonceAt
<1>3. \A acc \in A, t \in Txs : Op(acc, t) \in A
    <2> SUFFICES ASSUME NEW acc \in A, NEW t \in Txs, Nonce[t] = n + Len(acc)
                 PROVE  Append(acc, t) \in A
        OBVIOUS
    <2>1. acc \in Seq(Txs) /\ Runs(acc, n)
        OBVIOUS
    <2> HIDE DEF n
    <2>2. ASSUME NEW i \in DOMAIN Append(acc, t)
          PROVE  Nonce[Append(acc, t)[i]] = n + i - 1
        <3>1. CASE i = Len(acc) + 1
            BY <1>2, <2>1, <3>1
        <3>2. CASE i # Len(acc) + 1
            <4>1. i \in DOMAIN acc /\ Append(acc, t)[i] = acc[i]
                BY <2>1, <3>2
            <4> QED BY <2>1, <4>1 DEF Runs
        <3> QED BY <3>1, <3>2
    <2>3. Runs(Append(acc, t), n)
        BY <2>2 DEF Runs
    <2> QED BY <2>1, <2>3
<1> HIDE DEF Op
<1>4. <<>> \in A
    BY DEF Runs
<1> HIDE DEF A
<1>5. G \in [A \X Txs -> A]
    BY <1>3
<1>6. DOMAIN txs = 1 .. Len(txs) /\ Len(txs) \in Nat
    OBVIOUS
<1>7. PICK f : Folds(f, A, G, <<>>, txs)
    <2> HIDE DEF G
    <2> QED BY <1>4, <1>5, FoldExists
<1>8. f = Rec(f)
    <2>1. f \in [SUBSET (1 .. Len(txs)) -> A] /\ f[{}] = <<>>
        BY <1>7 DEF Folds
    <2>2. ASSUME NEW S \in SUBSET (1 .. Len(txs)), S # {}
          PROVE  f[S] = Op(f[S \ {Max(S)}], txs[Max(S)])
        <3>1. /\ f[S] = G[<<f[S \ {Max(S)}], txs[Max(S)]>>]
              /\ f[S \ {Max(S)}] \in A /\ txs[Max(S)] \in Txs
            <4> HIDE DEF G
            <4> QED BY <1>7, <2>2, FoldStep
        <3> QED BY <3>1
    <2> HIDE DEF G
    <2> QED BY <1>6, <2>1, <2>2
<1>9. it = Rec(it)
    <2> HIDE DEF Rec
    <2> QED BY <1>8
<1> HIDE DEF it
<1>10. it[{}] \in A
    BY <1>4, <1>9
<1>11. \A S \in SUBSET (1 .. Len(txs)) :
           S # {} /\ Max(S) \in 1 .. Len(txs) /\ it[S \ {Max(S)}] \in A => it[S] \in A
    <2> SUFFICES ASSUME NEW S \in SUBSET (1 .. Len(txs)), S # {}, Max(S) \in 1 .. Len(txs),
                        it[S \ {Max(S)}] \in A
                 PROVE  it[S] \in A
        OBVIOUS
    <2>1. it[S] = Op(it[S \ {Max(S)}], txs[Max(S)])
        BY <1>6, <1>9
    <2>2. txs[Max(S)] \in Txs
        OBVIOUS
    <2> QED BY <1>3, <2>1, <2>2
<1>12. it[1 .. Len(txs)] \in A
    BY <1>6, <1>10, <1>11, FoldTyped
<1> QED BY <1>1, <1>6, <1>12 DEF A
-----------------------------------------------------------------------------
(* LedgerOK is inductive.                                                  *)
LEMMA TimerKeeps ==
    ASSUME NEW s, s = Fields(s)
    PROVE  /\ Activated(s).parent = s.parent /\ Activated(s).proposal = s.proposal
           /\ Activated(s).candidate = s.candidate
<1> DEFINE b == s.working \/ Schedules(s)
<1>1. Activated(s) = [s EXCEPT !.working = b]
    BY DEF Activated
<1> HIDE DEF b
<1> QED
    BY <1>1 DEF Fields

LEMMA UpdateKeeps ==
    ASSUME w = Fields(w), w.working \in BOOLEAN
    PROVE  /\ Refreshed(w).parent = seen /\ Refreshed(w).proposal = PayingProposal
           /\ Refreshed(w).candidate = w.candidate
           /\ Updated(w).parent = seen /\ Updated(w).proposal = PayingProposal
           /\ Updated(w).candidate \in {w.candidate, NoBlock}
<1> DEFINE txs == PayingProposal
           r == Refreshed(w)
           a == Activated(r)
<1>1. r = [w EXCEPT !.parent = seen, !.proposal = txs]
    BY DEF Refreshed
<1> HIDE DEF txs
<1>2. /\ r = Fields(r) /\ r.parent = seen /\ r.proposal = txs /\ r.candidate = w.candidate
    BY <1>1 DEF Fields
<1>3. CASE r = w
    BY <1>2, <1>3 DEF Updated, txs
<1>4. CASE r # w
    <2>1. Updated(w) = [a EXCEPT !.candidate = NoBlock]
        BY <1>4 DEF Updated
    <2>2. a = Fields(a) /\ a.parent = seen /\ a.proposal = txs
        BY <1>2, TimerFacts, TimerKeeps
    <2> HIDE DEF a, r
    <2>3. /\ Updated(w).parent = seen /\ Updated(w).proposal = txs
          /\ Updated(w).candidate = NoBlock
        BY <2>1, <2>2 DEF Fields
    <2> QED BY <1>2, <2>3 DEF r, txs
<1> QED BY <1>3, <1>4

LEMMA LedgerInit == Init => LedgerOK
<1> SUFFICES ASSUME Init PROVE LedgerOK
    OBVIOUS
<1>1. ScheduleOK
    BY ScheduleInit
<1>2. WorldOK
    <2>1. chain = <<>> /\ forks = 0 /\ pool = {} /\ due = FALSE /\ past \subseteq {"disabled"}
        BY DEF Init
    <2>2. IsLedger(chain)
        BY <2>1, ExecutedNone, WorkerAssumption DEF IsLedger, IsChain, Runs
    <2>3. IsFiniteSet(pool)
        BY <2>1, FS_EmptySet
    <2> QED BY <2>1, <2>2, <2>3 DEF WorldOK, Past
<1>3. StateOK(w)
    <2>1. Fresh = Fields(Fresh) /\ Fresh.parent = NoBlock /\ Fresh.proposal = <<>> /\ Fresh.candidate = NoBlock
        BY DEF Fresh, Fields
    <2>2. w = Activated(Fresh)
        BY DEF Init
    <2>3. w.parent = NoBlock /\ w.proposal = <<>> /\ w.candidate = NoBlock
        BY <2>1, <2>2, TimerKeeps
    <2> QED BY <2>3 DEF StateOK
<1>4. PlaceOK
    BY DEF Init, PlaceOK
<1> QED BY <1>1, <1>2, <1>3, <1>4 DEF LedgerOK

(* The worker forgets its parent or its candidate, or ends its message.     *)
LEMMA RestStep ==
    ASSUME LedgerOK, ScheduleOK', WorldOK', StateOK(w)', pc' \in {"receive", "added"}
    PROVE  LedgerOK'
    BY DEF LedgerOK, PlaceOK

LEMMA HandlersKeepLedger ==
    ASSUME LedgerOK, ScheduleOK',
           \/ HandleSetMode \/ HandleUpdate \/ HandleUpdateWork \/ HandleWorkDisabled
           \/ \E t \in {"work", "candidate"} : HandleGenerate(t)
    PROVE  LedgerOK'
<1>1. /\ w = Fields(w) /\ pc = "receive" => task = "none"
      /\ WorldOK /\ StateOK(w) /\ PlaceOK
    BY DEF LedgerOK, ScheduleOK
<1>2. CASE HandleSetMode
    <2>1. PICK m \in AllModes : /\ Receive(m) /\ w' = [w EXCEPT !.mode = m, !.parent = NoBlock]
                               /\ past' = past \cup ({"disabled"} \cap {m})
                               /\ UNCHANGED <<world, control, events>>
        BY <1>2 DEF HandleSetMode
    <2>2. w'.parent = NoBlock /\ w'.proposal = w.proposal /\ w'.candidate = w.candidate
        BY <1>1, <2>1 DEF Fields
    <2>3. past' \subseteq Past
        BY <1>1, <2>1 DEF WorldOK, Past
    <2>4. WorldOK'
        BY <1>1, <2>1, <2>3 DEF WorldOK, world
    <2>5. StateOK(w)'
        BY <1>1, <2>2 DEF StateOK
    <2>6. pc' = "receive"
        BY <2>1 DEF Receive, control
    <2> QED BY <2>4, <2>5, <2>6, RestStep
<1>3. CASE HandleUpdate \/ HandleUpdateWork
    <2>1. /\ pc' = "pool" /\ seen' = chain /\ UNCHANGED <<world, past>>
          /\ w' = w \/ w' = [w EXCEPT !.working = TRUE]
        BY <1>3 DEF HandleUpdate, HandleUpdateWork, ReadPeak, rest
    <2>2. w'.parent = w.parent /\ w'.proposal = w.proposal /\ w'.candidate = w.candidate
        <3>1. CASE w' = w
            BY <3>1
        <3>2. CASE w' = [w EXCEPT !.working = TRUE]
            BY <1>1, <3>2 DEF Fields
        <3> QED BY <2>1, <3>1, <3>2
    <2>3. WorldOK'
        BY <1>1, <2>1 DEF WorldOK, world
    <2>4. StateOK(w)'
        BY <1>1, <2>2 DEF StateOK
    <2>5. PlaceOK'
        BY <1>1, <2>1 DEF PlaceOK, WorldOK
    <2> QED BY <2>3, <2>4, <2>5 DEF LedgerOK
<1>4. CASE HandleWorkDisabled
    <2>1. pc' = "receive" /\ w' = w /\ UNCHANGED world /\ past' = past \cup {"skipped"}
        BY <1>4 DEF HandleWorkDisabled, Receive, control
    <2>2. WorldOK'
        BY <1>1, <2>1 DEF WorldOK, world, Past
    <2>3. StateOK(w)'
        BY <1>1, <2>1 DEF StateOK
    <2> QED BY <2>1, <2>2, <2>3, RestStep
<1>5. ASSUME NEW t \in {"work", "candidate"}, HandleGenerate(t) PROVE LedgerOK'
    <2>1. /\ w' = w /\ UNCHANGED world /\ past' \subseteq past \cup {"asked"}
          /\ \/ w.parent = NoBlock /\ pc' = "pool" /\ seen' = chain
             \/ w.parent # NoBlock /\ pc' = "build"
        BY <1>5 DEF HandleGenerate, ReadPeak
    <2>2. WorldOK'
        <3>1. past' \subseteq Past
            BY <1>1, <2>1 DEF WorldOK, Past
        <3> QED BY <1>1, <2>1, <3>1 DEF WorldOK, world
    <2>3. StateOK(w)'
        BY <1>1, <2>1 DEF StateOK
    <2>4. PlaceOK'
        BY <1>1, <2>1 DEF PlaceOK, WorldOK
    <2> QED BY <2>2, <2>3, <2>4 DEF LedgerOK
<1> QED BY <1>2, <1>3, <1>4, <1>5

LEMMA ReadPoolKeepsLedger ==
    ASSUME LedgerOK, ScheduleOK', ReadPoolToUpdate \/ ReadPoolToBuild \/ ReadPoolAfterBlock
    PROVE  LedgerOK'
<1>1. /\ w = Fields(w) /\ w.working \in BOOLEAN
      /\ WorldOK /\ StateOK(w) /\ PlaceOK /\ pc = "pool" /\ IsLedger(seen)
    BY DEF LedgerOK, ScheduleOK, PlaceOK, ReadPoolToUpdate, ReadPoolToBuild, ReadPoolAfterBlock
<1>2. PayingProposal \in Seq(Txs) /\ seen # NoBlock
    BY <1>1, ProposalTyped, WorkerAssumption DEF WorldOK, IsLedger, IsChain
<1> DEFINE u == Updated(w)
           r == Refreshed(w)
<1>3. /\ u = Fields(u)
      /\ r.parent = seen /\ r.proposal = PayingProposal /\ r.candidate = w.candidate
      /\ u.parent = seen /\ u.proposal = PayingProposal /\ u.candidate \in {w.candidate, NoBlock}
    BY <1>1, UpdateFacts, UpdateKeeps
<1>4. CASE ReadPoolAfterBlock
    <2>1. w' = Activated(u) /\ pc' = "receive" /\ UNCHANGED <<world, past>>
        BY <1>4 DEF ReadPoolAfterBlock, Done, rest
    <2>2. w'.parent = seen /\ w'.proposal = PayingProposal /\ w'.candidate \in {w.candidate, NoBlock}
        BY <1>3, <2>1, TimerKeeps
    <2>3. StateOK(w)'
        BY <1>1, <1>2, <2>2 DEF StateOK
    <2>4. WorldOK'
        BY <1>1, <2>1 DEF WorldOK, world
    <2> QED BY <2>1, <2>3, <2>4, RestStep
<1>5. CASE ReadPoolToUpdate \/ ReadPoolToBuild
    <2>1. (w' = u \/ w' = r) /\ pc' \in {"receive", "build"} /\ UNCHANGED world /\ past' \subseteq past \cup {"skipped"}
        BY <1>5 DEF ReadPoolToUpdate, ReadPoolToBuild, Done, rest
    <2>2. w'.parent = seen /\ w'.proposal = PayingProposal /\ w'.candidate \in {w.candidate, NoBlock}
        BY <1>3, <2>1
    <2>3. StateOK(w)'
        BY <1>1, <1>2, <2>2 DEF StateOK
    <2>4. WorldOK'
        <3>1. past' \subseteq Past
            BY <1>1, <2>1 DEF WorldOK, Past
        <3> QED BY <1>1, <2>1, <3>1 DEF WorldOK, world
    <2>5. PlaceOK'
        BY <1>2, <2>1, <2>2 DEF PlaceOK
    <2> QED BY <2>3, <2>4, <2>5 DEF LedgerOK
<1> QED BY <1>4, <1>5
LEMMA BuildKeepsLedger ==
    ASSUME LedgerOK, ScheduleOK', KeepCandidate \/ BuildCandidate
    PROVE  LedgerOK'
<1>1. /\ w = Fields(w) /\ WorldOK /\ StateOK(w) /\ PlaceOK
      /\ pc = "build" /\ w.parent # NoBlock /\ IsLedger(w.parent)
    BY DEF LedgerOK, ScheduleOK, PlaceOK, StateOK, KeepCandidate, BuildCandidate
<1>2. pc' \in {"receive", "mine"}
    BY DEF KeepCandidate, BuildCandidate, AfterBuild, Done
<1>3. CASE KeepCandidate
    <2>1. w' = w /\ w.candidate # NoBlock /\ UNCHANGED <<world, past>>
        BY <1>3 DEF KeepCandidate, HasFreshCandidate, rest
    <2>2. WorldOK'
        BY <1>1, <2>1 DEF WorldOK, world
    <2>3. StateOK(w)'
        BY <1>1, <2>1 DEF StateOK
    <2>4. PlaceOK'
        BY <1>1, <1>2, <2>1 DEF PlaceOK
    <2> QED BY <2>2, <2>3, <2>4 DEF LedgerOK
<1>4. CASE BuildCandidate
    <2> DEFINE c == [parent |-> w.parent, fresh |-> TRUE, txs |-> Applied(w.parent, w.proposal)]
               p == Proposal'
    <2>1. /\ w' = [w EXCEPT !.candidate = c, !.proposal = p]
          /\ pool' = pool \ Spent(w.parent, w.proposal)
          /\ UNCHANGED <<chain, forks, due, past>>
        BY <1>4 DEF BuildCandidate, rest
    <2>2. /\ Applied(w.parent, w.proposal) \in Seq(Txs)
          /\ Runs(Applied(w.parent, w.proposal), NonceAt(w.parent))
        BY <1>1, AppliedRuns DEF StateOK, IsLedger, IsChain
    <2>3. c \in Candidate /\ c # NoBlock /\ CandidateOK(c)
        <3> DEFINE txs == Applied(w.parent, w.proposal)
        <3>1. txs \in Seq(Txs) /\ Runs(txs, NonceAt(w.parent)) /\ w.parent \in Seq(Block)
            BY <1>1, <2>2 DEF IsLedger, IsChain
        <3> HIDE DEF txs
        <3>2. c = [parent |-> w.parent, fresh |-> TRUE, txs |-> txs]
            BY DEF txs
        <3> HIDE DEF c
        <3>3. c \in Candidate /\ c.parent = w.parent /\ c.txs = txs
            BY <3>1, <3>2 DEF Candidate
        <3> QED BY <1>1, <3>1, <3>3, WorkerAssumption DEF CandidateOK
    <2>4. pool' \subseteq Txs /\ IsFiniteSet(pool')
        <3> DEFINE spent == Spent(w.parent, w.proposal)
        <3>1. pool' = pool \ spent
            BY <2>1
        <3> HIDE DEF spent
        <3> QED BY <1>1, <3>1, FS_Subset DEF WorldOK
    <2>5. p \in Seq(Txs)
        <3>1. (pool \subseteq Txs /\ IsFiniteSet(pool) =>
                   Proposal \in Seq(Txs) /\ PayingProposal \in Seq(Txs))'
            BY ProposalTyped, PTL
        <3> QED BY <2>4, <3>1
    <2> HIDE DEF c, p
    <2>6. w'.candidate = c /\ w'.proposal = p /\ w'.parent = w.parent
        BY <1>1, <2>1 DEF Fields
    <2>7. WorldOK'
        BY <1>1, <2>1, <2>4 DEF WorldOK
    <2>8. StateOK(w)'
        BY <1>1, <2>3, <2>5, <2>6 DEF StateOK
    <2>9. PlaceOK'
        BY <1>1, <1>2, <2>3, <2>6 DEF PlaceOK
    <2> QED BY <2>7, <2>8, <2>9 DEF LedgerOK
<1> QED BY <1>3, <1>4

(* activate_timer at the end of do_work touches none of it.                 *)
LEMMA GiveUpKeeps ==
    ASSUME NEW s, s = Fields(s), GiveUp(s)
    PROVE  /\ w'.parent = s.parent /\ w'.proposal = s.proposal /\ w'.candidate = s.candidate
           /\ pc' = "receive"
<1> DEFINE t == [s EXCEPT !.working = FALSE]
<1>1. t = Fields(t) /\ t.parent = s.parent /\ t.proposal = s.proposal /\ t.candidate = s.candidate
    <2>1. t = [mode |-> s.mode, parent |-> s.parent, proposal |-> s.proposal,
               candidate |-> s.candidate, working |-> FALSE]
        BY SetWorking
    <2> HIDE DEF t
    <2> QED BY <2>1 DEF Fields
<1>2. w' = Activated(t) /\ pc' = "receive"
    BY DEF GiveUp, Done
<1> HIDE DEF t
<1> QED BY <1>1, <1>2, TimerKeeps

(* The worker's block goes on from the block it was built on.               *)
LEMMA OwnExtends ==
    ASSUME NEW b, IsLedger(b), Len(b) < MaxHeight, NEW f \in Nat,
           NEW txs \in Seq(Txs), Runs(txs, NonceAt(b))
    PROVE  IsLedger(OwnOn(b, txs, f))
<1> DEFINE x == MinedBy(Self, txs, f)
<1>1. x \in Block /\ x.txs = txs
    BY DEF MinedBy, Block, Miners
<1>2. OwnOn(b, txs, f) = Append(b, x)
    BY DEF OwnOn
<1> HIDE DEF x
<1> QED BY <1>1, <1>2, LedgerExtends

(* The peak, or the former peak it was built on: both are ledgers.          *)
LEMMA BlockKeepsLedger ==
    ASSUME LedgerOK, ScheduleOK', BlockAdded \/ BlockReorganises \/ BlockTakenForKnown
    PROVE  LedgerOK'
<1> DEFINE c == w.candidate
<1>1. /\ w = Fields(w) /\ WorldOK /\ StateOK(w) /\ PlaceOK
      /\ c # NoBlock /\ CandidateOK(c) /\ Len(c.parent) < MaxHeight
    BY DEF LedgerOK, ScheduleOK, PlaceOK, StateOK, BlockAdded, BlockReorganises, BlockTakenForKnown
<1>2. w' = [w EXCEPT !.working = FALSE] /\ pc' = "added" /\ past' = past
    BY DEF BlockAdded, BlockReorganises, BlockTakenForKnown, Added, Answered, rest
<1>3. \/ UNCHANGED world
      \/ /\ pool' = pool \ ToSet(c.txs) /\ due' = TRUE /\ forks' \in {forks, forks + 1}
         /\ chain' = OwnOn(c.parent, c.txs, forks')
    BY DEF BlockAdded, BlockReorganises, BlockTakenForKnown, Added, world
<1>4. WorldOK'
    <2>1. CASE UNCHANGED world
        BY <1>1, <1>2, <2>1 DEF WorldOK, world
    <2>2. CASE ~UNCHANGED world
        <3> HIDE DEF c
        <3>1. /\ pool' \subseteq pool /\ due' = TRUE /\ forks' \in Nat
              /\ chain' = OwnOn(c.parent, c.txs, forks')
            BY <1>1, <1>3, <2>2 DEF WorldOK
        <3>2. IsLedger(c.parent) /\ c.txs \in Seq(Txs) /\ Runs(c.txs, NonceAt(c.parent))
            BY <1>1 DEF CandidateOK, Candidate
        <3> DEFINE n == forks'
        <3>3. IsLedger(OwnOn(c.parent, c.txs, n))
            <4> HIDE DEF n
            <4>1. n \in Nat
                BY <3>1 DEF n
            <4> QED BY <1>1, <3>2, <4>1, OwnExtends
        <3>4. IsLedger(chain')
            BY <3>1, <3>3
        <3>5. pool' \subseteq Txs /\ IsFiniteSet(pool') /\ past' \subseteq Past
            BY <1>1, <1>2, <3>1, FS_Subset DEF WorldOK
        <3> QED BY <3>1, <3>4, <3>5 DEF WorldOK, IsLedger, IsChain, Runs, Executed
    <2> QED BY <2>1, <2>2
<1>5. w'.parent = w.parent /\ w'.proposal = w.proposal /\ w'.candidate = w.candidate
    BY <1>1, <1>2 DEF Fields
<1>6. StateOK(w)'
    BY <1>1, <1>5 DEF StateOK
<1> QED BY <1>2, <1>4, <1>6, RestStep

LEMMA MineKeepsLedger ==
    ASSUME LedgerOK, ScheduleOK',
           MissTarget \/ FindInvalid \/ FindValid \/ BlockStored \/ ReadNewPeak
    PROVE  LedgerOK'
<1>1. w = Fields(w) /\ WorldOK /\ StateOK(w) /\ PlaceOK
    BY DEF LedgerOK, ScheduleOK
<1>2. UNCHANGED <<world, past>>
    BY DEF MissTarget, FindInvalid, FindValid, BlockStored, ReadNewPeak, rest
<1>3. WorldOK'
    BY <1>1, <1>2 DEF WorldOK, world
<1>4. CASE MissTarget
    <2>1. /\ w'.parent = w.parent /\ w'.proposal = w.proposal /\ w'.candidate = w.candidate
          /\ pc' = "receive"
        BY <1>1, <1>4, GiveUpKeeps DEF MissTarget
    <2>2. StateOK(w)'
        BY <1>1, <2>1 DEF StateOK
    <2> QED BY <1>3, <2>1, <2>2, RestStep
<1>5. CASE FindInvalid \/ BlockStored
    <2>1. Forgotten = [mode |-> w.mode, parent |-> NoBlock, proposal |-> w.proposal,
                       candidate |-> NoBlock, working |-> w.working]
        BY <1>1, SetParent DEF Forgotten
    <2>2. GiveUp(Forgotten)
        BY <1>5 DEF FindInvalid, BlockStored
    <2>3. /\ w'.parent = NoBlock /\ w'.proposal = w.proposal /\ w'.candidate = NoBlock
          /\ pc' = "receive"
        BY <2>1, <2>2, GiveUpKeeps DEF Fields
    <2>4. StateOK(w)'
        BY <1>1, <2>3 DEF StateOK
    <2> QED BY <1>3, <2>3, <2>4, RestStep
<1>6. CASE FindValid
    <2>1. pc = "mine" /\ w' = w /\ pc' = "submit" /\ Len(w.candidate.parent) < MaxHeight
        BY <1>6 DEF FindValid
    <2>2. StateOK(w)'
        BY <1>1, <2>1 DEF StateOK
    <2>3. PlaceOK'
        BY <1>1, <2>1 DEF PlaceOK
    <2> QED BY <1>3, <2>2, <2>3 DEF LedgerOK
<1>7. CASE ReadNewPeak
    <2>1. w' = w /\ pc' = "pool" /\ seen' = chain
        BY <1>7 DEF ReadNewPeak, ReadPeak
    <2>2. StateOK(w)'
        BY <1>1, <2>1 DEF StateOK
    <2>3. PlaceOK'
        BY <1>1, <2>1 DEF PlaceOK, WorldOK
    <2> QED BY <1>3, <2>2, <2>3 DEF LedgerOK
<1> QED BY <1>4, <1>5, <1>6, <1>7
(* Everybody else: the worker's own state and the peak it has read stay.    *)
LEMMA OthersKeep ==
    ASSUME LedgerOK, ScheduleOK', WorldOK', UNCHANGED <<w, control>>
    PROVE  LedgerOK'
<1>1. StateOK(w)'
    BY DEF LedgerOK, StateOK
<1>2. PlaceOK'
    BY DEF LedgerOK, PlaceOK, control
<1> QED BY <1>1, <1>2 DEF LedgerOK

(* A peer's block: its transactions leave the pool.                         *)
LEMMA PeerBlockKeeps ==
    ASSUME LedgerOK, ScheduleOK', UNCHANGED <<w, control, past>>,
           IsLedger(chain'), forks' \in Nat,
           NEW txs, pool' = pool \ ToSet(txs), due' = TRUE
    PROVE  LedgerOK'
<1>1. pool' \subseteq pool /\ WorldOK
    BY DEF LedgerOK
<1>2. pool' \subseteq Txs /\ IsFiniteSet(pool')
    BY <1>1, FS_Subset DEF WorldOK
<1>3. due' \in BOOLEAN /\ past' \subseteq Past
    BY <1>1 DEF WorldOK
<1>4. WorldOK'
    BY <1>2, <1>3 DEF WorldOK, IsLedger, IsChain, Runs, Executed
<1> QED BY <1>4, OthersKeep

LEMMA BodyRuns ==
    ASSUME NEW b, NEW txs \in Bodies(b), NEW m \in Peers, NEW f \in Nat
    PROVE  /\ MinedBy(m, txs, f) \in Block /\ MinedBy(m, txs, f).txs = txs
           /\ NonceAt(b) \in Int => Runs(txs, NonceAt(b))
<1>1. txs \in Seq(Txs)
    <2>1. CASE txs = <<>>
        BY <2>1
    <2>2. CASE txs # <<>>
        <3>1. PICK t \in Txs : txs = <<t>>
            BY <2>2 DEF Bodies
        <3> QED BY <3>1
    <2> QED BY <2>1, <2>2
<1>2. ASSUME NonceAt(b) \in Int PROVE Runs(txs, NonceAt(b))
    <2>1. CASE txs = <<>>
        BY <2>1 DEF Runs
    <2>2. CASE txs # <<>>
        <3>1. PICK t \in Txs : txs = <<t>> /\ Nonce[t] = NonceAt(b)
            BY <2>2 DEF Bodies
        <3>2. \A i \in DOMAIN txs : i = 1 /\ txs[i] = t
            BY <3>1
        <3> QED BY <1>2, <3>1, <3>2 DEF Runs
    <2> QED BY <2>1, <2>2
<1> QED BY <1>1, <1>2 DEF Block, MinedBy, Miners

LEMMA PeersKeepLedger ==
    ASSUME LedgerOK, ScheduleOK',
           \/ \E txs \in Bodies(chain), m \in Peers : PeerExtends(txs, m)
           \/ \E txs \in {<<>>} \cup {<<t>> : t \in Txs}, m \in Peers : PeerReorganises(txs, m)
    PROVE  LedgerOK'
<1>1. IsLedger(chain) /\ forks \in Nat /\ MaxHeight \in Nat
    BY WorkerAssumption DEF LedgerOK, WorldOK
<1>2. ASSUME NEW b, IsLedger(b) PROVE NonceAt(b) \in Nat
    <2>1. Executed(b) \in Seq(Txs)
        <3> DEFINE x == MinedBy(Self, <<>>, 0)
        <3>1. x \in Block
            BY DEF Block, MinedBy, Miners
        <3> HIDE DEF x
        <3> QED BY <1>2, <3>1, ExecutedAppend DEF IsLedger, IsChain
    <2> QED BY <2>1 DEF NonceAt
<1>3. ASSUME NEW txs \in Bodies(chain), NEW m \in Peers, PeerExtends(txs, m) PROVE LedgerOK'
    <2> DEFINE x == MinedBy(m, txs, forks)
    <2>1. /\ Len(chain) < MaxHeight /\ chain' = Append(chain, x) /\ pool' = pool \ ToSet(txs)
          /\ due' = TRUE /\ UNCHANGED <<forks, w, control, past>>
        BY <1>3 DEF PeerExtends, rest
    <2>2. x \in Block /\ x.txs = txs /\ Runs(txs, NonceAt(chain))
        BY <1>1, <1>2, <1>3, BodyRuns
    <2> HIDE DEF x
    <2>3. IsLedger(chain')
        BY <1>1, <2>1, <2>2, LedgerExtends
    <2> QED BY <1>1, <2>1, <2>3, PeerBlockKeeps
<1>4. ASSUME NEW txs, NEW m \in Peers, PeerReorganises(txs, m) PROVE LedgerOK'
    <2> DEFINE n == forks + 1
               e == MinedBy(m, <<>>, n)
               x == MinedBy(m, txs, n)
               f == Front(chain)
               side == Append(f, e)
    <2>1. /\ chain # <<>> /\ Len(chain) < MaxHeight /\ forks' = n
          /\ txs \in Bodies(side) /\ chain' = Append(side, x) /\ pool' = pool \ ToSet(txs)
          /\ due' = TRUE /\ UNCHANGED <<w, control, past>>
        BY <1>4 DEF PeerReorganises
    <2>2. n \in Nat /\ e \in Block /\ e.txs = <<>>
        BY <1>1 DEF Block, MinedBy, Miners
    <2> HIDE DEF n, e, f
    <2>3. IsLedger(f) /\ Len(f) = Len(chain) - 1
        BY <1>1, <2>1, LedgerFront DEF f
    <2>4. f \in Seq(Block) /\ Len(f) \in Nat /\ Len(f) < MaxHeight /\ Len(f) + 1 < MaxHeight
        BY <1>1, <2>1, <2>3 DEF IsLedger, IsChain
    <2>5. Runs(e.txs, NonceAt(f))
        BY <2>2 DEF Runs
    <2>6. IsLedger(side)
        BY <2>2, <2>3, <2>4, <2>5, LedgerExtends
    <2>7. Len(side) < MaxHeight
        BY <2>2, <2>4
    <2> HIDE DEF side
    <2>8. x \in Block /\ x.txs = txs /\ Runs(txs, NonceAt(side))
        BY <1>2, <2>1, <2>2, <2>6, BodyRuns
    <2> HIDE DEF x
    <2>9. IsLedger(chain')
        BY <2>1, <2>6, <2>7, <2>8, LedgerExtends
    <2> QED BY <2>1, <2>2, <2>9, PeerBlockKeeps
<1> QED BY <1>3, <1>4

LEMMA WorldKeepsLedger ==
    ASSUME LedgerOK, ScheduleOK',
           \/ \E t \in Txs : AddTransaction(t)
           \/ DeliverUpdate
           \/ \E m \in Modes \cup {"update_work", "candidate"} : Call(m)
           \/ UNCHANGED vars
    PROVE  LedgerOK'
<1>1. WorldOK
    BY DEF LedgerOK
<1>2. ASSUME NEW t \in Txs, AddTransaction(t) PROVE LedgerOK'
    <2>1. /\ pool' = pool \cup {t} /\ due' = TRUE /\ UNCHANGED <<chain, forks, past, w, control>>
        BY <1>2 DEF AddTransaction, rest
    <2>2. pool' \subseteq Txs /\ IsFiniteSet(pool')
        BY <1>1, <2>1, FS_AddElement DEF WorldOK
    <2>3. WorldOK'
        BY <1>1, <2>1, <2>2 DEF WorldOK
    <2> QED BY <2>1, <2>3, OthersKeep
<1>3. CASE DeliverUpdate
    <2>1. due' = FALSE /\ UNCHANGED <<chain, forks, pool, past, w, control>>
        BY <1>3 DEF DeliverUpdate, rest
    <2>2. WorldOK'
        BY <1>1, <2>1 DEF WorldOK
    <2> QED BY <2>1, <2>2, OthersKeep
<1>4. CASE UNCHANGED <<world, w, control, past>>
    <2>1. WorldOK'
        BY <1>1, <1>4 DEF WorldOK, world
    <2> QED BY <1>4, <2>1, OthersKeep
<1>5. CASE \E m \in Modes \cup {"update_work", "candidate"} : Call(m)
    BY <1>4, <1>5 DEF Call
<1>6. CASE UNCHANGED vars
    BY <1>4, <1>6 DEF vars, world, control
<1> QED BY <1>2, <1>3, <1>5, <1>6

LEMMA AgeKeepsLedger ==
    ASSUME LedgerOK, ScheduleOK', CandidateAges
    PROVE  LedgerOK'
<1> DEFINE c == w.candidate
           d == [c EXCEPT !.fresh = FALSE]
<1>1. /\ w = Fields(w) /\ WorldOK /\ StateOK(w) /\ PlaceOK /\ c # NoBlock /\ CandidateOK(c)
    BY DEF LedgerOK, ScheduleOK, StateOK, CandidateAges, HasFreshCandidate
<1>2. w' = [w EXCEPT !.candidate = d] /\ UNCHANGED <<world, control, past>>
    BY DEF CandidateAges, rest
<1>3. c \in Candidate
    BY <1>1 DEF CandidateOK
<1> HIDE DEF c
<1>4. d \in Candidate /\ d.parent = c.parent /\ d.txs = c.txs
    BY <1>3 DEF Candidate
<1>5. d # NoBlock /\ CandidateOK(d)
    <2> HIDE DEF d
    <2> QED BY <1>1, <1>4, WorkerAssumption DEF CandidateOK
<1> HIDE DEF d
<1>6. w'.parent = w.parent /\ w'.proposal = w.proposal /\ w'.candidate = d
    BY <1>1, <1>2 DEF Fields
<1>7. WorldOK'
    BY <1>1, <1>2 DEF WorldOK, world
<1>8. StateOK(w)'
    BY <1>1, <1>5, <1>6 DEF StateOK
<1>9. PlaceOK'
    BY <1>1, <1>2, <1>4, <1>5, <1>6 DEF PlaceOK, control, c
<1> QED BY <1>7, <1>8, <1>9 DEF LedgerOK

LEMMA RestartKeepsLedger ==
    ASSUME LedgerOK, ScheduleOK', Restart
    PROVE  LedgerOK'
<1>1. /\ w' = Activated(Fresh) /\ pc' = "receive" /\ UNCHANGED world
      /\ past' \subseteq {"disabled", "restarted"}
    BY DEF Restart, Done
<1>2. Fresh = Fields(Fresh) /\ Fresh.parent = NoBlock /\ Fresh.proposal = <<>> /\ Fresh.candidate = NoBlock
    BY DEF Fresh, Fields
<1>3. w'.parent = NoBlock /\ w'.proposal = <<>> /\ w'.candidate = NoBlock
    BY <1>1, <1>2, TimerKeeps
<1>4. StateOK(w)'
    BY <1>3 DEF StateOK
<1>5. WorldOK'
    BY <1>1 DEF LedgerOK, WorldOK, world, Past
<1> QED BY <1>1, <1>4, <1>5, RestStep

LEMMA LedgerStep == LedgerOK /\ [Next]_vars => LedgerOK'
<1> SUFFICES ASSUME LedgerOK, [Next]_vars PROVE LedgerOK'
    OBVIOUS
<1>1. ScheduleOK'
    BY ScheduleStep DEF LedgerOK
<1>2. CASE Step
    BY <1>1, <1>2, HandlersKeepLedger, ReadPoolKeepsLedger, BuildKeepsLedger, BlockKeepsLedger,
       MineKeepsLedger DEF Step
<1>3. CASE Restart
    BY <1>1, <1>3, RestartKeepsLedger
<1>4. CASE CandidateAges
    BY <1>1, <1>4, AgeKeepsLedger
<1> QED
    BY <1>1, <1>2, <1>3, <1>4, PeersKeepLedger, WorldKeepsLedger DEF Next

LEMMA LedgerInvariant == Spec => []LedgerOK
    BY LedgerInit, LedgerStep, PTL DEF Spec

(* The transactions of the main chain run at their nonces, for every set of *)
(* transactions, prices, fee and miners: a candidate is only ever added to  *)
(* the block it was built on, be that the peak or a former one that the     *)
(* worker's late block makes part of the main chain again.                  *)
THEOREM TransactionsRunInOrder == Spec => []LedgerIsSequential
<1>1. LedgerOK => LedgerIsSequential
    <2> SUFFICES ASSUME LedgerOK PROVE LedgerIsSequential
        OBVIOUS
    <2>1. \A i \in DOMAIN Executed(chain) : Nonce[Executed(chain)[i]] = 0 + i - 1
        BY DEF LedgerOK, WorldOK, IsLedger, Runs
    <2>2. chain \in Seq(Block)
        BY DEF LedgerOK, WorldOK, IsLedger, IsChain
    <2>3. Executed(chain) \in Seq(Txs)
        <3> DEFINE x == MinedBy(Self, <<>>, 0)
        <3>1. x \in Block
            BY DEF Block, MinedBy, Miners
        <3> HIDE DEF x
        <3> QED BY <2>2, <3>1, ExecutedAppend
    <2>4. ASSUME NEW i \in DOMAIN Executed(chain) PROVE Nonce[Executed(chain)[i]] = i - 1
        <3>1. i \in Int
            BY <2>3
        <3> QED BY <2>1, <3>1
    <2> QED BY <2>4 DEF LedgerIsSequential
<1> QED
    BY <1>1, LedgerInvariant, PTL

(* The types of the worker's state and of what it has read; in particular   *)
(* there is a parent to build on and a candidate to mine where the handlers *)
(* use them.                                                                *)
THEOREM TypesOfMining == Spec => []TypeOK
<1>1. LedgerOK => TypeOK
    <2> SUFFICES ASSUME LedgerOK PROVE TypeOK
        OBVIOUS
    <2>1. ASSUME NEW b, IsLedger(b) PROVE IsBlock(b)
        <3>1. b \in Seq(Block) /\ Len(b) <= MaxHeight /\ MaxHeight \in Nat
            BY <2>1, WorkerAssumption DEF IsLedger, IsChain
        <3>2. Len(b) \in 0 .. MaxHeight
            BY <3>1
        <3>3. ASSUME NEW i \in DOMAIN b PROVE ToSet(b[i].txs) \subseteq Txs
            <4>1. b[i] \in Block
                BY <3>1
            <4>2. b[i].txs \in Seq(Txs)
                BY <4>1 DEF Block
            <4> QED BY <4>2 DEF ToSet
        <3> QED BY <3>2, <3>3 DEF IsBlock
    <2>2. ASSUME NEW S, NEW s \in Seq(S) PROVE ToSet(s) \subseteq S
        BY DEF ToSet
    <2>3. ScheduleOK /\ WorldOK /\ StateOK(w) /\ PlaceOK
        BY DEF LedgerOK
    <2>4. IsBlock(chain) /\ pool \subseteq Txs /\ due \in BOOLEAN /\ past \subseteq Past
        BY <2>1, <2>3 DEF WorldOK
    <2>5. /\ ToSet(mailbox) \subseteq Messages
          /\ w.mode \in AllModes /\ w.working \in BOOLEAN
        BY <2>2, <2>3 DEF ScheduleOK
    <2>6. (w.parent # NoBlock => IsBlock(w.parent)) /\ ToSet(w.proposal) \subseteq Txs
        BY <2>1, <2>2, <2>3 DEF StateOK
    <2>7. ASSUME w.candidate # NoBlock
          PROVE  /\ IsBlock(w.candidate.parent) /\ ToSet(w.candidate.txs) \subseteq Txs
                 /\ w.candidate.fresh \in BOOLEAN
        <3>1. CandidateOK(w.candidate)
            BY <2>3, <2>7 DEF StateOK
        <3>2. w.candidate.txs \in Seq(Txs) /\ w.candidate.fresh \in BOOLEAN
            BY <3>1 DEF CandidateOK, Candidate
        <3> QED BY <2>1, <2>2, <3>1, <3>2 DEF CandidateOK
    <2>8. /\ pc \in {"build", "mine", "submit"} => w.parent # NoBlock
          /\ pc \in {"mine", "submit"} => w.candidate # NoBlock
          /\ pc = "pool" => IsBlock(seen)
        BY <2>1, <2>3 DEF PlaceOK
    <2> QED BY <2>4, <2>5, <2>6, <2>7, <2>8 DEF TypeOK, Messages
<1> QED
    BY <1>1, LedgerInvariant, PTL

=============================================================================
