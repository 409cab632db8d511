-------------------------- MODULE ChainStore_proofs --------------------------
(***************************************************************************)
(* Proofs about ChainStore for every tree of blocks, cache and page size:  *)
(* IndInv is inductive, the safety properties of the table follow from it, *)
(* and every step of the store is a step of ForkChoice or a stutter.  At    *)
(* the end, what is answered from memory: the deltas of states end at a     *)
(* whole one, and once preloading is complete the cache knows every row.    *)
(***************************************************************************)
EXTENDS ChainStore, WellFoundedInduction, TLAPS

-----------------------------------------------------------------------------
(* Facts about the lineage of a block.  Lineage is a least fixed point, so *)
(* each fact comes from one well-chosen parent-closed set.                 *)

(* Any non-empty set of naturals has a least element.                       *)
LEMMA NatLeast ==
    ASSUME NEW T \in SUBSET Nat, T # {}
    PROVE  \E m \in T : \A k \in T : m <= k
<1> DEFINE R == {r \in Nat \X Nat : r[1] < r[2]}
<1>1. IsWellFoundedOn(R, Nat)
    BY NatLessThanWellFounded DEF OpToRel
<1>2. \E m \in T : \A k \in T : ~ (<<k, m>> \in R)
    <2> HIDE DEF R
    <2> QED
        BY <1>1, WFMin
<1>3. PICK m \in T : \A k \in T : ~ (<<k, m>> \in R)
    BY <1>2
<1>4. ASSUME NEW k \in T
      PROVE  m <= k
    <2>1. <<k, m>> \notin R /\ k \in Nat /\ m \in Nat
        BY <1>3
    <2> QED
        BY <2>1
<1> QED
    BY <1>4

(* A lineage holds its block and is parent-closed, and every parent-closed *)
(* set that holds the block holds the lineage.                             *)
LEMMA LineageLeast ==
    ASSUME NEW b \in Blocks
    PROVE  /\ Lineage[b] \subseteq Blocks
           /\ b \in Lineage[b]
           /\ ParentClosed(Lineage[b])
           /\ \A S \in SUBSET Blocks : b \in S /\ ParentClosed(S) => Lineage[b] \subseteq S
<1>1. Lineage[b] = {c \in Blocks : \A S \in ClosedSets : b \in S => c \in S}
    BY DEF Lineage
<1>2. ASSUME NEW c \in Lineage[b] \ {Genesis}
      PROVE  Parent[c] \in Lineage[b]
    <2>1. c \in Blocks /\ Parent[c] \in Blocks
        BY <1>1, BlockTreeAssumption
    <2>2. ASSUME NEW S \in ClosedSets, b \in S
          PROVE  Parent[c] \in S
        BY <1>1, <2>2 DEF ClosedSets, ParentClosed
    <2> QED
        BY <1>1, <2>1, <2>2
<1>3. ASSUME NEW S \in SUBSET Blocks, b \in S, ParentClosed(S)
      PROVE  Lineage[b] \subseteq S
    BY <1>1, <1>3 DEF ClosedSets
<1> QED
    BY <1>1, <1>2, <1>3 DEF ParentClosed

(* The blocks below a block of a lineage belong to the lineage.             *)
LEMMA LineageTransitive ==
    ASSUME NEW b \in Blocks, NEW c \in Lineage[b]
    PROVE  Lineage[c] \subseteq Lineage[b]
    BY LineageLeast

LEMMA LineageOfGenesis == Lineage[Genesis] = {Genesis}
<1>1. ParentClosed({Genesis})
    BY DEF ParentClosed
<1> QED
    BY <1>1, LineageLeast, BlockTreeAssumption

(* The lineage of a block is the block and the lineage of its parent.       *)
LEMMA LineageStep ==
    ASSUME NEW b \in Blocks \ {Genesis}
    PROVE  Lineage[b] = {b} \cup Lineage[Parent[b]]
<1>1. Parent[b] \in Blocks
    BY BlockTreeAssumption
<1>2. Parent[b] \in Lineage[b]
    BY LineageLeast DEF ParentClosed
<1>3. Lineage[Parent[b]] \subseteq Lineage[b]
    BY <1>2, LineageTransitive
<1>4. ParentClosed({b} \cup Lineage[Parent[b]])
    BY <1>1, LineageLeast DEF ParentClosed
<1>5. {b} \cup Lineage[Parent[b]] \in SUBSET Blocks
    BY <1>1, LineageLeast
<1> QED
    BY <1>3, <1>4, <1>5, LineageLeast

(* Ancestors have smaller numbers and weigh less.                           *)
LEMMA LineageBelow ==
    ASSUME NEW b \in Blocks, NEW c \in Lineage[b]
    PROVE  /\ c = b \/ Number[c] < Number[b]
           /\ TotalDifficulty[c] <= TotalDifficulty[b]
<1> DEFINE S == {d \in Blocks : /\ d = b \/ Number[d] < Number[b]
                                /\ TotalDifficulty[d] <= TotalDifficulty[b]}
<1>1. b \in S
    BY BlockTreeAssumption
<1>2. ASSUME NEW d \in S \ {Genesis}
      PROVE  Parent[d] \in S
    <2>1. /\ Parent[d] \in Blocks
          /\ Number[d] \in Nat /\ Number[b] \in Nat /\ Number[Parent[d]] \in Nat
          /\ Number[d] = Number[Parent[d]] + 1
          /\ TotalDifficulty[d] \in Nat
          /\ TotalDifficulty[b] \in Nat
          /\ TotalDifficulty[Parent[d]] \in Nat
          /\ TotalDifficulty[d] > TotalDifficulty[Parent[d]]
        BY BlockTreeAssumption
    <2> QED
        BY <2>1
<1>3. ParentClosed(S)
    BY <1>2 DEF ParentClosed
<1> QED
    BY <1>1, <1>3, LineageLeast

(* Of two blocks of a lineage one is in the lineage of the other.           *)
LEMMA LineageOrdered ==
    ASSUME NEW b \in Blocks, NEW c \in Lineage[b], NEW d \in Lineage[b]
    PROVE  c \in Lineage[d] \/ Number[c] > Number[d]
<1> DEFINE S == {x \in Lineage[b] :
                    \A e \in Lineage[b] : e \in Lineage[x] \/ Number[e] > Number[x]}
<1>1. b \in S
    BY LineageLeast
<1>2. ASSUME NEW x \in S \ {Genesis}
      PROVE  Parent[x] \in S
    <2>1. /\ x \in Blocks
          /\ Parent[x] \in Lineage[b]
        BY LineageLeast DEF ParentClosed
    <2>2. ASSUME NEW e \in Lineage[b]
          PROVE  e \in Lineage[Parent[x]] \/ Number[e] > Number[Parent[x]]
        <3>1. /\ e \in Blocks /\ Number[e] \in Nat
              /\ Number[x] \in Nat /\ Number[Parent[x]] \in Nat
              /\ Number[x] = Number[Parent[x]] + 1
            BY <2>1, LineageLeast, BlockTreeAssumption
        <3>2. e \in Lineage[x] \/ Number[e] > Number[x]
            OBVIOUS
        <3>3. Lineage[x] = {x} \cup Lineage[Parent[x]]
            BY <2>1, LineageStep
        <3> QED
            BY <3>1, <3>2, <3>3
    <2> QED
        BY <2>1, <2>2
<1>3. ParentClosed(S)
    BY <1>2 DEF ParentClosed
<1>4. Lineage[b] \subseteq S
    <2>1. S \in SUBSET Blocks
        BY LineageLeast
    <2> QED
        BY <1>1, <1>3, <2>1, LineageLeast
<1> QED
    BY <1>4

(* A lineage has one block at each height.                                  *)
LEMMA LineageUnique ==
    ASSUME NEW b \in Blocks, NEW c \in Lineage[b], NEW d \in Lineage[b],
           Number[c] = Number[d]
    PROVE  c = d
<1>1. c \in Blocks /\ d \in Blocks
    BY LineageLeast
<1>2. Number[c] \in Nat /\ Number[d] \in Nat
    BY <1>1, BlockTreeAssumption
<1>3. c \in Lineage[d]
    BY <1>2, LineageOrdered
<1> QED
    BY <1>1, <1>2, <1>3, LineageBelow

(* A non-empty parent-closed set holds genesis.                             *)
LEMMA ClosedHoldsGenesis ==
    ASSUME NEW S \in SUBSET Blocks, S # {}, ParentClosed(S)
    PROVE  Genesis \in S
<1> DEFINE T == {Number[c] : c \in S}
<1>1. T \in SUBSET Nat /\ T # {}
    BY BlockTreeAssumption
<1>2. PICK m \in T : \A k \in T : m <= k
    BY <1>1, NatLeast
<1>3. PICK c \in S : Number[c] = m
    OBVIOUS
<1>4. CASE c # Genesis
    <2>1. Parent[c] \in S
        BY <1>4 DEF ParentClosed
    <2>2. /\ Number[Parent[c]] \in Nat /\ Number[c] \in Nat
          /\ Number[c] = Number[Parent[c]] + 1
        BY <1>4, <2>1, BlockTreeAssumption
    <2>3. Number[Parent[c]] \in T
        BY <2>1
    <2>4. m <= Number[Parent[c]]
        BY <1>2, <2>3
    <2> QED
        BY <1>3, <2>2, <2>4
<1> QED
    BY <1>4

(* A lineage has a block at every height up to that of its block.           *)
LEMMA LineageHeights ==
    ASSUME NEW b \in Blocks, NEW n \in Nat, n <= Number[b]
    PROVE  \E c \in Lineage[b] : Number[c] = n
<1> SUFFICES ASSUME \A c \in Lineage[b] : Number[c] # n
             PROVE  FALSE
    OBVIOUS
<1> DEFINE S == {c \in Lineage[b] : Number[c] > n}
<1>1. Number[b] \in Nat /\ Number[Genesis] = 0
    BY BlockTreeAssumption
<1>2. b \in S
    BY <1>1, LineageLeast
<1>3. ASSUME NEW c \in S \ {Genesis}
      PROVE  Parent[c] \in S
    <2>1. c \in Blocks /\ Parent[c] \in Lineage[b]
        BY LineageLeast DEF ParentClosed
    <2>2. /\ Number[c] \in Nat /\ Number[Parent[c]] \in Nat
          /\ Number[c] = Number[Parent[c]] + 1
        BY <2>1, BlockTreeAssumption
    <2> QED
        BY <2>1, <2>2
<1>4. ParentClosed(S) /\ S \in SUBSET Blocks
    BY <1>3, LineageLeast DEF ParentClosed
<1>5. Genesis \in S
    BY <1>2, <1>4, ClosedHoldsGenesis
<1> QED
    BY <1>1, <1>5

-----------------------------------------------------------------------------
(* The table.                                                              *)

(* The highest number among the rows of a lineage is that of its tip.       *)
LEMMA TipOfLineage ==
    ASSUME NEW t \in Blocks
    PROVE  TipOf(Lineage[t]) = t
<1>1. t \in Lineage[t] /\ Number[t] \in Nat
    BY LineageLeast, BlockTreeAssumption
<1>2. \A c \in Lineage[t] : c \in Blocks /\ Number[c] \in Nat /\ (c = t \/ Number[c] < Number[t])
    BY LineageLeast, LineageBelow, BlockTreeAssumption
<1>3. \A c \in Lineage[t] : Number[c] <= Number[t]
    BY <1>1, <1>2
<1>4. \A b \in Lineage[t] : (\A c \in Lineage[t] : Number[c] <= Number[b]) => b = t
    BY <1>1, <1>2
<1> QED
    BY <1>1, <1>3, <1>4 DEF TipOf

(* put_peak: after the walk the numbered rows are the lineage of the block. *)
LEMMA NormativeIsLineage ==
    ASSUME NEW t \in Blocks, NEW b \in Blocks, norm = Lineage[t]
    PROVE  Normative(b) = Lineage[b]
<1>1. \A c \in Lineage[b] \cup Lineage[t] : c \in Blocks /\ Number[c] \in Nat
    BY LineageLeast, BlockTreeAssumption
<1>2. b \in Lineage[b] /\ Renumbered(b) \subseteq Lineage[b] /\ Number[b] \in Nat
    BY LineageLeast, BlockTreeAssumption DEF Renumbered
<1>3. ASSUME NEW c \in norm, Number[c] < Number[b],
             \A d \in Renumbered(b) : Number[c] # Number[d]
      PROVE  c \in Lineage[b]
    <2>1. PICK e \in Lineage[b] : Number[e] = Number[c]
        BY <1>1, <1>2, <1>3, LineageHeights
    <2>2. PICK d \in norm \cap Lineage[b] : Number[d] < Number[b] /\ ~(Number[d] < Number[e])
        BY <1>3, <2>1 DEF Renumbered
    <2>3. ~(Number[c] > Number[d])
        BY <1>1, <2>1, <2>2
    <2>4. c \in Lineage[d]
        BY <2>2, <2>3, LineageOrdered
    <2> QED
        BY <2>2, <2>4, LineageTransitive
<1>4. ASSUME NEW c \in Lineage[b], c \notin Renumbered(b)
      PROVE  /\ c \in norm /\ Number[c] < Number[b]
             /\ \A d \in Renumbered(b) : Number[c] # Number[d]
    <2>1. PICK d \in norm \cap Lineage[b] : Number[d] < Number[b] /\ ~(Number[d] < Number[c])
        BY <1>4 DEF Renumbered
    <2>2. ~(Number[c] > Number[d]) /\ Number[c] < Number[b]
        BY <1>1, <1>2, <2>1
    <2>3. c \in Lineage[d]
        BY <2>1, <2>2, LineageOrdered
    <2>4. c \in norm
        BY <2>1, <2>3, LineageTransitive
    <2>5. \A r \in Renumbered(b) : Number[r] # Number[c]
        BY <1>2, <1>4, LineageUnique
    <2> QED
        BY <2>2, <2>4, <2>5
<1> QED
    BY <1>2, <1>3, <1>4 DEF Normative

(* Every number up to the peak's has a row.                                 *)
LEMMA RowAtHeight ==
    ASSUME NEW t \in Blocks, norm = Lineage[t], NEW n \in Nat, n <= Number[t]
    PROVE  RowAt(n) \in norm
<1>1. \E b \in norm : Number[b] = n
    BY LineageHeights
<1> QED
    BY <1>1 DEF RowAt

(* A page of the preloading query holds rows of the main chain only.        *)
LEMMA PageType ==
    ASSUME NEW t \in Blocks, norm = Lineage[t], NEW n \in Nat
    PROVE  /\ Page(n) \in Seq(norm)
           /\ Len(Page(n)) \in Nat
<1> DEFINE last == IF n + PageSize < Number[t] THEN n + PageSize ELSE Number[t]
<1>1. TopNumber = Number[t] /\ Number[t] \in Nat
    BY TipOfLineage, BlockTreeAssumption DEF TopNumber
<1>2. last \in Nat /\ last <= Number[t]
    BY <1>1, ChainStoreAssumption
<1>3. Page(n) = IF last <= n THEN <<>> ELSE [i \in 1 .. last - n |-> RowAt(n + i)]
    BY <1>1 DEF Page
<1> HIDE DEF last
<1>4. CASE ~(last <= n)
    <2>1. last - n \in Nat
        BY <1>2, <1>4
    <2>2. ASSUME NEW i \in 1 .. last - n
          PROVE  RowAt(n + i) \in norm
        <3>1. n + i \in Nat /\ n + i <= Number[t]
            BY <1>1, <1>2
        <3> QED
            BY <3>1, RowAtHeight
    <2> DEFINE page == [i \in 1 .. last - n |-> RowAt(n + i)]
    <2>3. page \in Seq(norm)
        BY <2>1, <2>2
    <2>4. Page(n) = page
        BY <1>3, <1>4
    <2> HIDE DEF page
    <2> QED
        BY <2>3, <2>4
<1>5. CASE last <= n
    <2>1. Page(n) = <<>>
        BY <1>3, <1>5
    <2> QED
        BY <2>1
<1> QED
    BY <1>4, <1>5

LEMMA TopBlocksType ==
    ASSUME NEW t \in Blocks, norm = Lineage[t]
    PROVE  TopBlocks \in Seq(norm)
<1> DEFINE size == IF EtsSize < Number[t] + 1 THEN EtsSize ELSE Number[t] + 1
<1>1. TopNumber = Number[t] /\ Number[t] \in Nat
    BY TipOfLineage, BlockTreeAssumption DEF TopNumber
<1>2. size \in Nat /\ size <= Number[t] + 1
    BY <1>1, ChainStoreAssumption
<1>3. TopBlocks = [i \in 1 .. size |-> RowAt(Number[t] + 1 - i)]
    BY <1>1 DEF TopBlocks
<1> HIDE DEF size
<1>4. ASSUME NEW i \in 1 .. size
      PROVE  RowAt(Number[t] + 1 - i) \in norm
    <2>1. Number[t] + 1 - i \in Nat /\ Number[t] + 1 - i <= Number[t]
        BY <1>1, <1>2
    <2> QED
        BY <2>1, RowAtHeight
<1> QED
    BY <1>2, <1>3, <1>4

(* prepare_state refers to a row, or to none.                               *)
LEMMA PrepareStateType ==
    ASSUME NEW b \in Blocks, norm \subseteq Blocks
    PROVE  PrepareState(b) \in MaybeBlocks
    BY DEF PrepareState, MaybeBlocks

-----------------------------------------------------------------------------
(* The rows, whatever call is being handled.                                *)
LEMMA RowFacts ==
    ASSUME TypeOK, RowsOK, JobOK
    PROVE  /\ Tip \in Blocks
           /\ norm = Lineage[Tip]
           /\ norm \subseteq stored
           /\ TipOf(norm) = Tip
           /\ stored \subseteq Blocks
<1>1. Tip \in Blocks /\ norm = Lineage[Tip] /\ stored \subseteq Blocks
    BY DEF TypeOK, RowsOK, JobOK, Tip
<1>2. norm \subseteq stored
    BY DEF RowsOK
<1> QED
    BY <1>1, <1>2, TipOfLineage

(* ets_add keeps the types of the cache and points only to known rows.      *)
LEMMA EtsAddOK ==
    ASSUME TypeOK, CacheOK, NEW b \in stored
    PROVE  /\ EtsAdd(ets, b) \in [hash : [Blocks -> {"none", "true", "block"}],
                                 index : [Heights -> MaybeBlocks]]
           /\ \A c \in Blocks : EtsAdd(ets, b).hash[c] # "none" => c \in stored
           /\ \A n \in Heights :
                 EtsAdd(ets, b).index[n] # NoBlock => EtsAdd(ets, b).index[n] \in stored
<1> DEFINE index == [ets.index EXCEPT ![Number[b]] = b]
           hash == [c \in Blocks |->
                      IF c \in Evicted(index, b) THEN "true"
                      ELSE IF c = b THEN "block" ELSE ets.hash[c]]
<1>1. /\ b \in Blocks /\ Number[b] \in Heights
      /\ ets.hash \in [Blocks -> {"none", "true", "block"}]
      /\ ets.index \in [Heights -> MaybeBlocks]
      /\ NoBlock \notin Blocks
    BY ChainStoreAssumption DEF TypeOK, Heights
<1>2. EtsAdd(ets, b) = [hash |-> hash, index |-> index]
    BY DEF EtsAdd
<1>3. index \in [Heights -> MaybeBlocks]
    BY <1>1 DEF MaybeBlocks
<1>4. \A n \in Heights : index[n] # NoBlock => index[n] \in stored
    BY <1>1 DEF CacheOK
<1>5. \A c \in Evicted(index, b) : c \in stored
    BY <1>1, <1>4 DEF Evicted
<1> HIDE DEF index
<1>6. hash \in [Blocks -> {"none", "true", "block"}]
    BY <1>1
<1>7. \A c \in Blocks : hash[c] # "none" => c \in stored
    BY <1>5 DEF CacheOK
<1> HIDE DEF hash
<1> QED
    BY <1>2, <1>3, <1>4, <1>6, <1>7

LEMMA EtsPlaceholderOK ==
    ASSUME TypeOK, CacheOK, NEW b \in stored
    PROVE  /\ EtsPlaceholder(ets, b) \in
                 [hash : [Blocks -> {"none", "true", "block"}],
                  index : [Heights -> MaybeBlocks]]
           /\ \A c \in Blocks : EtsPlaceholder(ets, b).hash[c] # "none" => c \in stored
           /\ \A n \in Heights :
                 EtsPlaceholder(ets, b).index[n] # NoBlock
                     => EtsPlaceholder(ets, b).index[n] \in stored
<1>1. /\ b \in Blocks /\ Number[b] \in Heights
      /\ ets.hash \in [Blocks -> {"none", "true", "block"}]
      /\ ets.index \in [Heights -> MaybeBlocks]
    BY DEF TypeOK, Heights
<1> QED
    BY <1>1 DEF EtsPlaceholder, CacheOK, MaybeBlocks

-----------------------------------------------------------------------------
(* IndInv is inductive: one lemma per handler step, crash or query.        *)

LEMMA IndInvInit == Init => IndInv
<1> SUFFICES ASSUME Init PROVE IndInv
    OBVIOUS
<1> USE DEF Init, Idle, StartPrefetch, NoReply, EmptyEts
<1>1. TypeOK
    <2>1. ets \in [hash : [Blocks -> {"none", "true", "block"}],
                  index : [Heights -> MaybeBlocks]]
        BY DEF MaybeBlocks
    <2>2. base \in [Blocks -> MaybeBlocks]
        BY DEF MaybeBlocks
    <2>3. job \in [pc : {"idle", "alt", "extend", "refetch"},
                  block : MaybeBlocks, cursor : MaybeBlocks]
        BY DEF MaybeBlocks
    <2>4. prefetch \in [pc : {"hashes", "read_top", "top"}, n : Nat, todo : Seq(Blocks)]
        OBVIOUS
    <2>5. reply \in [block : MaybeBlocks, ret : Rets]
        BY DEF MaybeBlocks, Rets
    <2>6. mailbox \in Seq(Blocks)
        OBVIOUS
    <2>7. /\ stored \subseteq Blocks /\ norm \subseteq Blocks /\ peak \in Blocks
          /\ complete \in BOOLEAN /\ restarts \in Nat
        BY BlockTreeAssumption
    <2> QED
        BY <2>1, <2>2, <2>3, <2>4, <2>5, <2>6, <2>7 DEF TypeOK
<1>2. RowsOK
    BY BlockTreeAssumption, LineageOfGenesis DEF RowsOK, Tip
<1> QED
    BY <1>1, <1>2 DEF IndInv, JobOK, QueueOK, CacheOK, TodoOK

(* Genesis is never queued.                                                 *)
LEMMA SubmitStep ==
    ASSUME IndInv, NEW b \in Blocks, Submit(b)
    PROVE  IndInv'
<1> USE DEF IndInv
<1>1. CASE SubmitKnown(b) \/ SubmitGenesis(b)
    BY <1>1 DEF SubmitKnown, SubmitGenesis, sql, TypeOK, RowsOK, Tip, JobOK,
        QueueOK, CacheOK, TodoOK, MaybeBlocks, Rets
<1>2. CASE SubmitNew(b)
    <2>1. b # Genesis
        BY <1>2, BlockTreeAssumption DEF SubmitNew
    <2>2. QueueOK' /\ mailbox' \in Seq(Blocks)
        BY <1>2, <2>1 DEF SubmitNew, sql, TypeOK, QueueOK
    <2> QED
        BY <1>2, <2>2 DEF SubmitNew, sql, TypeOK, RowsOK, Tip, JobOK, CacheOK, TodoOK
<1> QED
    BY <1>1, <1>2 DEF Submit

(* What the first call in the mailbox asks for, and what stays behind it.   *)
LEMMA DequeueFacts ==
    ASSUME IndInv, Dequeue
    PROVE  /\ Next1 \in Blocks \ {Genesis}
           /\ mailbox' \in Seq(Blocks)
           /\ QueueOK'
           /\ Tip = peak
<1> USE DEF IndInv, Dequeue
<1>1. /\ Next1 = mailbox[1] /\ 1 \in 1 .. Len(mailbox) /\ mailbox[1] \in Blocks
      /\ mailbox' \in Seq(Blocks)
      /\ Len(mailbox') = Len(mailbox) - 1
      /\ \A i \in 1 .. Len(mailbox') : mailbox'[i] = mailbox[i + 1]
    BY DEF TypeOK, Next1
<1>2. Len(mailbox) \in Nat
    BY DEF TypeOK
<1>3. ASSUME NEW i \in 1 .. Len(mailbox')
      PROVE  mailbox'[i] # Genesis
    <2>1. i + 1 \in 1 .. Len(mailbox)
        BY <1>1, <1>2
    <2> QED
        BY <1>1, <1>3, <2>1 DEF QueueOK
<1> QED
    BY <1>1, <1>3 DEF QueueOK, Tip

LEMMA SkipExistingStep ==
    ASSUME IndInv, SkipExisting
    PROVE  IndInv'
<1>1. Dequeue
    BY DEF SkipExisting
<1> QED
    BY <1>1, DequeueFacts DEF SkipExisting, IndInv, sql, TypeOK, RowsOK, Tip, JobOK,
        CacheOK, TodoOK, MaybeBlocks, Rets

(* What an inserted row leaves true of the tables.                          *)
LEMMA InsertRowFacts ==
    ASSUME IndInv, NEW b \in Blocks, InsertRow(b)
    PROVE  /\ stored' \subseteq Blocks
           /\ base' \in [Blocks -> MaybeBlocks]
           /\ stored' = stored \cup {b}
<1>1. norm \subseteq Blocks /\ stored \subseteq Blocks /\ base \in [Blocks -> MaybeBlocks]
    BY DEF IndInv, TypeOK
<1>2. PrepareState(b) \in MaybeBlocks
    BY <1>1, PrepareStateType
<1> QED
    BY <1>1, <1>2 DEF InsertRow

LEMMA CommitAltStep ==
    ASSUME IndInv, CommitAlt
    PROVE  IndInv'
<1>1. Dequeue /\ InsertRow(Next1)
    BY DEF CommitAlt
<1>2. Next1 \in Blocks /\ mailbox' \in Seq(Blocks) /\ Tip = peak
    BY <1>1, DequeueFacts
<1>3. /\ stored' \subseteq Blocks /\ base' \in [Blocks -> MaybeBlocks]
      /\ stored' = stored \cup {Next1}
    BY <1>1, <1>2, InsertRowFacts
<1>4. QueueOK'
    BY <1>1, DequeueFacts
<1>5. job' = [pc |-> "alt", block |-> Next1, cursor |-> NoBlock]
    BY DEF CommitAlt
<1>6. TypeOK'
    BY <1>2, <1>3, <1>5 DEF CommitAlt, IndInv, TypeOK, MaybeBlocks
<1>7. RowsOK'
    <2>1. Tip' = Tip
        BY <1>2, <1>5 DEF CommitAlt, Tip
    <2>2. \A c \in stored' : TotalDifficulty[c] <= TotalDifficulty[Tip]
        BY <1>2, <1>3 DEF CommitAlt, IndInv, RowsOK
    <2> QED
        BY <1>3, <2>1, <2>2 DEF CommitAlt, IndInv, RowsOK
<1>8. JobOK' /\ CacheOK' /\ TodoOK'
    BY <1>3, <1>5 DEF CommitAlt, IndInv, JobOK, CacheOK, TodoOK
<1> QED
    BY <1>4, <1>6, <1>7, <1>8 DEF IndInv

(* A block that outweighs the tip becomes the tip of its own lineage.       *)
LEMMA NewTipRows ==
    ASSUME IndInv, NEW b \in Blocks,
           stored' = stored \cup {b}, norm' = Lineage[b], norm' \subseteq stored', Tip' = b,
           TotalDifficulty[Tip] < TotalDifficulty[b]
    PROVE  RowsOK' /\ norm' \subseteq Blocks
<1>1. \A c \in stored : /\ TotalDifficulty[c] \in Nat
                        /\ TotalDifficulty[c] <= TotalDifficulty[Tip]
    BY BlockTreeAssumption DEF IndInv, TypeOK, RowsOK
<1>2. TotalDifficulty[Tip] \in Nat /\ TotalDifficulty[b] \in Nat
    BY RowFacts, BlockTreeAssumption DEF IndInv
<1>3. \A c \in stored' : TotalDifficulty[c] <= TotalDifficulty[b]
    BY <1>1, <1>2
<1> QED
    BY <1>3, LineageLeast DEF RowsOK

LEMMA CommitExtensionStep ==
    ASSUME IndInv, CommitExtension
    PROVE  IndInv'
<1>1. Dequeue /\ Parent[Next1] = peak
    BY DEF CommitExtension
<1>2. Next1 \in Blocks \ {Genesis} /\ mailbox' \in Seq(Blocks) /\ Tip = peak
    BY <1>1, DequeueFacts
<1>3. /\ stored' = stored \cup {Next1}
      /\ norm' = norm \cup {Next1}
      /\ base' = [base EXCEPT ![Next1] = PrepareState(Next1)]
      /\ job' = [pc |-> "extend", block |-> Next1, cursor |-> NoBlock]
    BY DEF CommitExtension
<1>4. base' \in [Blocks -> MaybeBlocks] /\ stored' \subseteq Blocks
    BY <1>2, <1>3, PrepareStateType DEF IndInv, TypeOK
<1>5. norm' = Lineage[Next1] /\ norm' \subseteq stored' /\ Tip' = Next1
    BY <1>1, <1>2, <1>3, LineageStep DEF IndInv, RowsOK, Tip
<1>6. TotalDifficulty[Tip] < TotalDifficulty[Next1]
    BY <1>1, <1>2, BlockTreeAssumption
<1>7. RowsOK' /\ norm' \subseteq Blocks
    BY <1>2, <1>3, <1>5, <1>6, NewTipRows
<1>8. QueueOK'
    BY <1>1, DequeueFacts
<1>9. TypeOK'
    BY <1>2, <1>3, <1>4, <1>7 DEF CommitExtension, IndInv, TypeOK, MaybeBlocks
<1>10. JobOK' /\ CacheOK' /\ TodoOK'
    BY <1>3 DEF CommitExtension, IndInv, JobOK, CacheOK, TodoOK
<1> QED
    BY <1>7, <1>8, <1>9, <1>10 DEF IndInv

(* A walk that ends has found a row for every block below b.                *)
LEMMA WalkRows ==
    ASSUME IndInv, NEW b \in Blocks \ {Genesis}, WalkEnds(b)
    PROVE  Lineage[b] \ {b} \subseteq stored
<1> SUFFICES ASSUME NEW c \in Lineage[b], c # b PROVE c \in stored
    OBVIOUS
<1>1. /\ Tip \in Blocks /\ norm = Lineage[Tip] /\ norm \subseteq stored
      /\ c \in Blocks
    BY RowFacts, LineageLeast DEF IndInv
<1>2. c \in Renumbered(b) \/ c \in norm
    BY <1>1, NormativeIsLineage DEF Normative
<1>3. CASE c \in Renumbered(b)
    <2>1. Number[c] \in Nat /\ Number[b] \in Nat /\ Number[c] < Number[b]
        BY <1>1, LineageBelow, BlockTreeAssumption
    <2>2. PICK d \in Lineage[b] : Number[d] = Number[c] + 1
        BY <2>1, LineageHeights
    <2>3. d \in Blocks /\ d # Genesis
        BY <2>1, <2>2, LineageLeast, BlockTreeAssumption
    <2>4. Parent[d] \in Lineage[b] /\ Number[Parent[d]] = Number[c]
        <3>1. Parent[d] \in Lineage[b]
            BY <2>3, LineageLeast DEF ParentClosed
        <3>2. Parent[d] \in Blocks /\ Number[Parent[d]] \in Nat /\ Number[d] = Number[Parent[d]] + 1
            BY <2>3, BlockTreeAssumption
        <3> QED
            BY <2>1, <2>2, <3>1, <3>2
    <2>5. Parent[d] = c
        BY <2>4, LineageUnique
    <2>6. d \in Renumbered(b)
        <3>1. \A e \in norm \cap Lineage[b] : Number[e] \in Nat
            BY <1>1, LineageLeast, BlockTreeAssumption
        <3> QED
            BY <1>3, <2>1, <2>2, <3>1 DEF Renumbered
    <2>7. Found(c)
        BY <2>3, <2>5, <2>6 DEF WalkEnds
    <2> QED
        BY <1>1, <2>7 DEF Found, IndInv, CacheOK
<1> QED
    BY <1>1, <1>2, <1>3

LEMMA CommitReorgStep ==
    ASSUME IndInv, CommitReorg
    PROVE  IndInv'
<1>1. Dequeue /\ InsertRow(Next1)
    BY DEF CommitReorg
<1>2. Next1 \in Blocks \ {Genesis} /\ mailbox' \in Seq(Blocks) /\ Tip = peak
    BY <1>1, DequeueFacts
<1>3. /\ norm' = Normative(Next1)
      /\ job' = [pc |-> "refetch", block |-> Next1, cursor |-> Next1]
      /\ TotalDifficulty[peak] < TotalDifficulty[Next1]
    BY <1>2, BlockTreeAssumption DEF CommitReorg, IndInv, TypeOK
<1>4. /\ stored' \subseteq Blocks /\ base' \in [Blocks -> MaybeBlocks]
      /\ stored' = stored \cup {Next1}
    BY <1>1, <1>2, InsertRowFacts
<1>5. norm' = Lineage[Next1] /\ norm' \subseteq stored' /\ Tip' = Next1
    <2>1. norm = Lineage[peak] /\ peak \in Blocks
        BY <1>2 DEF IndInv, RowsOK, TypeOK
    <2>2. norm' = Lineage[Next1] /\ Tip' = Next1
        BY <1>2, <1>3, <2>1, NormativeIsLineage DEF Tip
    <2>3. Lineage[Next1] \ {Next1} \subseteq stored
        BY <1>2, WalkRows DEF CommitReorg
    <2> QED
        BY <1>4, <2>2, <2>3
<1>6. RowsOK' /\ norm' \subseteq Blocks
    BY <1>2, <1>3, <1>4, <1>5, NewTipRows
<1>7. QueueOK'
    BY <1>1, DequeueFacts
<1>8. TypeOK'
    BY <1>2, <1>3, <1>4, <1>6 DEF CommitReorg, IndInv, TypeOK, MaybeBlocks
<1>9. JobOK' /\ CacheOK' /\ TodoOK'
    BY <1>2, <1>3, <1>4, <1>5, LineageLeast DEF CommitReorg, IndInv, JobOK, CacheOK, TodoOK
<1> QED
    BY <1>6, <1>7, <1>8, <1>9 DEF IndInv

(* The block of a call being handled, once it is committed.                 *)
LEMMA JobFacts ==
    ASSUME IndInv, job.pc # "idle"
    PROVE  job.block \in stored /\ job.block \in Blocks
    BY DEF IndInv, JobOK, TypeOK

LEMMA FinishAltStep ==
    ASSUME IndInv, FinishAlt
    PROVE  IndInv'
<1>1. job.block \in stored /\ job.block \in Blocks
    BY JobFacts DEF FinishAlt
<1>2. /\ ets' = [ets EXCEPT !.hash[job.block] = "true"]
      /\ job' = [pc |-> "idle", block |-> NoBlock, cursor |-> NoBlock]
      /\ reply' = [block |-> job.block, ret |-> "stored"]
    BY DEF FinishAlt, Answer, Idle
<1>3. CacheOK' /\ ets' \in [hash : [Blocks -> {"none", "true", "block"}],
                            index : [Heights -> MaybeBlocks]]
    <2>1. /\ ets \in [hash : [Blocks -> {"none", "true", "block"}],
                     index : [Heights -> MaybeBlocks]]
          /\ CacheOK
        BY DEF IndInv, TypeOK
    <2>2. /\ ets'.hash = [ets.hash EXCEPT ![job.block] = "true"]
          /\ ets'.index = ets.index
          /\ ets' = [hash |-> ets'.hash, index |-> ets'.index]
        BY <1>2, <2>1
    <2>3. ets'.hash \in [Blocks -> {"none", "true", "block"}]
        BY <2>1, <2>2
    <2>4. stored' = stored
        BY DEF FinishAlt, sql
    <2>5. \A b \in Blocks : ets'.hash[b] # "none" => b \in stored
        BY <1>1, <2>1, <2>2 DEF CacheOK
    <2> QED
        BY <2>1, <2>2, <2>3, <2>4, <2>5 DEF CacheOK
<1>4. TypeOK'
    BY <1>1, <1>2, <1>3 DEF FinishAlt, sql, IndInv, TypeOK, MaybeBlocks, Rets
<1>5. RowsOK'
    BY <1>2 DEF FinishAlt, sql, IndInv, RowsOK, Tip
<1> QED
    BY <1>2, <1>3, <1>4, <1>5 DEF FinishAlt, sql, IndInv, JobOK, QueueOK, TodoOK

LEMMA FinishExtensionStep ==
    ASSUME IndInv, FinishExtension
    PROVE  IndInv'
<1>1. job.block \in stored /\ job.block \in Blocks
    BY JobFacts DEF FinishExtension
<1>2. /\ ets' = EtsAdd(ets, job.block)
      /\ peak' = job.block
      /\ job' = [pc |-> "idle", block |-> NoBlock, cursor |-> NoBlock]
      /\ reply' = [block |-> job.block, ret |-> "added"]
    BY DEF FinishExtension, Answer, Idle
<1>3. CacheOK' /\ ets' \in [hash : [Blocks -> {"none", "true", "block"}],
                            index : [Heights -> MaybeBlocks]]
    BY <1>1, <1>2, EtsAddOK DEF FinishExtension, sql, IndInv, CacheOK
<1>4. TypeOK'
    BY <1>1, <1>2, <1>3 DEF FinishExtension, sql, IndInv, TypeOK, MaybeBlocks, Rets
<1>5. RowsOK'
    BY <1>2 DEF FinishExtension, sql, IndInv, RowsOK, Tip
<1> QED
    BY <1>2, <1>3, <1>4, <1>5 DEF FinishExtension, sql, IndInv, JobOK, QueueOK, TodoOK

LEMMA RefetchBlockStep ==
    ASSUME IndInv, RefetchBlock
    PROVE  IndInv'
<1>1. /\ job.cursor \in stored /\ job.cursor \in Blocks /\ job.cursor # Genesis
      /\ Parent[job.cursor] \in norm /\ Parent[job.cursor] \in Blocks
    <2>1. norm = Lineage[Tip] /\ norm \subseteq stored /\ Tip \in Blocks /\ stored \subseteq Blocks
        BY RowFacts DEF IndInv
    <2>2. job.cursor \in norm /\ job.cursor # Genesis
        BY DEF RefetchBlock, IndInv, JobOK
    <2> QED
        BY <2>1, <2>2, LineageLeast DEF ParentClosed
<1>2. /\ ets' = EtsAdd(ets, job.cursor)
      /\ job' = [job EXCEPT !.cursor = Parent[job.cursor]]
    BY DEF RefetchBlock
<1>3. CacheOK' /\ ets' \in [hash : [Blocks -> {"none", "true", "block"}],
                            index : [Heights -> MaybeBlocks]]
    BY <1>1, <1>2, EtsAddOK DEF RefetchBlock, sql, IndInv, CacheOK
<1>4. TypeOK'
    BY <1>1, <1>2, <1>3 DEF RefetchBlock, sql, IndInv, TypeOK, MaybeBlocks
<1>5. RowsOK' /\ JobOK'
    BY <1>1, <1>2 DEF RefetchBlock, sql, IndInv, RowsOK, Tip, JobOK, TypeOK
<1> QED
    BY <1>3, <1>4, <1>5 DEF RefetchBlock, sql, IndInv, QueueOK, TodoOK

LEMMA FinishReorgStep ==
    ASSUME IndInv, FinishReorg
    PROVE  IndInv'
<1>1. /\ job.block \in stored /\ job.block \in Blocks
      /\ job.cursor \in stored
    BY JobFacts DEF FinishReorg, IndInv, JobOK, RowsOK
<1>2. /\ ets' = ets \/ ets' = EtsAdd(ets, job.cursor)
      /\ peak' = job.block
      /\ job' = [pc |-> "idle", block |-> NoBlock, cursor |-> NoBlock]
      /\ reply' = [block |-> job.block, ret |-> "added"]
    BY DEF FinishReorg, Answer, Idle
<1>3. CacheOK' /\ ets' \in [hash : [Blocks -> {"none", "true", "block"}],
                            index : [Heights -> MaybeBlocks]]
    BY <1>1, <1>2, EtsAddOK DEF FinishReorg, sql, IndInv, CacheOK, TypeOK
<1>4. TypeOK'
    BY <1>1, <1>2, <1>3 DEF FinishReorg, sql, IndInv, TypeOK, MaybeBlocks, Rets
<1>5. RowsOK'
    BY <1>2 DEF FinishReorg, sql, IndInv, RowsOK, Tip
<1> QED
    BY <1>2, <1>3, <1>4, <1>5 DEF FinishReorg, sql, IndInv, JobOK, QueueOK, TodoOK

(* The preloading process works through pages of main chain rows.           *)
LEMMA ReadPageStep ==
    ASSUME IndInv, ReadPage
    PROVE  IndInv'
<1>1. norm = Lineage[Tip] /\ Tip \in Blocks /\ norm \subseteq stored
    BY RowFacts DEF IndInv
<1>2. prefetch.n \in Nat /\ stored \subseteq Blocks
    BY DEF IndInv, TypeOK
<1>3. Page(prefetch.n) \in Seq(norm) /\ Len(Page(prefetch.n)) \in Nat
    BY <1>1, <1>2, PageType
<1>4. prefetch' = [prefetch EXCEPT !.todo = Page(prefetch.n),
                                   !.n = prefetch.n + Len(Page(prefetch.n))]
    BY DEF ReadPage
<1>5. TodoOK'
    BY <1>1, <1>3, <1>4 DEF ReadPage, sql, IndInv, TypeOK, TodoOK
<1>6. TypeOK'
    <2>1. Page(prefetch.n) \in Seq(Blocks)
        BY <1>1, <1>2, <1>3
    <2>2. prefetch \in [pc : {"hashes", "read_top", "top"}, n : Nat, todo : Seq(Blocks)]
        BY DEF IndInv, TypeOK
    <2>3. prefetch' \in [pc : {"hashes", "read_top", "top"}, n : Nat, todo : Seq(Blocks)]
        <3> DEFINE page == Page(prefetch.n)
                   n == prefetch.n + Len(page)
        <3>1. page \in Seq(Blocks) /\ n \in Nat
            BY <1>2, <1>3, <2>1
        <3>2. prefetch' = [prefetch EXCEPT !.todo = page, !.n = n]
            BY <1>4
        <3> HIDE DEF page, n
        <3> QED
            BY <2>2, <3>1, <3>2
    <2> QED
        BY <2>3 DEF ReadPage, sql, IndInv, TypeOK
<1> QED
    BY <1>5, <1>6 DEF ReadPage, sql, IndInv, RowsOK, Tip, JobOK, QueueOK, CacheOK

LEMMA ReadTopStep ==
    ASSUME IndInv, ReadTop
    PROVE  IndInv'
<1>1. norm = Lineage[Tip] /\ Tip \in Blocks /\ norm \subseteq stored
    BY RowFacts DEF IndInv
<1>2. TopBlocks \in Seq(norm) /\ stored \subseteq Blocks
    BY <1>1, TopBlocksType DEF IndInv, TypeOK
<1>3. prefetch' = [prefetch EXCEPT !.pc = "top", !.todo = TopBlocks]
    BY DEF ReadTop
<1>4. TodoOK'
    BY <1>1, <1>2, <1>3 DEF ReadTop, sql, IndInv, TypeOK, TodoOK
<1>5. TypeOK'
    <2>1. TopBlocks \in Seq(Blocks)
        BY <1>1, <1>2, <1>2
    <2>2. prefetch \in [pc : {"hashes", "read_top", "top"}, n : Nat, todo : Seq(Blocks)]
        BY DEF IndInv, TypeOK
    <2>3. prefetch' \in [pc : {"hashes", "read_top", "top"}, n : Nat, todo : Seq(Blocks)]
        BY <1>2, <1>3, <2>1, <2>2
    <2> QED
        BY <2>3 DEF ReadTop, sql, IndInv, TypeOK
<1> QED
    BY <1>4, <1>5 DEF ReadTop, sql, IndInv, RowsOK, Tip, JobOK, QueueOK, CacheOK

(* Taking the first block off the list of the preloading process.           *)
LEMMA TodoFacts ==
    ASSUME IndInv, prefetch.todo # <<>>, prefetch' = [prefetch EXCEPT !.todo = Tail(@)],
           stored' = stored
    PROVE  /\ Head(prefetch.todo) \in stored
           /\ TodoOK'
           /\ prefetch' \in [pc : {"hashes", "read_top", "top"}, n : Nat, todo : Seq(Blocks)]
<1> DEFINE todo == prefetch.todo
<1>1. /\ todo \in Seq(Blocks) /\ todo # <<>>
      /\ prefetch \in [pc : {"hashes", "read_top", "top"}, n : Nat, todo : Seq(Blocks)]
    BY DEF IndInv, TypeOK
<1>2. prefetch'.todo = Tail(todo)
    BY <1>1
<1>3. prefetch' \in [pc : {"hashes", "read_top", "top"}, n : Nat, todo : Seq(Blocks)]
    <2>1. Tail(todo) \in Seq(Blocks)
        BY <1>1
    <2>2. prefetch' = [prefetch EXCEPT !.todo = Tail(todo)]
        OBVIOUS
    <2> HIDE DEF todo
    <2> QED
        BY <1>1, <2>1, <2>2
<1>4. \A i \in 1 .. Len(todo) : todo[i] \in stored
    BY DEF IndInv, TodoOK
<1> HIDE DEF todo
<1>5. Head(todo) \in stored
    BY <1>1, <1>4
<1>6. \A i \in 1 .. Len(Tail(todo)) : Tail(todo)[i] \in stored
    <2>1. Len(Tail(todo)) = Len(todo) - 1 /\ Len(todo) \in Nat
        BY <1>1
    <2>2. \A i \in 1 .. Len(todo) - 1 : Tail(todo)[i] = todo[i + 1]
        BY <1>1
    <2>3. \A i \in 1 .. Len(todo) - 1 : i + 1 \in 1 .. Len(todo)
        BY <2>1
    <2> QED
        BY <1>4, <2>1, <2>2, <2>3
<1> QED
    BY <1>2, <1>3, <1>5, <1>6 DEF todo, TodoOK

LEMMA AddPlaceholderStep ==
    ASSUME IndInv, AddPlaceholder
    PROVE  IndInv'
<1>1. /\ Head(prefetch.todo) \in stored /\ TodoOK'
      /\ prefetch' \in [pc : {"hashes", "read_top", "top"}, n : Nat, todo : Seq(Blocks)]
    BY TodoFacts DEF AddPlaceholder, sql
<1>2. CacheOK' /\ ets' \in [hash : [Blocks -> {"none", "true", "block"}],
                            index : [Heights -> MaybeBlocks]]
    BY <1>1, EtsPlaceholderOK DEF AddPlaceholder, sql, IndInv, CacheOK
<1> QED
    BY <1>1, <1>2 DEF AddPlaceholder, sql, IndInv, TypeOK, RowsOK, Tip, JobOK, QueueOK

LEMMA AddTopStep ==
    ASSUME IndInv, AddTop
    PROVE  IndInv'
<1>1. /\ Head(prefetch.todo) \in stored /\ TodoOK'
      /\ prefetch' \in [pc : {"hashes", "read_top", "top"}, n : Nat, todo : Seq(Blocks)]
    BY TodoFacts DEF AddTop, sql
<1>2. CacheOK' /\ ets' \in [hash : [Blocks -> {"none", "true", "block"}],
                            index : [Heights -> MaybeBlocks]]
    BY <1>1, EtsAddOK DEF AddTop, sql, IndInv, CacheOK
<1> QED
    BY <1>1, <1>2 DEF AddTop, sql, IndInv, TypeOK, RowsOK, Tip, JobOK, QueueOK

LEMMA PlaceholdersCompleteStep ==
    ASSUME IndInv, PlaceholdersComplete
    PROVE  IndInv'
    BY DEF PlaceholdersComplete, sql, IndInv, TypeOK, RowsOK, Tip, JobOK, QueueOK,
        CacheOK, TodoOK

(* A restart finds in SQL the tip that was committed last.                  *)
LEMMA StartOverStep ==
    ASSUME IndInv, StartOver, restarts' \in Nat
    PROVE  IndInv'
<1>1. /\ Tip \in Blocks /\ norm = Lineage[Tip] /\ norm \subseteq stored
      /\ TipOf(norm) = Tip /\ stored \subseteq Blocks
    BY RowFacts DEF IndInv
<1>2. /\ stored' = norm /\ norm' = norm /\ base' = base /\ peak' = Tip
      /\ job' = [pc |-> "idle", block |-> NoBlock, cursor |-> NoBlock]
      /\ prefetch' = [pc |-> "hashes", n |-> 0, todo |-> <<>>]
      /\ reply' = [block |-> NoBlock, ret |-> "none"]
      /\ mailbox' = <<>> /\ complete' = FALSE /\ ets' = EmptyEts
    BY <1>1 DEF StartOver, Idle, StartPrefetch, NoReply
<1>3. RowsOK'
    <2>1. Tip' = Tip
        BY <1>2 DEF Tip
    <2> QED
        BY <1>1, <1>2, <2>1 DEF IndInv, RowsOK
<1>4. CacheOK' /\ ets' \in [hash : [Blocks -> {"none", "true", "block"}],
                            index : [Heights -> MaybeBlocks]]
    BY <1>2 DEF EmptyEts, CacheOK, MaybeBlocks
<1>5. prefetch' \in [pc : {"hashes", "read_top", "top"}, n : Nat, todo : Seq(Blocks)]
    BY <1>2
<1>6. TypeOK'
    <2>1. job' \in [pc : {"idle", "alt", "extend", "refetch"},
                   block : MaybeBlocks, cursor : MaybeBlocks]
        BY <1>2 DEF MaybeBlocks
    <2>2. reply' \in [block : MaybeBlocks, ret : Rets]
        BY <1>2 DEF MaybeBlocks, Rets
    <2>3. base' \in [Blocks -> MaybeBlocks] /\ restarts' \in Nat
        BY <1>2 DEF IndInv, TypeOK
    <2>4. mailbox' \in Seq(Blocks)
        <3>1. <<>> \in Seq(Blocks)
            OBVIOUS
        <3> QED
            BY <1>2, <3>1
    <2>6. complete' \in BOOLEAN
        BY <1>2
    <2>5. stored' \subseteq Blocks /\ norm' \subseteq Blocks /\ peak' \in Blocks
        BY <1>1, <1>2
    <2> QED
        BY <1>4, <1>5, <2>1, <2>2, <2>3, <2>4, <2>5, <2>6 DEF TypeOK
<1> QED
    BY <1>2, <1>3, <1>4, <1>6 DEF IndInv, JobOK, QueueOK, TodoOK

LEMMA RestartStep ==
    ASSUME IndInv, Restart \/ ReorgFails
    PROVE  IndInv'
<1>1. StartOver /\ restarts' \in Nat
    BY DEF Restart, ReorgFails, IndInv, TypeOK
<1> QED
    BY <1>1, StartOverStep

LEMMA IndInvStep == IndInv /\ [Next]_vars => IndInv'
<1> SUFFICES ASSUME IndInv, [Next]_vars PROVE IndInv'
    OBVIOUS
<1>1. ASSUME NEW b \in Blocks, Submit(b) PROVE IndInv'
    BY <1>1, SubmitStep
<1>2. CASE Handle
    BY <1>2, SkipExistingStep, CommitAltStep, CommitExtensionStep, CommitReorgStep,
        RestartStep, FinishAltStep, FinishExtensionStep, RefetchBlockStep, FinishReorgStep DEF Handle
<1>3. CASE Preload
    BY <1>3, ReadPageStep, AddPlaceholderStep, PlaceholdersCompleteStep, ReadTopStep,
        AddTopStep DEF Preload
<1>4. CASE Restart
    BY <1>4, RestartStep
<1>5. CASE UNCHANGED vars
    BY <1>5 DEF vars, IndInv, TypeOK, RowsOK, Tip, JobOK, QueueOK, CacheOK, TodoOK
<1> QED
    BY <1>1, <1>2, <1>3, <1>4, <1>5 DEF Next

LEMMA IndInvAlways == Spec => []IndInv
    BY IndInvInit, IndInvStep, PTL DEF Spec

-----------------------------------------------------------------------------
(* Type correctness of the store, for every tree, cache and page size.     *)
THEOREM TypeCorrect == Spec => []TypeOK
<1>1. IndInv => TypeOK
    BY DEF IndInv
<1> QED
    BY <1>1, IndInvAlways, PTL

(* The numbered rows are always the lineage of the highest of them:         *)
(* chainsql.ex put_peak and set_normative keep one main chain.             *)
THEOREM MainChainCorrect == Spec => []MainChainIsALineage
<1>1. IndInv => MainChainIsALineage
    BY RowFacts DEF IndInv, MainChainIsALineage
<1> QED
    BY <1>1, IndInvAlways, PTL

(* Fork choice: the main chain is the heaviest branch of all stored blocks. *)
THEOREM ForkChoiceCorrect == Spec => []TipIsHeaviest
<1>1. IndInv => TipIsHeaviest
    BY RowFacts DEF IndInv, RowsOK, TipIsHeaviest
<1> QED
    BY <1>1, IndInvAlways, PTL

(* Between calls the peak of the GenServer is the tip SQL would give back   *)
(* after a crash.                                                          *)
THEOREM PeakIsDurable == Spec => []PeakIsTheStoredTip
<1>1. IndInv => PeakIsTheStoredTip
    BY RowFacts DEF IndInv, PeakIsTheStoredTip, Tip
<1> QED
    BY <1>1, IndInvAlways, PTL

(* The cache never claims a block that has no row.                          *)
THEOREM CacheCorrect == Spec => []CacheIsBackedByRows
<1>1. IndInv => CacheIsBackedByRows
    BY DEF IndInv, CacheOK, CacheIsBackedByRows
<1> QED
    BY <1>1, IndInvAlways, PTL

-----------------------------------------------------------------------------
(* The store implements ForkChoice.                                        *)

(* What a step does to the rows: nothing, one more block, or a restart.     *)
LEMMA RowSteps ==
    ASSUME IndInv, IndInv', [Next]_vars
    PROVE  \/ stored' = stored /\ norm' = norm
           \/ \E b \in Blocks \ {Genesis} :
                 /\ stored' = stored \cup {b}
                 /\ \/ /\ norm' = norm
                       /\ TotalDifficulty[b] <= TotalDifficulty[Tip]
                    \/ /\ Tip' = b
                       /\ TotalDifficulty[b] > TotalDifficulty[Tip]
           \/ stored' = norm /\ norm' = norm
<1>1. ASSUME NEW b \in Blocks, Submit(b)
      PROVE  stored' = stored /\ norm' = norm
    BY <1>1 DEF Submit, SubmitKnown, SubmitGenesis, SubmitNew, sql
<1>2. CASE CommitAlt
    <2>1. Dequeue /\ InsertRow(Next1)
        BY <1>2 DEF CommitAlt
    <2>2. Next1 \in Blocks \ {Genesis} /\ Tip = peak
        BY <2>1, DequeueFacts
    <2> QED
        BY <1>2, <2>1, <2>2 DEF CommitAlt, InsertRow
<1>3. CASE CommitExtension
    <2>1. Dequeue
        BY <1>3 DEF CommitExtension
    <2>2. Next1 \in Blocks \ {Genesis} /\ Tip = peak
        BY <2>1, DequeueFacts
    <2>3. TotalDifficulty[Next1] > TotalDifficulty[Tip]
        BY <1>3, <2>2, BlockTreeAssumption DEF CommitExtension
    <2>4. Tip' = Next1
        BY <1>3 DEF CommitExtension, Tip
    <2> QED
        BY <1>3, <2>2, <2>3, <2>4 DEF CommitExtension
<1>4. CASE CommitReorg
    <2>1. Dequeue /\ InsertRow(Next1)
        BY <1>4 DEF CommitReorg
    <2>2. Next1 \in Blocks \ {Genesis} /\ Tip = peak
        BY <2>1, DequeueFacts
    <2>3. Tip' = Next1
        BY <1>4 DEF CommitReorg, Tip
    <2> QED
        BY <1>4, <2>1, <2>2, <2>3 DEF CommitReorg, InsertRow
<1>5. CASE SkipExisting \/ FinishAlt \/ FinishExtension \/ RefetchBlock \/ FinishReorg
    BY <1>5 DEF SkipExisting, FinishAlt, FinishExtension, RefetchBlock, FinishReorg, sql
<1>6. CASE Preload
    BY <1>6 DEF Preload, ReadPage, AddPlaceholder, PlaceholdersComplete, ReadTop, AddTop, sql
<1>7. CASE Restart \/ ReorgFails
    BY <1>7 DEF Restart, ReorgFails, StartOver
<1>8. CASE UNCHANGED vars
    BY <1>8 DEF vars
<1> QED
    BY <1>1, <1>2, <1>3, <1>4, <1>5, <1>6, <1>7, <1>8 DEF Next, Handle

LEMMA ImplementsInit == Init => Abstract!Init
<1> SUFFICES ASSUME Init PROVE Abstract!Init
    OBVIOUS
<1>1. norm = Lineage[Genesis] /\ Genesis \in Blocks
    BY LineageOfGenesis, BlockTreeAssumption DEF Init
<1> QED
    BY <1>1, TipOfLineage DEF Init, Abstract!Init

LEMMA ImplementsStep == IndInv /\ IndInv' /\ [Next]_vars => [Abstract!Next]_(Abstract!vars)
<1> SUFFICES ASSUME IndInv, IndInv', [Next]_vars PROVE [Abstract!Next]_(Abstract!vars)
    OBVIOUS
<1>1. /\ TipOf(norm) = Tip /\ Tip \in Blocks /\ norm = Lineage[Tip]
      /\ \A c \in stored : c \in Blocks /\ TotalDifficulty[c] <= TotalDifficulty[Tip]
    BY RowFacts DEF IndInv, RowsOK
<1>2. TipOf(norm)' = Tip'
    <2>1. Tip' \in Blocks /\ norm' = Lineage[Tip']
        BY DEF IndInv, RowsOK, TypeOK, JobOK, Tip
    <2> QED
        BY <2>1, TipOfLineage DEF TipOf
<1>3. CASE stored' = stored /\ norm' = norm
    BY <1>3 DEF Abstract!vars, TipOf
<1>4. ASSUME NEW b \in Blocks \ {Genesis}, stored' = stored \cup {b},
             norm' = norm, TotalDifficulty[b] <= TotalDifficulty[Tip]
      PROVE  [Abstract!Next]_(Abstract!vars)
    <2>1. TipOf(norm)' = TipOf(norm)
        BY <1>4 DEF TipOf
    <2>2. CASE b \in stored
        BY <1>4, <2>1, <2>2 DEF Abstract!vars
    <2>3. CASE b \notin stored
        <3>1. Abstract!Accept(b)
            BY <1>1, <1>4, <2>1, <2>3 DEF Abstract!Accept
        <3> QED
            BY <3>1 DEF Abstract!Next
    <2> QED
        BY <2>2, <2>3
<1>5. ASSUME NEW b \in Blocks \ {Genesis}, stored' = stored \cup {b},
             Tip' = b, TotalDifficulty[b] > TotalDifficulty[Tip]
      PROVE  Abstract!Next
    <2>1. b \notin stored
        BY <1>1, <1>5, BlockTreeAssumption
    <2>2. Lineage[b] \ {b} \subseteq stored
        BY <1>5 DEF IndInv, RowsOK
    <2>3. Abstract!Lineage = Lineage
        BY DEF Abstract!Lineage, Abstract!ClosedSets, Abstract!ParentClosed, Lineage,
            ClosedSets, ParentClosed
    <2>4. Abstract!Accept(b)
        BY <1>1, <1>2, <1>5, <2>1, <2>2, <2>3 DEF Abstract!Accept
    <2> QED
        BY <2>4 DEF Abstract!Next
<1>6. CASE stored' = norm /\ norm' = norm
    <2>1. TipOf(norm)' = TipOf(norm)
        BY <1>6 DEF TipOf
    <2>2. Abstract!ForgetSideBranches
        BY <1>1, <1>6, <2>1 DEF Abstract!ForgetSideBranches, Abstract!Lineage,
            Abstract!ClosedSets, Abstract!ParentClosed, Lineage, ClosedSets, ParentClosed
    <2> QED
        BY <2>2 DEF Abstract!Next
<1> QED
    BY <1>3, <1>4, <1>5, <1>6, RowSteps

(* The tables of the store, seen through the table's tip, behave like the  *)
(* abstract fork choice: each commit accepts a block or changes nothing,   *)
(* and a restart forgets the side branches and never the head.             *)
THEOREM StoreImplementsForkChoice == Spec => ImplementsForkChoice
<1>1. Init => Abstract!Init
    BY ImplementsInit
<1>2. IndInv /\ IndInv' /\ [Next]_vars => [Abstract!Next]_(Abstract!vars)
    BY ImplementsStep
<1> QED
    BY <1>1, <1>2, IndInvAlways, PTL DEF Spec, ImplementsForkChoice, Abstract!Spec

(* No step makes the durable main chain lighter, whatever it interrupts.    *)
THEOREM WeightIsMonotonic == Spec => WeightNeverDrops
<1> DEFINE Heavier == TotalDifficulty[TipOf(norm')] >= TotalDifficulty[TipOf(norm)]
<1>1. IndInv /\ IndInv' /\ [Next]_vars => [Heavier]_sql
    <2> SUFFICES ASSUME IndInv, IndInv', [Next]_vars PROVE Heavier
        OBVIOUS
    <2>1. /\ TipOf(norm) = Tip /\ Tip \in Blocks
          /\ TipOf(norm') = Tip' /\ Tip' \in Blocks
        <3>1. TipOf(norm) = Tip /\ Tip \in Blocks
            BY RowFacts DEF IndInv
        <3>2. Tip' \in Blocks /\ norm' = Lineage[Tip']
            BY DEF IndInv, RowsOK, TypeOK, JobOK, Tip
        <3> QED
            BY <3>1, <3>2, TipOfLineage
    <2>2. TotalDifficulty[Tip] \in Nat /\ TotalDifficulty[Tip'] \in Nat
        BY <2>1, BlockTreeAssumption
    <2>3. norm' = norm \/ TotalDifficulty[Tip'] > TotalDifficulty[Tip]
        BY RowSteps
    <2> QED
        BY <2>1, <2>2, <2>3
<1> QED
    BY <1>1, IndInvAlways, PTL DEF Spec, WeightNeverDrops

-----------------------------------------------------------------------------
(* Deltas.                                                                 *)

(* A number that is one above a multiple leaves one.                        *)
LEMMA OneAbove ==
    ASSUME NEW k \in Nat, k > 1, NEW q \in Int
    PROVE  (k * q + 1) % k = 1
<1> DEFINE x == k * q + 1
           d == x \div k
           m == x % k
<1>1. x \in Int
    OBVIOUS
<1>2. d \in Int /\ m \in 0 .. k - 1 /\ x = k * d + m
    BY <1>1
<1>3. x = k * q + 1
    OBVIOUS
<1> HIDE DEF x, d, m
<1>4. k * (q - d) = m - 1
    BY <1>2, <1>3
<1>5. CASE q - d >= 1
    <2>1. k * (q - d) >= k
        BY <1>2, <1>5
    <2> QED
        BY <1>2, <1>4, <2>1
<1>6. CASE q - d <= -1
    <2>1. k * (q - d) <= -k
        BY <1>2, <1>6
    <2> QED
        BY <1>2, <1>4, <2>1
<1>7. CASE q - d = 0
    <2>1. m = 1
        BY <1>2, <1>4, <1>7
    <2> QED
        BY <2>1 DEF m, x
<1> QED
    BY <1>2, <1>5, <1>6, <1>7

(* The number prepare_state looks up starts an interval.                    *)
LEMMA IntervalStarts ==
    ASSUME NEW n \in Nat
    PROVE  IntervalStart(n) % StateInterval = 1
<1>1. StateInterval \in Nat /\ StateInterval > 1
    BY ChainStoreAssumption
<1> DEFINE q == n \div StateInterval
           r == n % StateInterval
<1>2. q \in Int /\ r \in Int /\ n = StateInterval * q + r
    BY <1>1
<1>3. IntervalStart(n) = n - r + 1
    BY DEF IntervalStart
<1> HIDE DEF q, r
<1>4. IntervalStart(n) = StateInterval * q + 1
    BY <1>1, <1>2, <1>3
<1> QED
    BY <1>1, <1>2, <1>4, OneAbove

LEMMA BaseInit == Init => BaseOK
    BY DEF Init, BaseOK

(* A row that is inserted keeps BaseOK, whichever of the three commits it.  *)
LEMMA BaseInsert ==
    ASSUME IndInv, BaseOK, NEW b \in Blocks,
           base' = base \/ base' = [base EXCEPT ![b] = PrepareState(b)]
    PROVE  BaseOK'
<1>1. norm \subseteq Blocks /\ base \in [Blocks -> MaybeBlocks] /\ Number[b] \in Nat
    BY BlockTreeAssumption DEF IndInv, TypeOK
<1>2. ASSUME PrepareState(b) # NoBlock
      PROVE  /\ Number[b] % StateInterval # 1
             /\ Number[PrepareState(b)] % StateInterval = 1
    <2> DEFINE rows == {c \in norm : Number[c] = IntervalStart(Number[b])}
    <2>1. Number[b] % StateInterval # 1 /\ rows # {} /\ PrepareState(b) = CHOOSE c \in rows : TRUE
        BY <1>2 DEF PrepareState
    <2>2. PrepareState(b) \in rows
        BY <2>1
    <2> QED
        BY <1>1, <2>1, <2>2, IntervalStarts
<1>3. CASE base' = base
    BY <1>3 DEF BaseOK
<1>4. CASE base' = [base EXCEPT ![b] = PrepareState(b)]
    <2>1. ASSUME NEW c \in Blocks, base'[c] # NoBlock
          PROVE  Number[c] % StateInterval # 1 /\ Number[base'[c]] % StateInterval = 1
        <3>1. CASE c = b
            <4>1. base'[c] = PrepareState(b)
                BY <1>1, <1>4, <3>1
            <4> QED
                BY <1>2, <2>1, <3>1, <4>1
        <3>2. CASE c # b
            <4>1. base'[c] = base[c]
                BY <1>1, <1>4, <3>2
            <4> QED
                BY <2>1, <4>1 DEF BaseOK
        <3> QED
            BY <3>1, <3>2
    <2> QED
        BY <2>1 DEF BaseOK
<1> QED
    BY <1>3, <1>4

LEMMA BaseStep == IndInv /\ BaseOK /\ [Next]_vars => BaseOK'
<1> SUFFICES ASSUME IndInv, BaseOK, [Next]_vars PROVE BaseOK'
    OBVIOUS
<1>1. CASE CommitAlt \/ CommitExtension \/ CommitReorg
    <2>1. Dequeue /\ (base' = base \/ base' = [base EXCEPT ![Next1] = PrepareState(Next1)])
        BY <1>1 DEF CommitAlt, CommitExtension, CommitReorg, InsertRow
    <2>2. Next1 \in Blocks
        BY <2>1, DequeueFacts
    <2> QED
        BY <2>1, <2>2, BaseInsert
<1>2. CASE base' = base
    BY <1>2 DEF BaseOK
<1>3. ASSUME NEW b \in Blocks, Submit(b) PROVE base' = base
    BY <1>3 DEF Submit, SubmitKnown, SubmitGenesis, SubmitNew, sql
<1>4. SkipExisting \/ FinishAlt \/ FinishExtension \/ RefetchBlock \/ FinishReorg => base' = base
    BY DEF SkipExisting, FinishAlt, FinishExtension, RefetchBlock, FinishReorg, sql
<1>5. Preload => base' = base
    BY DEF Preload, ReadPage, AddPlaceholder, PlaceholdersComplete, ReadTop, AddTop, sql
<1>6. Restart \/ ReorgFails => base' = base
    BY DEF Restart, ReorgFails, StartOver
<1>7. UNCHANGED vars => base' = base
    BY DEF vars
<1> QED
    BY <1>1, <1>2, <1>3, <1>4, <1>5, <1>6, <1>7 DEF Next, Handle

(* Whatever branches are added, replaced and forgotten, the state of a row  *)
(* is never a delta to a row that holds a delta itself: the match on a      *)
(* whole %Chain.State{} in ChainSql.prepare_state cannot fail.              *)
THEOREM DeltasEndAtAFullState == Spec => []BasesAreFull
<1>1. IndInv /\ BaseOK => BasesAreFull
    <2> SUFFICES ASSUME IndInv, BaseOK, NEW b \in stored, base[b] # NoBlock
                 PROVE  base[base[b]] = NoBlock
        BY DEF BasesAreFull
    <2>1. b \in Blocks /\ base[b] \in Blocks
        BY DEF IndInv, TypeOK, MaybeBlocks
    <2> QED
        BY <2>1 DEF BaseOK
<1> QED
    BY <1>1, BaseInit, BaseStep, IndInvAlways, PTL DEF Spec

-----------------------------------------------------------------------------
(* The preloaded cache.                                                    *)

(* ets_add caches its block and takes no other out of the cache.            *)
LEMMA EtsAddCaches ==
    ASSUME TypeOK, NEW b \in Blocks, ets' = EtsAdd(ets, b)
    PROVE  /\ Cached(b)'
           /\ \A c \in Blocks : Cached(c) => Cached(c)'
           /\ \A n \in Heights : ets'.index[n] = ets.index[n] \/ ets'.index[n] = b
<1> DEFINE index == [ets.index EXCEPT ![Number[b]] = b]
           hash == [c \in Blocks |->
                      IF c \in Evicted(index, b) THEN "true"
                      ELSE IF c = b THEN "block" ELSE ets.hash[c]]
<1>1. ets' = [hash |-> hash, index |-> index]
    BY DEF EtsAdd
<1>2. \A n \in Heights : index[n] = ets.index[n] \/ index[n] = b
    BY DEF TypeOK
<1> HIDE DEF index
<1>3. hash[b] # "none" /\ \A c \in Blocks : ets.hash[c] # "none" => hash[c] # "none"
    OBVIOUS
<1> HIDE DEF hash
<1> QED
    BY <1>1, <1>2, <1>3 DEF Cached

LEMMA EtsPlaceholderCaches ==
    ASSUME TypeOK, NEW b \in Blocks, ets' = EtsPlaceholder(ets, b)
    PROVE  /\ Cached(b)'
           /\ \A c \in Blocks : Cached(c) => Cached(c)'
           /\ \A n \in Heights : ets'.index[n] = ets.index[n] \/ ets'.index[n] = b
    BY DEF TypeOK, EtsPlaceholder, Cached

(* The row of a number is the only one with it.                             *)
LEMMA RowAtIsTheRow ==
    ASSUME IndInv, NEW b \in norm
    PROVE  RowAt(Number[b]) = b
<1>1. norm = Lineage[Tip] /\ Tip \in Blocks
    BY RowFacts DEF IndInv
<1>2. \A c \in norm : Number[c] = Number[b] => c = b
    BY <1>1, LineageUnique
<1> QED
    BY <1>2 DEF RowAt

(* A page has every row from where it starts to where it ends, and is empty *)
(* only above the tip.                                                     *)
LEMMA PageIsComplete ==
    ASSUME IndInv, NEW n \in Nat
    PROVE  /\ Page(n) = <<>> => \A b \in norm : Number[b] <= n
           /\ \A b \in norm : n < Number[b] /\ Number[b] <= n + Len(Page(n))
                 => \E i \in 1 .. Len(Page(n)) : Page(n)[i] = b
<1>1. norm = Lineage[Tip] /\ Tip \in Blocks /\ TipOf(norm) = Tip /\ norm \subseteq Blocks
    BY RowFacts DEF IndInv
<1>2. \A b \in norm : Number[b] \in Nat /\ Number[b] <= Number[Tip]
    BY <1>1, LineageBelow, BlockTreeAssumption
<1> DEFINE last == IF n + PageSize < TopNumber THEN n + PageSize ELSE TopNumber
           page == [i \in 1 .. last - n |-> RowAt(n + i)]
<1>3. TopNumber = Number[Tip] /\ TopNumber \in Nat
    BY <1>1, BlockTreeAssumption DEF TopNumber
<1>4. last \in Nat /\ (last <= n => TopNumber <= n)
    BY <1>3, ChainStoreAssumption
<1>5. Page(n) = IF last <= n THEN <<>> ELSE page
    BY DEF Page
<1> HIDE DEF last
<1>6. CASE last <= n
    BY <1>2, <1>3, <1>4, <1>5, <1>6
<1>7. CASE ~(last <= n)
    <2>1. last - n \in Nat /\ last - n # 0
        BY <1>4, <1>7
    <2>2. Len(page) = last - n /\ page # <<>>
        BY <2>1
    <2>3. ASSUME NEW b \in norm, n < Number[b], Number[b] <= n + Len(page)
          PROVE  \E i \in 1 .. Len(page) : page[i] = b
        <3>1. Number[b] - n \in 1 .. last - n /\ n + (Number[b] - n) = Number[b]
            BY <1>2, <2>1, <2>2, <2>3
        <3>2. page[Number[b] - n] = RowAt(Number[b])
            BY <3>1
        <3>3. page[Number[b] - n] = b
            BY <3>2, RowAtIsTheRow
        <3> QED
            BY <2>2, <3>1, <3>3
    <2> QED
        BY <1>5, <1>7, <2>2, <2>3
<1> QED
    BY <1>6, <1>7

LEMMA PreloadInit == Init => PreloadOK
<1> SUFFICES ASSUME Init PROVE PreloadOK
    OBVIOUS
<1>1. \A b \in norm : ~(0 < Number[b])
    BY BlockTreeAssumption DEF Init
<1>2. \A n \in Heights : ets.index[n] = NoBlock
    BY DEF Init, EmptyEts
<1> QED
    BY <1>1, <1>2 DEF Init, PreloadOK, StartPrefetch, Idle

(* Nothing is committed before preloading is complete, and what is committed*)
(* then is the block of the call.                                          *)
LEMMA PreloadCommit ==
    ASSUME IndInv, PreloadOK, CommitAlt \/ CommitExtension \/ CommitReorg
    PROVE  PreloadOK'
<1>1. /\ complete /\ job.pc = "idle"
      /\ stored' = stored \cup {Next1}
      /\ job'.pc # "idle" /\ job'.block = Next1 /\ (job'.pc = "refetch" => job'.cursor = Next1)
      /\ UNCHANGED <<ets, complete, prefetch>>
    BY DEF CommitAlt, CommitExtension, CommitReorg, InsertRow, Dequeue, Exists
<1>2. \A b \in stored : Number[b] > 0 => Cached(b)
    BY <1>1 DEF PreloadOK, Fresh
<1>3. \A b \in stored' : Number[b] > 0 => Cached(b)' \/ Fresh(b)'
    BY <1>1, <1>2 DEF Cached, Fresh
<1> QED
    BY <1>1, <1>3 DEF PreloadOK, Cached

LEMMA IndexStaysCached ==
    ASSUME IndInv, PreloadOK, NEW b \in Blocks, Cached(b)',
           \A c \in Blocks : Cached(c) => Cached(c)',
           \A n \in Heights : ets'.index[n] = ets.index[n] \/ ets'.index[n] = b
    PROVE  \A n \in Heights : ets'.index[n] # NoBlock => ets'.hash[ets'.index[n]] # "none"
<1> SUFFICES ASSUME NEW n \in Heights, ets'.index[n] # NoBlock
             PROVE  ets'.hash[ets'.index[n]] # "none"
    OBVIOUS
<1>1. ets.index[n] \in MaybeBlocks
    BY DEF IndInv, TypeOK
<1>2. CASE ets'.index[n] = b
    BY <1>2 DEF Cached
<1>3. CASE ets'.index[n] = ets.index[n]
    <2>1. ets.index[n] \in Blocks /\ Cached(ets.index[n])
        BY <1>1, <1>3 DEF MaybeBlocks, PreloadOK
    <2>2. ets'.hash[ets.index[n]] # "none"
        BY <2>1 DEF Cached
    <2> QED
        BY <1>3, <2>2 DEF Cached
<1> QED
    BY <1>2, <1>3

(* Once preloading is complete, a step that adds b to the cache keeps it    *)
(* complete if the block of the call is b, or is still to come.             *)
LEMMA PreloadAdd ==
    ASSUME IndInv, PreloadOK, complete, UNCHANGED <<sql, complete>>, prefetch'.pc # "hashes",
           NEW b \in Blocks, Cached(b)',
           \A c \in Blocks : Cached(c) => Cached(c)',
           \A n \in Heights : ets'.index[n] = ets.index[n] \/ ets'.index[n] = b,
           \A c \in stored : Number[c] > 0 /\ Fresh(c) => Cached(c)' \/ Fresh(c)'
    PROVE  PreloadOK'
<1>1. stored \subseteq Blocks /\ stored' = stored /\ complete'
    BY DEF IndInv, TypeOK, sql
<1>2. \A c \in stored' : Number[c] > 0 => Cached(c)' \/ Fresh(c)'
    BY <1>1 DEF PreloadOK
<1>3. \A n \in Heights : ets'.index[n] # NoBlock => ets'.hash[ets'.index[n]] # "none"
    BY IndexStaysCached
<1> QED
    BY <1>1, <1>2, <1>3 DEF PreloadOK, Cached

LEMMA PreloadStartOver ==
    ASSUME IndInv, PreloadOK, StartOver
    PROVE  PreloadOK'
<1>1. /\ stored' = norm' /\ ~complete' /\ job'.pc = "idle"
      /\ prefetch'.pc = "hashes" /\ prefetch'.n = 0 /\ ets' = EmptyEts
    BY DEF StartOver, Idle, StartPrefetch
<1>2. \A b \in norm' : Number[b] \in Nat
    BY BlockTreeAssumption DEF StartOver, IndInv, TypeOK
<1>3. \A b \in norm' : ~(0 < Number[b] /\ Number[b] <= prefetch'.n)
    BY <1>1, <1>2
<1>4. \A n \in Heights : ets'.index[n] = NoBlock
    BY <1>1 DEF EmptyEts
<1> QED
    BY <1>1, <1>3, <1>4 DEF PreloadOK

LEMMA PreloadHandle ==
    ASSUME IndInv, PreloadOK, Handle
    PROVE  PreloadOK'
<1>1. CASE CommitAlt \/ CommitExtension \/ CommitReorg
    BY <1>1, PreloadCommit
<1>2. CASE SkipExisting
    BY <1>2 DEF SkipExisting, Dequeue, sql, PreloadOK, Cached, Listed, Fresh
<1>3. ASSUME job.pc # "idle"
      PROVE  /\ complete /\ prefetch.pc # "hashes"
             /\ job.block \in Blocks /\ job.cursor \in MaybeBlocks
    BY <1>3, JobFacts DEF PreloadOK, IndInv, TypeOK
<1>4. CASE FinishAlt
    <2>1. job.pc = "alt" /\ UNCHANGED <<sql, complete, prefetch>>
        BY <1>4 DEF FinishAlt
    <2>2. PICK b \in Blocks : b = job.block
        BY <1>3, <2>1
    <2>3. /\ ets' = [ets EXCEPT !.hash[b] = "true"]
          /\ ets.hash \in [Blocks -> {"none", "true", "block"}]
          /\ ets \in [hash : [Blocks -> {"none", "true", "block"}], index : [Heights -> MaybeBlocks]]
        BY <1>4, <2>2 DEF FinishAlt, IndInv, TypeOK
    <2>4. ets'.hash = [ets.hash EXCEPT ![b] = "true"] /\ ets'.index = ets.index
        BY <2>3
    <2>5. Cached(b)' /\ \A c \in Blocks : Cached(c) => Cached(c)'
        BY <2>3, <2>4 DEF Cached
    <2>6. \A c \in stored : Fresh(c) => c = b
        BY <2>2 DEF Fresh
    <2> QED
        BY <1>3, <2>1, <2>4, <2>5, <2>6, PreloadAdd
<1>5. CASE FinishExtension
    <2>1. job.pc = "extend" /\ UNCHANGED <<sql, complete, prefetch>>
        BY <1>5 DEF FinishExtension
    <2>2. PICK b \in Blocks : b = job.block
        BY <1>3, <2>1
    <2>3. ets' = EtsAdd(ets, b)
        BY <1>5, <2>2 DEF FinishExtension
    <2>4. \A c \in stored : Fresh(c) => c = b
        BY <2>2 DEF Fresh
    <2> QED
        BY <1>3, <2>1, <2>3, <2>4, EtsAddCaches, PreloadAdd DEF IndInv
<1>6. CASE RefetchBlock
    <2>1. job.pc = "refetch" /\ UNCHANGED <<sql, complete, prefetch>>
        BY <1>6 DEF RefetchBlock
    <2>2. job.cursor \in Blocks
        BY <2>1 DEF IndInv, JobOK, TypeOK
    <2>3. PICK b \in Blocks : b = job.cursor
        BY <2>2
    <2>4. ets' = EtsAdd(ets, b)
        BY <1>6, <2>3 DEF RefetchBlock
    <2>5. \A c \in stored : Fresh(c) => c = b
        BY <2>1, <2>3 DEF Fresh
    <2> QED
        BY <1>3, <2>1, <2>4, <2>5, EtsAddCaches, PreloadAdd DEF IndInv
<1>7. CASE FinishReorg
    <2>1. job.pc = "refetch" /\ UNCHANGED <<sql, complete, prefetch>>
        BY <1>7 DEF FinishReorg
    <2>2. job.cursor \in Blocks
        BY <2>1 DEF IndInv, JobOK, TypeOK
    <2>3. PICK b \in Blocks : b = job.cursor
        BY <2>2
    <2>4. Number[b] \in Heights /\ NoBlock \notin Blocks
        BY ChainStoreAssumption DEF Heights
    <2>5. \A c \in stored : Fresh(c) => c = b
        BY <2>1, <2>3 DEF Fresh
    <2>6. CASE ets.index[Number[b]] = b /\ UNCHANGED ets
        <3>1. Cached(b)
            BY <2>4, <2>6 DEF PreloadOK
        <3>2. Cached(b)' /\ \A c \in Blocks : Cached(c) => Cached(c)'
            BY <2>6, <3>1 DEF Cached
        <3> QED
            BY <1>3, <2>1, <2>5, <2>6, <3>2, PreloadAdd
    <2>7. CASE ets' = EtsAdd(ets, b)
        BY <1>3, <2>1, <2>5, <2>7, EtsAddCaches, PreloadAdd DEF IndInv
    <2> QED
        BY <1>7, <2>3, <2>6, <2>7 DEF FinishReorg
<1>8. CASE ReorgFails
    BY <1>8, PreloadStartOver DEF ReorgFails
<1> QED
    BY <1>1, <1>2, <1>4, <1>5, <1>6, <1>7, <1>8 DEF Handle

(* A page puts the rows of its numbers on the list.                         *)
LEMMA PreloadReadPage ==
    ASSUME IndInv, PreloadOK, ReadPage
    PROVE  PreloadOK'
<1>1. /\ prefetch.pc = "hashes" /\ prefetch.todo = <<>> /\ ~complete
      /\ UNCHANGED <<sql, ets, complete, job>>
      /\ prefetch.n \in Nat
      /\ prefetch \in [pc : {"hashes", "read_top", "top"}, n : Nat, todo : Seq(Blocks)]
    BY DEF ReadPage, PreloadOK, IndInv, TypeOK
<1> DEFINE page == Page(prefetch.n)
           n == prefetch.n
<1>2. prefetch' = [prefetch EXCEPT !.todo = page, !.n = n + Len(page)]
    BY DEF ReadPage
<1>3. \A b \in norm : n < Number[b] /\ Number[b] <= n + Len(page)
          => \E i \in 1 .. Len(page) : page[i] = b
    BY <1>1, PageIsComplete
<1> HIDE DEF page
<1>4. prefetch'.pc = "hashes" /\ prefetch'.todo = page /\ prefetch'.n = n + Len(page)
    BY <1>1, <1>2
<1>5. norm' = norm /\ stored' = stored
    BY <1>1 DEF sql
<1>6. ASSUME NEW b \in norm', 0 < Number[b], Number[b] <= prefetch'.n
      PROVE  Cached(b)' \/ Listed(b)'
    <2>1. Number[b] \in Nat /\ norm \subseteq Blocks
        BY <1>5, BlockTreeAssumption DEF IndInv, TypeOK
    <2>2. CASE Number[b] <= n
        <3>1. Cached(b)
            BY <1>1, <1>5, <1>6, <2>2 DEF PreloadOK, Listed
        <3> QED
            BY <1>1, <3>1 DEF Cached
    <2>3. CASE n < Number[b]
        BY <1>3, <1>4, <1>5, <1>6, <2>3 DEF Listed
    <2> QED
        BY <1>1, <2>1, <2>2, <2>3
<1> QED
    BY <1>1, <1>4, <1>5, <1>6 DEF PreloadOK, Cached

(* The head of the list becomes a placeholder, the rest stays listed.       *)
LEMMA PreloadAddPlaceholder ==
    ASSUME IndInv, PreloadOK, AddPlaceholder
    PROVE  PreloadOK'
<1>1. /\ prefetch.pc = "hashes" /\ prefetch.todo # <<>> /\ ~complete
      /\ UNCHANGED <<sql, complete, job>>
      /\ prefetch' = [prefetch EXCEPT !.todo = Tail(@)]
      /\ prefetch \in [pc : {"hashes", "read_top", "top"}, n : Nat, todo : Seq(Blocks)]
    BY DEF AddPlaceholder, PreloadOK, IndInv, TypeOK
<1> DEFINE todo == prefetch.todo
<1>2. Head(todo) \in stored /\ stored \subseteq Blocks
    BY <1>1, TodoFacts DEF IndInv, TypeOK, sql
<1>3. PICK b \in Blocks : b = Head(todo)
    BY <1>2
<1>4. ets' = EtsPlaceholder(ets, b)
    BY <1>3 DEF AddPlaceholder
<1>5. /\ Cached(b)'
      /\ \A c \in Blocks : Cached(c) => Cached(c)'
      /\ \A n \in Heights : ets'.index[n] = ets.index[n] \/ ets'.index[n] = b
    BY <1>4, EtsPlaceholderCaches DEF IndInv
<1>6. todo \in Seq(Blocks) /\ todo # <<>> /\ prefetch'.pc = "hashes" /\ prefetch'.n = prefetch.n
      /\ prefetch'.todo = Tail(todo)
    BY <1>1
<1> HIDE DEF todo
<1>7. ASSUME NEW i \in 1 .. Len(todo), todo[i] # b
      PROVE  \E j \in 1 .. Len(Tail(todo)) : Tail(todo)[j] = todo[i]
    <2>1. i - 1 \in 1 .. Len(Tail(todo)) /\ Tail(todo)[i - 1] = todo[i]
        BY <1>3, <1>6, <1>7
    <2> QED
        BY <2>1
<1>8. ASSUME NEW c \in norm', 0 < Number[c], Number[c] <= prefetch'.n
      PROVE  Cached(c)' \/ Listed(c)'
    <2>1. c \in Blocks /\ c \in norm
        BY <1>1 DEF IndInv, TypeOK, sql
    <2>2. Cached(c) \/ \E i \in 1 .. Len(todo) : todo[i] = c
        BY <1>1, <1>6, <1>8, <2>1 DEF PreloadOK, Listed, todo
    <2>3. CASE Cached(c) \/ c = b
        BY <1>5, <2>1, <2>3
    <2>4. CASE c # b /\ \E i \in 1 .. Len(todo) : todo[i] = c
        BY <1>6, <1>7, <2>4 DEF Listed
    <2> QED
        BY <2>2, <2>3, <2>4
<1>9. \A n \in Heights : ets'.index[n] # NoBlock => ets'.hash[ets'.index[n]] # "none"
    BY <1>5, IndexStaysCached
<1>10. job'.pc = "idle" /\ stored' = norm' /\ ~complete'
    BY <1>1 DEF PreloadOK, sql
<1> QED
    BY <1>6, <1>8, <1>9, <1>10 DEF PreloadOK, Cached

(* Behind the last page there is no row left.                               *)
LEMMA PreloadComplete ==
    ASSUME IndInv, PreloadOK, PlaceholdersComplete
    PROVE  PreloadOK'
<1>1. /\ prefetch.pc = "hashes" /\ prefetch.todo = <<>> /\ ~complete /\ prefetch.n \in Nat
      /\ Page(prefetch.n) = <<>>
      /\ complete' /\ UNCHANGED <<sql, ets, job>>
      /\ prefetch' = [prefetch EXCEPT !.pc = "read_top"]
      /\ prefetch \in [pc : {"hashes", "read_top", "top"}, n : Nat, todo : Seq(Blocks)]
    BY DEF PlaceholdersComplete, PreloadOK, IndInv, TypeOK
<1>2. prefetch'.pc = "read_top"
    BY <1>1
<1>3. \A b \in norm : Number[b] <= prefetch.n
    BY <1>1, PageIsComplete
<1>4. \A b \in stored : Number[b] > 0 => Cached(b)
    BY <1>1, <1>3 DEF PreloadOK, Listed
<1>5. \A b \in stored' : Number[b] > 0 => Cached(b)'
    BY <1>1, <1>4 DEF sql, Cached
<1> QED
    BY <1>1, <1>2, <1>5 DEF PreloadOK, Cached

LEMMA PreloadTop ==
    ASSUME IndInv, PreloadOK, ReadTop \/ AddTop
    PROVE  PreloadOK'
<1>1. CASE ReadTop
    <2>1. prefetch.pc = "read_top" /\ prefetch'.pc = "top"
        BY <1>1 DEF ReadTop, IndInv, TypeOK
    <2> QED
        BY <1>1, <2>1 DEF ReadTop, sql, PreloadOK, Cached, Fresh
<1>2. CASE AddTop
    <2>1. /\ prefetch.pc = "top" /\ prefetch'.pc = "top" /\ complete /\ prefetch.todo # <<>>
          /\ UNCHANGED <<sql, complete, job>> /\ prefetch' = [prefetch EXCEPT !.todo = Tail(@)]
        BY <1>2 DEF AddTop, PreloadOK, IndInv, TypeOK
    <2>2. PICK b \in Blocks : b = Head(prefetch.todo)
        BY <2>1, TodoFacts DEF IndInv, TypeOK, sql
    <2>3. ets' = EtsAdd(ets, b)
        BY <1>2, <2>2 DEF AddTop
    <2>4. \A c \in stored : Fresh(c) => Fresh(c)'
        BY <2>1 DEF Fresh
    <2> QED
        BY <2>1, <2>3, <2>4, EtsAddCaches, PreloadAdd DEF IndInv
<1> QED
    BY <1>1, <1>2

LEMMA PreloadStep == IndInv /\ PreloadOK /\ [Next]_vars => PreloadOK'
<1> SUFFICES ASSUME IndInv, PreloadOK, [Next]_vars PROVE PreloadOK'
    OBVIOUS
<1>1. ASSUME NEW b \in Blocks, Submit(b) PROVE PreloadOK'
    BY <1>1 DEF Submit, SubmitKnown, SubmitGenesis, SubmitNew, sql, PreloadOK, Cached, Listed, Fresh
<1>2. CASE Handle
    BY <1>2, PreloadHandle
<1>3. CASE Preload
    BY <1>3, PreloadReadPage, PreloadAddPlaceholder, PreloadComplete, PreloadTop DEF Preload
<1>4. CASE Restart
    BY <1>4, PreloadStartOver DEF Restart
<1>5. CASE UNCHANGED vars
    BY <1>5 DEF vars, PreloadOK, Cached, Listed, Fresh
<1> QED
    BY <1>1, <1>2, <1>3, <1>4, <1>5 DEF Next

LEMMA PreloadAlways == Spec => []PreloadOK
    BY PreloadInit, PreloadStep, IndInvAlways, PTL DEF Spec

(* From the moment preloading says it is complete, and between calls, every *)
(* row but genesis is in the cache, whatever branches were added, replaced  *)
(* and evicted: block_by_hash? may take a miss for a block it does not have.*)
THEOREM PreloadedCacheKnowsEveryRow == Spec => []PreloadedCacheIsComplete
<1>1. PreloadOK => PreloadedCacheIsComplete
    BY DEF PreloadOK, PreloadedCacheIsComplete, Cached, Fresh
<1> QED
    BY <1>1, PreloadAlways, PTL

(* add_block answers :added of a block with a row only, once preloading is  *)
(* complete, also when it answers in the caller's process from the cache.   *)
THEOREM AnswersAreBackedByRows == Spec => AnsweredBlocksAreStored
<1> DEFINE Backed == complete /\ reply' # reply /\ reply'.ret = "added" => reply'.block \in stored
<1>1. IndInv /\ [Next]_vars => [Backed]_vars
    <2> SUFFICES ASSUME IndInv, [Next]_vars, complete, reply' # reply, reply'.ret = "added"
                 PROVE  reply'.block \in stored
        OBVIOUS
    <2>1. ASSUME NEW b \in Blocks, Submit(b) PROVE reply'.block \in stored
        <3>1. CASE SubmitKnown(b)
            <4>1. b \in stored
                BY <3>1 DEF SubmitKnown, Exists, IndInv, CacheOK
            <4>2. reply' = [block |-> b, ret |-> "added"]
                BY <3>1 DEF SubmitKnown
            <4> QED
                BY <4>1, <4>2
        <3>2. ~SubmitGenesis(b)
            <4> SUFFICES ASSUME reply' = [block |-> b, ret |-> "rejected"] PROVE FALSE
                BY DEF SubmitGenesis
            <4> QED
                OBVIOUS
        <3>3. ~SubmitNew(b)
            BY DEF SubmitNew
        <3> QED
            BY <2>1, <3>1, <3>2, <3>3 DEF Submit
    <2>2. CASE Handle
        <3>1. CASE SkipExisting
            <4>1. Next1 \in Blocks /\ reply' = [block |-> Next1, ret |-> "added"] /\ Exists(Next1)
                BY <3>1, DequeueFacts DEF SkipExisting
            <4> QED
                BY <4>1 DEF Exists, IndInv, CacheOK
        <3>2. CASE FinishAlt \/ FinishExtension \/ FinishReorg
            <4>1. job.pc # "idle"
                BY <3>2 DEF FinishAlt, FinishExtension, FinishReorg
            <4>2. PICK ret : reply' = [block |-> job.block, ret |-> ret]
                BY <3>2 DEF FinishAlt, FinishExtension, FinishReorg, Answer
            <4> QED
                BY <4>1, <4>2, JobFacts
        <3>3. CASE CommitAlt \/ CommitExtension \/ CommitReorg \/ RefetchBlock
            BY <3>3 DEF CommitAlt, CommitExtension, CommitReorg, RefetchBlock
        <3>4. CASE ReorgFails
            BY <3>4 DEF ReorgFails, StartOver, NoReply
        <3> QED
            BY <2>2, <3>1, <3>2, <3>3, <3>4 DEF Handle
    <2>3. CASE Preload
        BY <2>3 DEF Preload, ReadPage, AddPlaceholder, PlaceholdersComplete, ReadTop, AddTop
    <2>4. CASE Restart
        BY <2>4 DEF Restart, StartOver, NoReply
    <2>5. CASE UNCHANGED vars
        BY <2>5 DEF vars
    <2> QED
        BY <2>1, <2>2, <2>3, <2>4, <2>5 DEF Next
<1> QED
    BY <1>1, IndInvAlways, PTL DEF Spec, AnsweredBlocksAreStored
==============================================================================
