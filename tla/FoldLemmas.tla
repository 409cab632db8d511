------------------------------ MODULE FoldLemmas ------------------------------
(***************************************************************************)
(* Facts about FoldLeft, for the modules that prove theorems about models  *)
(* which fold over a sequence.  FoldLeft(op, base, seq) is f[1 .. n] for   *)
(* the function f on the sets of positions that                            *)
(*   f[s] = IF s = {} THEN base ELSE op(f[s \ {Max(s)}], seq[Max(s)])      *)
(* describes.  Induction is stated of sets, which every prover handles.    *)
(***************************************************************************)
EXTENDS SequencesExt, WellFoundedInduction, TLAPS

(* Any non-empty set of naturals has a least element.                       *)
LEMMA NatLeast ==
    ASSUME NEW T \in SUBSET Nat, T # {}
    PROVE  \E m \in T : \A k \in T : m <= k
<1> DEFINE R == {r \in Nat \X Nat : r[1] < r[2]}
<1>1. IsWellFoundedOn(R, Nat)
    BY NatLessThanWellFounded DEF OpToRel
<1>2. \E m \in T : \A k \in T : ~ (<<k, m>> \in R)
    <2> HIDE DEF R
    <2> QED
        BY <1>1, WFMin
<1>3. PICK m \in T : \A k \in T : ~ (<<k, m>> \in R)
    BY <1>2
<1>4. ASSUME NEW k \in T
      PROVE  m <= k
    <2>1. <<k, m>> \notin R /\ k \in Nat /\ m \in Nat
        BY <1>3
    <2> QED
        BY <2>1
<1> QED
    BY <1>4

(* Induction, as a statement about a set.                                   *)
LEMMA NatSetInduction ==
    ASSUME NEW S \in SUBSET Nat, 0 \in S, \A n \in S : n + 1 \in S
    PROVE  S = Nat
<1> SUFFICES ASSUME S # Nat PROVE FALSE
    OBVIOUS
<1> DEFINE T == Nat \ S
<1>1. T \in SUBSET Nat /\ T # {}
    OBVIOUS
<1>2. PICK m \in T : \A k \in T : m <= k
    <2> HIDE DEF T
    <2> QED BY <1>1, NatLeast
<1>3. m # 0 /\ m - 1 \in Nat
    OBVIOUS
<1>4. m - 1 \in S
    BY <1>2, <1>3
<1> QED BY <1>3, <1>4


(* The largest element of a set of positions.                               *)
LEMMA MaxOf ==
    ASSUME NEW n \in Nat, NEW s \in SUBSET (1 .. n), n \in s
    PROVE  Max(s) = n
<1>1. \A y \in s : n >= y
    OBVIOUS
<1>2. \A x \in s : (\A y \in s : x >= y) => x = n
    OBVIOUS
<1> QED
    BY <1>1, <1>2 DEF Max

LEMMA MaxIn ==
    ASSUME NEW n \in Nat, NEW s \in SUBSET (1 .. n), s # {}
    PROVE  Max(s) \in s /\ \A y \in s : y <= Max(s)
<1> DEFINE T == {k \in Nat : \E y \in s : k = n - y}
<1>1. T \in SUBSET Nat /\ T # {}
    <2>1. PICK y \in s : TRUE
        OBVIOUS
    <2>2. n - y \in T
        OBVIOUS
    <2> QED BY <2>2
<1>2. PICK m \in T : \A k \in T : m <= k
    <2> HIDE DEF T
    <2> QED BY <1>1, NatLeast
<1>3. PICK x \in s : m = n - x
    BY <1>2
<1>4. \A y \in s : x >= y
    <2> TAKE y \in s
    <2>1. n - y \in T
        OBVIOUS
    <2>2. n - x <= n - y
        BY <1>2, <1>3, <2>1
    <2> QED BY <2>2
<1>5. Max(s) \in s /\ \A y \in s : Max(s) >= y
    BY <1>4 DEF Max
<1> QED BY <1>5

(* The first n + 1 positions are the first n and one more.                  *)
LEMMA PrefixStep ==
    ASSUME NEW last \in Nat, NEW n \in 0 .. last - 1
    PROVE  /\ (1 .. n + 1) \in SUBSET (1 .. last) /\ 1 .. n + 1 # {}
           /\ Max(1 .. n + 1) = n + 1 /\ (1 .. n + 1) \ {n + 1} = 1 .. n
<1>1. (1 .. n + 1) \in SUBSET (1 .. last) /\ n + 1 \in 1 .. n + 1 /\ n + 1 \in Nat
    OBVIOUS
<1>2. Max(1 .. n + 1) = n + 1
    BY <1>1, MaxOf
<1>3. (1 .. n + 1) \ {n + 1} = 1 .. n
    OBVIOUS
<1> QED
    BY <1>1, <1>2, <1>3

(* f is the recursion FoldLeft stands for, when the operator is G.          *)
Folds(f, A, G, base, seq) ==
    /\ f \in [SUBSET (1 .. Len(seq)) -> A]
    /\ \A s \in SUBSET (1 .. Len(seq)) :
          f[s] = IF s = {} THEN base ELSE G[<<f[s \ {Max(s)}], seq[Max(s)]>>]

(* There is such an f.                                                     *)
LEMMA FoldExists ==
    ASSUME NEW A, NEW B, NEW G \in [A \X B -> A], NEW base \in A, NEW seq \in Seq(B)
    PROVE  \E f : Folds(f, A, G, base, seq)
<1> DEFINE Rec(f, n) == \A s \in SUBSET (1 .. n) :
              f[s] = IF s = {} THEN base ELSE G[<<f[s \ {Max(s)}], seq[Max(s)]>>]
           Found(n) == \E f \in [SUBSET (1 .. n) -> A] : Rec(f, n)
           Has == {n \in Nat : n <= Len(seq) => Found(n)}
<1>1. 0 \in Has
    <2> DEFINE f == [s \in SUBSET (1 .. 0) |-> base]
    <2>1. f \in [SUBSET (1 .. 0) -> A] /\ Rec(f, 0)
        OBVIOUS
    <2> QED BY <2>1
<1>2. ASSUME NEW n \in Has
      PROVE  n + 1 \in Has
    <2>0. SUFFICES ASSUME n + 1 <= Len(seq)
                   PROVE  Found(n + 1)
        <3> HIDE DEF Found
        <3> QED OBVIOUS
    <2>a. Found(n)
        <3> HIDE DEF Found
        <3> QED BY <2>0
    <2>1. PICK g \in [SUBSET (1 .. n) -> A] : Rec(g, n)
        BY <2>a
    <2> DEFINE f == [s \in SUBSET (1 .. n + 1) |->
                        IF n + 1 \in s THEN G[<<g[s \ {n + 1}], seq[n + 1]>>] ELSE g[s]]
    <2>2. seq[n + 1] \in B
        BY <2>0
    <2>3. \A s \in SUBSET (1 .. n + 1) : s \ {n + 1} \in SUBSET (1 .. n)
        OBVIOUS
    <2>4. f \in [SUBSET (1 .. n + 1) -> A]
        <3>1. ASSUME NEW s \in SUBSET (1 .. n + 1)
              PROVE  f[s] \in A
            <4>1. CASE n + 1 \in s
                BY <4>1, <2>2, <2>3
            <4>2. CASE n + 1 \notin s
                <5>1. s \in SUBSET (1 .. n)
                    BY <4>2, <2>3
                <5> QED BY <4>2, <5>1
            <4> QED BY <4>1, <4>2
        <3> QED BY <3>1
    <2>5. ASSUME NEW s \in SUBSET (1 .. n + 1)
          PROVE  f[s] = IF s = {} THEN base ELSE G[<<f[s \ {Max(s)}], seq[Max(s)]>>]
        <3>1. CASE n + 1 \in s
            <4>1. Max(s) = n + 1
                BY <3>1, MaxOf
            <4>2. f[s \ {n + 1}] = g[s \ {n + 1}]
                BY <2>3
            <4> QED BY <3>1, <4>1, <4>2
        <3>2. CASE n + 1 \notin s
            <4>1. s \in SUBSET (1 .. n)
                BY <3>2, <2>3
            <4>2. CASE s = {}
                BY <4>2, <2>1
            <4>3. CASE s # {}
                <5>1. Max(s) \in s
                    BY <4>1, <4>3, MaxIn
                <5>2. f[s \ {Max(s)}] = g[s \ {Max(s)}]
                    BY <4>1, <5>1, <3>2
                <5>3. f[s] = g[s]
                    BY <3>2
                <5> QED BY <2>1, <4>1, <4>3, <5>2, <5>3
            <4> QED BY <4>2, <4>3
        <3> QED BY <3>1, <3>2
    <2> QED BY <2>4, <2>5
<1>3. Has = Nat
    <2>1. Has \in SUBSET Nat
        OBVIOUS
    <2> HIDE DEF Has
    <2> QED BY <1>1, <1>2, <2>1, NatSetInduction
<1>4. Found(Len(seq))
    <2>1. Len(seq) \in Nat
        OBVIOUS
    <2> HIDE DEF Found
    <2> QED BY <2>1, <1>3
<1> QED BY <1>4 DEF Folds

LEMMA FoldStep ==
    ASSUME NEW A, NEW B, NEW G, NEW base, NEW seq \in Seq(B), NEW f, Folds(f, A, G, base, seq),
           NEW s \in SUBSET (1 .. Len(seq)), s # {}
    PROVE  /\ f[s] = G[<<f[s \ {Max(s)}], seq[Max(s)]>>]
           /\ f[s \ {Max(s)}] \in A /\ seq[Max(s)] \in B
<1>1. Max(s) \in 1 .. Len(seq)
    <2>1. Len(seq) \in Nat
        OBVIOUS
    <2> QED
        BY <2>1, MaxIn
<1>2. seq[Max(s)] \in B
    BY <1>1
<1>3. f[s \ {Max(s)}] \in A
    BY DEF Folds
<1> QED
    BY <1>2, <1>3 DEF Folds

(* What every step keeps holds of the result.                               *)
LEMMA FoldTyped ==
    ASSUME NEW A, NEW N \in Nat, NEW f, f[{}] \in A,
           \A s \in SUBSET (1 .. N) :
               s # {} /\ Max(s) \in 1 .. N /\ f[s \ {Max(s)}] \in A => f[s] \in A
    PROVE  f[1 .. N] \in A
<1> DEFINE Has == {n \in Nat : n <= N => f[1 .. n] \in A}
<1>1. 0 \in Has
    <2>1. 1 .. 0 = {}
        OBVIOUS
    <2> QED BY <2>1
<1>2. ASSUME NEW n \in Has
      PROVE  n + 1 \in Has
    <2> SUFFICES ASSUME n + 1 <= N
                 PROVE  f[1 .. n + 1] \in A
        OBVIOUS
    <2>1. (1 .. n + 1) \ {n + 1} = 1 .. n
        OBVIOUS
    <2>2. (1 .. n + 1) \in SUBSET (1 .. N) /\ n + 1 \in 1 .. n + 1 /\ n + 1 \in Nat
        OBVIOUS
    <2>3. Max(1 .. n + 1) = n + 1
        BY <2>2, MaxOf
    <2>4. f[1 .. n] \in A
        OBVIOUS
    <2> QED BY <2>1, <2>2, <2>3, <2>4
<1>3. Has = Nat
    <2>1. Has \in SUBSET Nat
        OBVIOUS
    <2> HIDE DEF Has
    <2> QED BY <1>1, <1>2, <2>1, NatSetInduction
<1> QED BY <1>3
=============================================================================
