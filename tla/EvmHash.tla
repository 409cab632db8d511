------------------------------ MODULE EvmHash ------------------------------
(***************************************************************************)
(* keccak of src/evm/ethash (keccak.c, keccakf1600.c), which SHA3 hashes    *)
(* with: the sponge over 25 lanes of 64 bits and the unrolled permutation.  *)
(* A lane is the set of its bits that are 1; state[i] of the code is        *)
(* state[i + 1] here.                                                      *)
(*                                                                         *)
(* The operator named Bad... is a faulty variant; no operator uses it.      *)
(***************************************************************************)
EXTENDS Integers, Sequences, FiniteSets

LaneBits == 0 .. 63
Xor(x, y) == {i \in LaneBits : (i \in x) # (i \in y)}
rol(x, s) == {(i + s) % 64 : i \in x}

\* A function as a sequence that TLC holds element by element.
Listed(f) == <<>> \o f
\* F of v, which is evaluated before F is.
Given(v, F(_)) == CHOOSE r \in {F(x) : x \in {v}} : TRUE

round_constants == <<
    {0}, {1, 7, 15}, {1, 3, 7, 15, 63}, {15, 31, 63}, {0, 1, 3, 7, 15}, {0, 31}, {0, 7, 15, 31, 63}, {0, 3, 15, 63},
    {1, 3, 7}, {3, 7}, {0, 3, 15, 31}, {1, 3, 31}, {0, 1, 3, 7, 15, 31}, {0, 1, 3, 7, 63}, {0, 3, 7, 15, 63},
    {0, 1, 15, 63}, {1, 15, 63}, {7, 63}, {1, 3, 15}, {1, 3, 31, 63}, {0, 7, 15, 31, 63}, {7, 15, 63}, {0, 31},
    {3, 15, 31, 63}>>

(* The lane each of Ba, Be, Bi, Bo, Bu is taken from, and by how much it is *)
(* rotated, for the five rows b, g, k, m, s the code writes in turn.        *)
Taken == <<
    <<0, 0>>, <<6, 44>>, <<12, 43>>, <<18, 21>>, <<24, 14>>,
    <<3, 28>>, <<9, 20>>, <<10, 3>>, <<16, 45>>, <<22, 61>>,
    <<1, 1>>, <<7, 6>>, <<13, 25>>, <<19, 8>>, <<20, 18>>,
    <<4, 27>>, <<5, 36>>, <<11, 10>>, <<17, 15>>, <<23, 56>>,
    <<2, 62>>, <<8, 55>>, <<14, 39>>, <<15, 41>>, <<21, 2>>>>

(* One round, Axx -> Exx or Exx -> Axx: the loop has both, and one round of *)
(* each is one of two here.                                                *)
BadRound(A, constant) ==
    LET B == Listed([x \in 1 .. 5 |-> Xor(A[x], Xor(A[x + 5], Xor(A[x + 10], Xor(A[x + 15], A[x + 20]))))])
        D == Listed([x \in 1 .. 5 |-> Xor(B[((x + 3) % 5) + 1], rol(B[(x % 5) + 1], 1))])
        R == Listed([i \in 1 .. 25 |-> rol(Xor(A[Taken[i][1] + 1], D[(Taken[i][1] % 5) + 1]), Taken[i][2])])
        row(i, k) == R[i - ((i - 1) % 5) + ((i - 1 + k) % 5)]
        mixed(i) == {b \in LaneBits : (b \in R[i]) # (b \in row(i, 1) /\ b \in row(i, 2))}
    IN Listed([i \in 1 .. 25 |-> IF i = 1 THEN Xor(mixed(i), constant) ELSE mixed(i)])
Round(A, constant) ==
    LET B == Listed([x \in 1 .. 5 |-> Xor(A[x], Xor(A[x + 5], Xor(A[x + 10], Xor(A[x + 15], A[x + 20]))))])
        D == Listed([x \in 1 .. 5 |-> Xor(B[((x + 3) % 5) + 1], rol(B[(x % 5) + 1], 1))])
        R == Listed([i \in 1 .. 25 |-> rol(Xor(A[Taken[i][1] + 1], D[(Taken[i][1] % 5) + 1]), Taken[i][2])])
        row(i, k) == R[i - ((i - 1) % 5) + ((i - 1 + k) % 5)]
        mixed(i) == {b \in LaneBits : (b \in R[i]) # (b \notin row(i, 1) /\ b \in row(i, 2))}
    IN Listed([i \in 1 .. 25 |-> IF i = 1 THEN Xor(mixed(i), constant) ELSE mixed(i)])

ethash_keccakf1600(state) ==
    LET after[round \in 0 .. 24] ==
            IF round = 0 THEN state
            ELSE Given(after[round - 1], LAMBDA A : Round(A, round_constants[round]))
    IN after[24]

(* The lanes of bytes, the first the lowest of its lane; the last lane may  *)
(* be short.                                                               *)
load_le(bytes) == {i \in LaneBits : i \div 8 < Len(bytes) /\ (bytes[i \div 8 + 1] \div 2 ^ (i % 8)) % 2 = 1}
Lane(bytes, i) == load_le(SubSeq(bytes, 8 * i - 7, IF 8 * i < Len(bytes) THEN 8 * i ELSE Len(bytes)))
Absorbed(state, bytes) == Listed([i \in 1 .. 25 |-> Xor(state[i], Lane(bytes, i))])

\* The whole blocks; then the rest with its 0x01, and the bit that ends the
\* last block.
keccak(bits, data) ==
    LET size == (1600 - 2 * bits) \div 8
        full == Len(data) \div size
        rest == SubSeq(data, full * size + 1, Len(data))
        after[n \in 0 .. full] ==
            IF n = 0 THEN [i \in 1 .. 25 |-> {}]
            ELSE Given(Absorbed(after[n - 1], SubSeq(data, (n - 1) * size + 1, n * size)), ethash_keccakf1600)
        last == Absorbed(after[full], Append(rest, 1))
        state == Given([last EXCEPT ![size \div 8] = Xor(@, {63})], ethash_keccakf1600)
    IN SubSeq(state, 1, bits \div 64)
ethash_keccak256(data) == keccak(256, data)

-----------------------------------------------------------------------------
(***************************************************************************)
(* Properties.  Keccak as it is defined: five steps on a cube of bits, of   *)
(* which lane <<x, y>> is the line A[x + 5 * y + 1].                       *)
(***************************************************************************)

X(i) == (i - 1) % 5
Y(i) == (i - 1) \div 5
Line(x, y) == (x % 5) + 5 * (y % 5) + 1
Cube(Bit(_, _)) == Listed([i \in 1 .. 25 |-> {z \in LaneBits : Bit(i, z)}])

Parity(A) == Listed([x \in 1 .. 5 |-> {z \in LaneBits : Cardinality({y \in 0 .. 4 : z \in A[Line(x - 1, y)]}) % 2 = 1}])
ThetaOf(A, odd) ==
    Cube(LAMBDA i, z : (z \in A[i]) # ((z \in odd[Line(X(i) + 4, 0)]) # ((z + 63) % 64 \in odd[Line(X(i) + 1, 0)])))
Theta(A) == ThetaOf(A, Parity(A))

\* The lanes in the order rho visits them, from <<1, 0>> on.
Visit[t \in 1 .. 24] == IF t = 1 THEN <<1, 0>> ELSE LET v == Visit[t - 1] IN <<v[2], (2 * v[1] + 3 * v[2]) % 5>>
Offset == Listed([i \in 1 .. 25 |->
              IF i = 1 THEN 0 ELSE LET t == CHOOSE n \in 1 .. 24 : Visit[n] = <<X(i), Y(i)>> IN (t * (t + 1)) \div 2])
Rho(A) == Cube(LAMBDA i, z : (z + 640 - Offset[i]) % 64 \in A[i])
Pi(A) == Cube(LAMBDA i, z : z \in A[Line(X(i) + 3 * Y(i), X(i))])
Chi(A) == Cube(LAMBDA i, z : (z \in A[i]) # (z \notin A[Line(X(i) + 1, Y(i))] /\ z \in A[Line(X(i) + 2, Y(i))]))

\* The shift register whose first bit the round constants are made of.
Register[t \in Nat] ==
    IF t = 0 THEN {0}
    ELSE LET R == Register[t - 1]
             shifted == {(i + 1) % 8 : i \in R}
         IN {i \in 0 .. 7 : (i \in shifted) # (7 \in R /\ i \in {4, 5, 6})}
RC == [r \in 0 .. 23 |-> {z \in LaneBits : \E j \in 0 .. 6 : z = 2 ^ j - 1 /\ 0 \in Register[j + 7 * r]}]
Iota(A, r) == [A EXCEPT ![1] = Xor(@, RC[r])]
KeccakF(A) ==
    LET after[r \in 0 .. 24] ==
            IF r = 0 THEN A ELSE Given(after[r - 1], LAMBDA B : Iota(Chi(Pi(Rho(Theta(B)))), r - 1))
    IN after[24]

\* The sponge: data, a 1, zeros and a 1 that ends the last block.
Padded(data, size) ==
    LET fill == size - (Len(data) % size)
    IN data \o [i \in 1 .. fill |-> (IF i = 1 THEN 1 ELSE 0) + (IF i = fill THEN 128 ELSE 0)]
BlockBit(bytes, i, z) == (bytes[8 * i - 7 + (z \div 8)] \div 2 ^ (z % 8)) % 2 = 1
Mixed(A, block) == Cube(LAMBDA i, z : (z \in A[i]) # (8 * i <= Len(block) /\ BlockBit(block, i, z)))
Sponge(bytes, size) ==
    LET after[n \in 0 .. Len(bytes) \div size] ==
            IF n = 0 THEN [i \in 1 .. 25 |-> {}]
            ELSE Given(Mixed(after[n - 1], SubSeq(bytes, (n - 1) * size + 1, n * size)), KeccakF)
    IN after[Len(bytes) \div size]

Keccak256(data) == SubSeq(Sponge(Padded(data, 136), 136), 1, 4)
=============================================================================
