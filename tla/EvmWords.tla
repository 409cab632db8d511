------------------------------ MODULE EvmWords ------------------------------
(***************************************************************************)
(* The arithmetic of src/evm/intx (int128.hpp, intx.hpp, div.cpp): 128, 256 *)
(* and 512-bit numbers out of machine words.  A machine word is a number    *)
(* below Base; the code's Base is 2^64, here LimbBits is a constant, and    *)
(* the algorithms are those of the code: a wider number is the pair of its  *)
(* halves, every sum and product of machine words wraps.                   *)
(*                                                                         *)
(* The names are the code's; a number tells the width.  The portable branch *)
(* of an #ifdef stands for the builtin of the compiler (__int128,           *)
(* __builtin_clzll) that computes the same.                                *)
(*                                                                         *)
(* The operators named Bad... are faulty variants of the operator they      *)
(* precede; no operator uses them.                                         *)
(***************************************************************************)
EXTENDS Integers, SequencesExt

CONSTANT LimbBits       \* the 64 of uint64_t, even

ASSUME WordsAssumption == LimbBits \in Nat \ {0} /\ LimbBits % 2 = 0

Base == 2 ^ LimbBits
Pair(h, l) == [hi |-> h, lo |-> l]
Bool(b) == IF b THEN 1 ELSE 0

-----------------------------------------------------------------------------
(* uint64_t.                                                               *)

add64(x, y) == (x + y) % Base
sub64(x, y) == (x - y) % Base
mul64(x, y) == (x * y) % Base
shl64(x, s) == (x * 2 ^ s) % Base
shr64(x, s) == x \div 2 ^ s

Bit(x, i) == (x \div 2 ^ i) % 2
Bits2 == (0 .. 1) \X (0 .. 1)
(* F is the truth table of two bits.                                       *)
Bitwise64(F, x, y) ==
    FoldLeft(LAMBDA sum, i : sum + 2 ^ (i - 1) * F[<<Bit(x, i - 1), Bit(y, i - 1)>>],
             0, [i \in 1 .. LimbBits |-> i])
or64(x, y)  == Bitwise64([b \in Bits2 |-> Bool(b[1] + b[2] > 0)], x, y)
and64(x, y) == Bitwise64([b \in Bits2 |-> b[1] * b[2]], x, y)
xor64(x, y) == Bitwise64([b \in Bits2 |-> (b[1] + b[2]) % 2], x, y)
not64(x) == Base - 1 - x

clz64(x) == CHOOSE n \in 0 .. LimbBits : IF x = 0 THEN n = LimbBits
                                         ELSE n < LimbBits /\ shr64(x, LimbBits - 1 - n) = 1

umul64(x, y) ==
    LET h == LimbBits \div 2
        xl == x % 2 ^ h
        xh == shr64(x, h)
        yl == y % 2 ^ h
        yh == shr64(y, h)
        t0 == xl * yl
        u1 == xh * yl + shr64(t0, h)
        u2 == xl * yh + (u1 % 2 ^ h)
    IN Pair(xh * yh + shr64(u2, h) + shr64(u1, h), shl64(u2, h) + (t0 % 2 ^ h))

-----------------------------------------------------------------------------
(* uint128.                                                                *)

Zero128 == Pair(0, 0)
Wide128(x) == Pair(0, x)

add128(x, y) ==
    LET lo == add64(x.lo, y.lo)
    IN Pair(add64(add64(x.hi, y.hi), Bool(x.lo > lo)), lo)
sub128(x, y) ==
    LET lo == sub64(x.lo, y.lo)
    IN Pair(sub64(sub64(x.hi, y.hi), Bool(x.lo < lo)), lo)
less128(x, y) == x.hi < y.hi \/ (x.hi = y.hi /\ x.lo < y.lo)
leq128(x, y) == x.hi < y.hi \/ (x.hi = y.hi /\ x.lo <= y.lo)

or128(x, y)  == Pair(or64(x.hi, y.hi), or64(x.lo, y.lo))
and128(x, y) == Pair(and64(x.hi, y.hi), and64(x.lo, y.lo))
xor128(x, y) == Pair(xor64(x.hi, y.hi), xor64(x.lo, y.lo))
not128(x) == Pair(not64(x.hi), not64(x.lo))

shl128(x, s) ==
    IF s < LimbBits
    THEN Pair(or64(shl64(x.hi, s), shr64(shr64(x.lo, 1), LimbBits - 1 - s)), shl64(x.lo, s))
    ELSE IF s < 2 * LimbBits THEN Pair(shl64(x.lo, s - LimbBits), 0) ELSE Zero128
shr128(x, s) ==
    IF s < LimbBits
    THEN Pair(shr64(x.hi, s), or64(shr64(x.lo, s), shl64(shl64(x.hi, 1), LimbBits - 1 - s)))
    ELSE IF s < 2 * LimbBits THEN Pair(0, shr64(x.hi, s - LimbBits)) ELSE Zero128

mul128(x, y) ==
    LET p == umul64(x.lo, y.lo)
    IN Pair(add64(p.hi, add64(mul64(x.lo, y.hi), mul64(x.hi, y.lo))), p.lo)

(* Its contract, for a normalized d: the table it starts from and its three *)
(* rounds of refinement are for words of 64 bits only.                     *)
reciprocal_2by1(d) == (Base * Base - 1) \div d - Base

reciprocal_3by2(d) ==
    LET v0 == reciprocal_2by1(d.hi)
        p0 == add64(mul64(d.hi, v0), d.lo)
        v1 == IF p0 < d.lo THEN v0 - 1 - Bool(p0 >= d.hi) ELSE v0
        p1 == IF p0 < d.lo THEN sub64(IF p0 >= d.hi THEN p0 - d.hi ELSE p0, d.hi) ELSE p0
        t == umul64(v1 % Base, d.lo)
        p2 == add64(p1, t.hi)
    IN (IF p2 < t.hi THEN v1 - 1 - Bool(leq128(d, Pair(p2, t.lo))) ELSE v1) % Base

udivrem_2by1(u, d, v) ==
    LET corrected(q0) ==
            LET q1 == add64(q0.hi, 1)
                r1 == sub64(u.lo, mul64(q1, d))
                over == r1 > q0.lo
                q2 == IF over THEN sub64(q1, 1) ELSE q1
                r2 == IF over THEN add64(r1, d) ELSE r1
            IN [quot |-> IF r2 >= d THEN add64(q2, 1) ELSE q2, rem |-> IF r2 >= d THEN r2 - d ELSE r2]
    IN corrected(add128(umul64(v, u.hi), u))

udivrem_3by2(u2, u1, u0, d, v) ==
    LET remainder(q0) == sub128(sub128(Pair(sub64(u1, mul64(q0.hi, d.hi)), u0), umul64(d.lo, q0.hi)), d)
        corrected(q0, r0) ==
            LET over == r0.hi >= q0.lo
                q2 == IF over THEN q0.hi ELSE add64(q0.hi, 1)
                r2 == IF over THEN add128(r0, d) ELSE r0
            IN [quot |-> IF leq128(d, r2) THEN add64(q2, 1) ELSE q2,
                rem |-> IF leq128(d, r2) THEN sub128(r2, d) ELSE r2]
        estimated(q0) == corrected(q0, remainder(q0))
    IN estimated(add128(umul64(v, u2), Pair(u2, u1)))

-----------------------------------------------------------------------------
(* uint<N> out of its halves, whose operators are the parameters.          *)

Halves(Op(_), x) == Pair(Op(x.hi), Op(x.lo))
Both(Op(_, _), x, y) == Pair(Op(x.hi, y.hi), Op(x.lo, y.lo))
less(Half(_, _), x, y) == Half(x.hi, y.hi) \/ (x.hi = y.hi /\ Half(x.lo, y.lo))

add_with_carry(Half(_, _), One, Zero, a, b) ==
    LET lo == Half(a.lo, b.lo)
        tt == Half(a.hi, b.hi)
        hi == Half(tt.value, IF lo.carry THEN One ELSE Zero)
    IN [value |-> Pair(hi.value, lo.value), carry |-> tt.carry \/ hi.carry]

shl(L(_, _), R(_, _), Or(_, _), Zero, bits, x, s) ==
    IF s < bits \div 2
    THEN Pair(Or(L(x.hi, s), R(R(x.lo, bits \div 2 - s - 1), 1)), L(x.lo, s))
    ELSE IF s < bits THEN Pair(L(x.lo, s - bits \div 2), Zero) ELSE Pair(Zero, Zero)
shr(L(_, _), R(_, _), Or(_, _), Zero, bits, x, s) ==
    IF s < bits \div 2
    THEN Pair(R(x.hi, s), Or(R(x.lo, s), L(L(x.hi, bits \div 2 - s - 1), 1)))
    ELSE IF s < bits THEN Pair(Zero, R(x.hi, s - bits \div 2)) ELSE Pair(Zero, Zero)

(* The whole is twice as wide as x and y: Full multiplies their halves.     *)
umul(Full(_, _), Add(_, _), Zero, x, y) ==
    LET t0 == Full(x.lo, y.lo)
        u1 == Add(Full(x.hi, y.lo), Pair(Zero, t0.hi))
        u2 == Add(Full(x.lo, y.hi), Pair(Zero, u1.lo))
    IN Pair(Add(Add(Full(x.hi, y.hi), Pair(Zero, u2.hi)), Pair(Zero, u1.hi)),
            Pair(u2.lo, t0.lo))

-----------------------------------------------------------------------------
(* uint256.                                                                *)

Zero256 == Pair(Zero128, Zero128)
One256 == Pair(Zero128, Wide128(1))

add_with_carry128(a, b) == [value |-> add128(a, b), carry |-> less128(add128(a, b), a)]
add_with_carry256(a, b) == add_with_carry(add_with_carry128, Wide128(1), Zero128, a, b)
add256(a, b) == add_with_carry256(a, b).value
not256(x) == Halves(not128, x)
neg256(x) == add256(not256(x), One256)
sub256(x, y) == add256(x, neg256(y))
less256(x, y) == less(less128, x, y)
and256(x, y) == Both(and128, x, y)
or256(x, y) == Both(or128, x, y)
xor256(x, y) == Both(xor128, x, y)
shl256(x, s) == shl(shl128, shr128, or128, Zero128, 4 * LimbBits, x, s)
shr256(x, s) == shr(shl128, shr128, or128, Zero128, 4 * LimbBits, x, s)

umul128(x, y) == umul(umul64, add128, 0, x, y)
umul256(x, y) == umul(umul128, add256, Zero128, x, y)
mul256(a, b) ==
    LET t == umul128(a.lo, b.lo)
    IN Pair(add128(add128(mul128(a.lo, b.hi), mul128(a.hi, b.lo)), t.hi), t.lo)

(* exp(): the loop runs over the bits of the exponent.                      *)
exp(base, exponent) ==
    LET lowBit(i) == and256(shr256(exponent, i - 1), One256) # Zero256
        step(s, i) == [result |-> IF lowBit(i) THEN mul256(s.result, s.base) ELSE s.result,
                       base |-> mul256(s.base, s.base)]
    IN FoldLeft(step, [result |-> One256, base |-> base], [i \in 1 .. 4 * LimbBits |-> i]).result

(* count_significant_words() of x as four words.                           *)
count_significant_words(x) ==
    LET Count(Half(_), words, y) ==
            IF Half(y.hi) # 0 THEN Half(y.hi) + words \div 2 ELSE Half(y.lo)
    IN Count(LAMBDA y : Count(LAMBDA w : Bool(w # 0), 2, y), 4, x)

-----------------------------------------------------------------------------
(* as_words(): the machine words, the lowest at 0.                         *)

words128(x) == <<x.lo, x.hi>>
words256(x) == words128(x.lo) \o words128(x.hi)
words512(x) == words256(x.lo) \o words256(x.hi)
At(w, i) == w[i + 1]
Put(w, i, v) == [w EXCEPT ![i + 1] = v]
number256(w) == Pair(Pair(At(w, 3), At(w, 2)), Pair(At(w, 1), At(w, 0)))

Significant(w) == CHOOSE n \in 0 .. Len(w) :
    (n > 0 => At(w, n - 1) # 0) /\ \A i \in n .. Len(w) - 1 : At(w, i) = 0
Downto0(n) == [i \in 1 .. n + 1 |-> n + 1 - i]
Upto(n) == [i \in 1 .. n |-> i - 1]

(* One word more than w; numerator_ex follows the words of the numerator.   *)
Shifted(w, s) ==
    [k \in 1 .. Len(w) + 1 |->
        LET below == IF k = 1 \/ s = 0 THEN 0 ELSE shr64(w[k - 1], LimbBits - s)
        IN IF k = Len(w) + 1 THEN below ELSE or64(shl64(w[k], s), below)]

normalize(u, v) ==
    LET n == Significant(v)
        s == clz64(At(v, n - 1))
    IN [den |-> Shifted(v, s), num |-> Shifted(u, s), n |-> n, m |-> Significant(u), shift |-> s]

udivrem_by1(u, m, d) ==
    LET v == reciprocal_2by1(d)
        digit(s, j, x) == [quot |-> Put(s.quot, j, x.quot), rem |-> x.rem]
    IN FoldLeft(LAMBDA s, j : digit(s, j, udivrem_2by1(Pair(s.rem, At(s.quot, j)), d, v)),
                [quot |-> Put(u, m, 0), rem |-> At(u, m)], Downto0(m - 1))

udivrem_by2(u, m, d) ==
    LET v == reciprocal_3by2(d)
        digit(s, j, x) == [quot |-> Put(s.quot, j, x.quot), rem |-> x.rem]
    IN FoldLeft(LAMBDA s, j : digit(s, j, udivrem_3by2(s.rem.hi, s.rem.lo, At(s.quot, j), d, v)),
                [quot |-> Put(Put(u, m, 0), m - 1, 0), rem |-> Pair(At(u, m), At(u, m - 1))],
                Downto0(m - 2))

(* One digit of udivrem_knuth: the estimate, and what is left of un after   *)
(* it is multiplied and subtracted, or added back.                         *)
qhat(un, j, n, divisor, reciprocal) ==
    LET u0 == At(un, j + n - 2)
        dividend == Pair(At(un, j + n), At(un, j + n - 1))
        tooLarge(q, rhat) == less128(Pair(rhat.lo, u0), umul64(q, divisor.lo))
        rmax == add128(sub128(dividend, Pair(divisor.hi, 0)), Wide128(divisor.hi))
        rnext(res) == add128(Wide128(res.rem), Wide128(divisor.hi))
        corrected(res) ==
            IF tooLarge(res.quot, Wide128(res.rem))
            THEN res.quot - 1 - Bool(rnext(res).hi = 0 /\ tooLarge(res.quot - 1, rnext(res)))
            ELSE res.quot
    IN IF dividend.hi >= divisor.hi
       THEN Base - 1 - Bool(rmax.hi = 0 /\ tooLarge(Base - 1, rmax))
       ELSE corrected(udivrem_2by1(dividend, divisor.hi, reciprocal))

subtracted(un, j, vn, n, q) ==
    FoldLeft(LAMBDA s, i :
                 LET p == umul64(q, At(vn, i))
                     d == sub128(sub128(Wide128(At(s.un, i + j)), Wide128(s.borrow)), Wide128(p.lo))
                 IN [un |-> Put(s.un, i + j, d.lo), borrow |-> sub64(p.hi, d.hi)],
             [un |-> un, borrow |-> 0], Upto(n))

Badadded_back(un, j, vn, n) == un
added_back(un, j, vn, n) ==
    LET a == FoldLeft(LAMBDA s, i :
                 LET d == add128(add128(Wide128(At(s.un, i + j)), Wide128(At(vn, i))), Wide128(s.carry))
                 IN [un |-> Put(s.un, i + j, d.lo), carry |-> d.hi],
             [un |-> un, carry |-> 0], Upto(n))
    IN Put(a.un, j + n, add64(At(a.un, j + n), a.carry))

udivrem_knuth(un, m, vn, n) ==
    LET divisor == Pair(At(vn, n - 1), At(vn, n - 2))
        reciprocal == reciprocal_2by1(divisor.hi)
        settled(s, j, q, sub) ==
            LET top == At(s.un, j + n)
                rest == Put(sub.un, j + n, sub64(top, sub.borrow))
                over == top < sub.borrow
            IN [un |-> IF over THEN added_back(rest, j, vn, n) ELSE rest,
                q |-> Put(s.q, j, IF over THEN q - 1 ELSE q)]
        digit(s, j, q) == settled(s, j, q, subtracted(s.un, j, vn, n, q))
    IN FoldLeft(LAMBDA s, j : digit(s, j, qhat(s.un, j, n, divisor, reciprocal)),
                [un |-> un, q |-> [k \in DOMAIN un |-> 0]], Downto0(m - n))

(* udivrem() of words; the quotient has a word more, which is 0.            *)
udivrem(u, v) ==
    LET zeros == [k \in DOMAIN u |-> 0]
        unshifted1(r, s) == [quot |-> r.quot, rem |-> Put(zeros, 0, shr64(r.rem, s))]
        unshifted2(r, s) == [quot |-> r.quot,
                             rem |-> Put(Put(zeros, 0, shr128(r.rem, s).lo), 1, shr128(r.rem, s).hi)]
        word(un, i, s) == IF s = 0 THEN At(un, i)
                          ELSE or64(shr64(At(un, i), s), shl64(At(un, i + 1), LimbBits - s))
        unshifted(r, na) == [quot |-> r.q,
                             rem |-> [k \in DOMAIN u |-> IF k > na.n THEN 0 ELSE word(r.un, k - 1, na.shift)]]
        divided(na) ==
            IF na.n > na.m THEN [quot |-> zeros, rem |-> u]
            ELSE IF na.n = 1 THEN unshifted1(udivrem_by1(na.num, na.m, At(na.den, 0)), na.shift)
            ELSE IF na.n = 2 THEN unshifted2(udivrem_by2(na.num, na.m, Pair(At(na.den, 1), At(na.den, 0))), na.shift)
            ELSE unshifted(udivrem_knuth(na.num, na.m, na.den, na.n), na)
    IN divided(normalize(u, v))

div256(x, y) == number256(udivrem(words256(x), words256(y)).quot)
mod256(x, y) == number256(udivrem(words256(x), words256(y)).rem)
mod512(x, y) == number256(udivrem(words512(x), words512(Pair(Zero256, y))).rem)

negative(x) == shr256(x, 4 * LimbBits - 1) # Zero256
sdivrem(u, v) ==
    LET signed(x, minus) == IF minus THEN neg256(x) ELSE x
        abs(x) == signed(x, negative(x))
    IN [quot |-> signed(div256(abs(u), abs(v)), negative(u) # negative(v)),
        rem |-> signed(mod256(abs(u), abs(v)), negative(u))]

addmod(x, y, mod) ==
    LET s == add_with_carry256(x, y)
    IN mod512(Pair(IF s.carry THEN One256 ELSE Zero256, s.value), mod)
mulmod(x, y, mod) == mod512(umul256(x, y), mod)
=============================================================================
