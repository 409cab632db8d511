------------------------------- MODULE MCEvmVm -------------------------------
(***************************************************************************)
(* Programs for EvmVm: words of 8 bits in limbs of 2, a stack of 17 words.  *)
(***************************************************************************)
EXTENDS EvmVm

P(v) == <<96, v>>                       \* PUSH1 v
All(vs) == FlattenSeq([i \in 1 .. Len(vs) |-> P(vs[i])])
B(name) == <<Byte(name)>>
With(programs, gases) == [code : programs, gas : gases, data : {40}]

(* Every computation, on words at the limits of the limbs and of the sign.  *)
Samples == {0, 1, 2, 3, 4, 7, 8, 15, 16, 21, 35, 63, 64, 90, 111, 127, 128, 150, 171, 192, 200, 239, 240, 255}
Moduli == {0, 5, 33, 97, 254}
Computations ==
    With({P(y) \o P(x) \o B(op) : x \in Samples, y \in Samples, op \in Computes \ {"ADDMOD", "MULMOD"}}
         \cup {P(z) \o P(y) \o P(x) \o B(op) : x \in Samples, y \in Samples, z \in Moduli, op \in {"ADDMOD", "MULMOD"}},
         {300})

(* Every byte of code after some words, with more and with less gas.        *)
Before == {<<>>, All(<<8, 40, 0, 32, 1, 3, 9>>), All(<<0, 60, 5, 0, 0, 33, 64>>), All(<<1, 1, 200, 1, 200, 1, 1>>)}
Bytewise == With({p \o <<b>> : p \in Before, b \in Bytes}, {2, 40, 800, 4000, 13000, 60000})

(* Calls and copies with what was returned, the stack at its limit, jumps   *)
(* into and over data, loops, code that ends in the middle of a PUSH.       *)
Twice(op) == All(<<0, 0, 33, 0, 0, 1, 9>>) \o B(op) \o All(<<64, 1, 0>>) \o B("RETURNDATACOPY")
Jumping == {P(4) \o B("JUMP") \o P(91), P(3) \o B("JUMP") \o B("JUMPDEST"), B("JUMPDEST") \o P(0) \o B("JUMP"),
            B("JUMPDEST") \o B("GAS") \o P(0) \o B("JUMPI"), B("JUMPDEST") \o P(0) \o P(0) \o B("JUMPI")}
Programs == Jumping \cup {Twice(op) : op \in Calls4}
    \cup {All([i \in 1 .. n |-> i]) \o <<b>> : n \in 15 .. 18, b \in 128 .. 159}
    \cup {p \o <<96 + n>> \o [i \in 1 .. k |-> 91] : p \in {<<>>, P(7)}, n \in 0 .. 31, k \in 0 .. 2}

Hashes == {P(n) \o P(0) \o B("SHA3") : n \in {0, 7, 8, 71, 135, 136, 137, 143, 144}}

MCMessages == Computations \cup Bytewise \cup With(Programs, {30, 150, 900}) \cup With(Hashes, {150})
MCContents == [i \in 1 .. 512 |-> (7 * i) % 256]
MCLeftovers(given) == {0, given \div 2, given}
=============================================================================
