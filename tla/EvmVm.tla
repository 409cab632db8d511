-------------------------------- MODULE EvmVm --------------------------------
(***************************************************************************)
(* The EVM interpreter of src/evm/libaleth-interpreter: class VM, from      *)
(* exec() to the result of execute(), one instruction in a step.            *)
(*                                                                         *)
(* A word has WordBits bits in place of 256 and WordBytes bytes in place of *)
(* 32; the gas costs are those of the code.  What the host, the message or  *)
(* the memory holds is not known here: an instruction that reads it pushes  *)
(* one of Inputs.  Of the memory its size is kept, of the return data too.  *)
(* main.cpp starts every message with depth 0 and without flags, so the     *)
(* tests for the depth of calls and for static mode are left out.           *)
(*                                                                         *)
(* The operators named Bad... are faulty variants of the operator they      *)
(* precede; no action uses them.                                           *)
(***************************************************************************)
EXTENDS EvmOpcodes, EvmWords, EvmHash, SequencesExt

CONSTANTS
    Revision,       \* the evmc_revision main.cpp passes
    StackLimit,     \* VMSchedule::stackLimit, the 1024
    MaxInt,         \* the largest size toInt63() lets pass
    QuadCoeffDiv,   \* VMSchedule::quadCoeffDiv, the 512
    Messages,       \* the messages: code, gas, size of the input
    Contents,       \* bytes memory may hold where SHA3 hashes it
    Inputs,         \* the words an instruction may be given
    Outputs,        \* the sizes of what a call may return
    Leftovers(_)    \* what a call may leave of the gas it is given

WordBits == 4 * LimbBits
WordMod == 2 ^ WordBits
WordBytes == 4
ByteBits == LimbBits

ASSUME EvmVmAssumption ==
    /\ Revision \in Frontier .. Istanbul
    /\ StackLimit \in Nat /\ MaxInt \in Nat /\ QuadCoeffDiv \in Nat \ {0}
    /\ Messages \subseteq [code : Seq(Bytes), gas : Nat, data : Nat]
    /\ Contents \in Seq(Bytes)
    /\ Inputs \subseteq 0 .. WordMod - 1 /\ Outputs \subseteq Nat
    /\ \A g \in UNION {0 .. m.gas + 2300 : m \in Messages} : Leftovers(g) \subseteq 0 .. g

VARIABLES
    msg,        \* the message, with the code it runs
    code,       \* m_code
    jumpDests,  \* m_jumpDests
    pc,         \* m_PC
    row,        \* the instruction fetched, out of m_code[m_PC]
    stack,      \* from m_SP, the top first
    gas,        \* m_io_gas
    mem,        \* m_mem.size()
    ret,        \* m_returnData.size()
    status,     \* "entry", "run", or the evmc_status_code of the result
    left        \* gas_left of the result

vars == <<msg, code, jumpDests, pc, row, stack, gas, mem, ret, status, left>>

ToWord(n) ==
    LET limb(i) == (n \div 2 ^ (i * LimbBits)) % Base
    IN Pair(Pair(limb(3), limb(2)), Pair(limb(1), limb(0)))
Number256(w) == w.lo.lo + Base * (w.lo.hi + Base * (w.hi.lo + Base * w.hi.hi))

-----------------------------------------------------------------------------
(* VM::optimize() and copyCode(), without the optimisations, which are not  *)
(* compiled in: the code with zeros behind it and the jump destinations.    *)

BadExtra == 32
Extra == 33
Pushed(byte) == IF Instruction[byte] = "PUSH" THEN Number[byte] ELSE 0
optimize(program) ==
    FoldLeft(LAMBDA s, at :
                 LET byte == s.code[at + 1]
                     next == at + 1 + Pushed(byte)
                 IN IF at # s.next THEN s
                    ELSE [next |-> next,
                          code |-> IF Instruction[byte] \in {"PUSHC", "JUMPC", "JUMPCI"}
                                   THEN [s.code EXCEPT ![at + 1] = Byte("UNDEFINED")] ELSE s.code,
                          dests |-> IF Instruction[byte] = "JUMPDEST" THEN s.dests \cup {at} ELSE s.dests],
             [next |-> 0, dests |-> {}, code |-> program \o [i \in 1 .. Extra |-> 0]],
             Upto(Len(program)))

-----------------------------------------------------------------------------
(* fetchInstruction() and adjustStack().                                   *)

(* What m_metrics and the jump table say of a byte, and m_metrics of SLOAD. *)
Entry(byte, metrics) ==
    [label |-> jumpTable[byte], number |-> Number[byte], gas |-> metrics[byte].gas,
     required |-> metrics[byte].required, change |-> metrics[byte].change, sload |-> metrics[Byte("SLOAD")].gas]

Here == code[pc + 1]
(* A byte outside the copy, which CodeIsReadInside excludes, tells nothing.  *)
fetchInstruction == row' = IF pc' < Len(code') THEN Entry(code'[pc' + 1], s_metrics[Revision]) ELSE row
Op == row.label
N == row.number
Arg(i) == stack[i + 1]

Underflows == Len(stack) < row.required
BadOverflows == ~Underflows /\ Len(stack) + row.change > StackLimit + 1
Overflows == ~Underflows /\ Len(stack) + row.change > StackLimit

\* The stack from m_SPP; a word that is new is whatever was there.
Adjusted == IF row.change > 0 THEN <<0>> \o stack ELSE SubSeq(stack, 1 - row.change, Len(stack))
Yields(v) == stack' = [Adjusted EXCEPT ![1] = v]

Starts(names) ==
    /\ status = "run" /\ Op \in names
    /\ ~Underflows /\ ~Overflows /\ ~Refused(Op, Revision)

-----------------------------------------------------------------------------
(* The gas and the memory an instruction takes.                            *)

BadCeilWords(n) == n \div 32
CeilWords(n) == (n + 31) \div 32
memNeed(offset, size) == IF size = 0 THEN 0 ELSE offset + size
gasForMem(size) == 3 * (size \div 32) + (((size \div 32) * (size \div 32)) \div QuadCoeffDiv)
Larger(m, n) == IF m > n THEN m ELSE n
Smaller(m, n) == IF m < n THEN m ELSE n

Calls4 == {"CALL", "CALLCODE", "DELEGATECALL", "STATICCALL"}
HasValue == Op \in {"CALL", "CALLCODE"}
Sizes == IF HasValue THEN 3 ELSE 2

(* What the host answers: whether the account that is called exists, the    *)
(* slot has the value already, the balance is enough.                      *)
Answers == IF Op \in Calls4 \cup {"SELFDESTRUCT", "SSTORE", "CREATE", "CREATE2"}
           THEN [exists : BOOLEAN, unchanged : BOOLEAN, rich : BOOLEAN]
           ELSE {[exists |-> TRUE, unchanged |-> TRUE, rich |-> TRUE]}

BadcallGas(host) == row.gas + (IF ~host.exists THEN 25000 ELSE 0)
callGas(host) ==
    row.gas
    + (IF Op = "CALL" /\ (Arg(2) > 0 \/ Revision < SpuriousDragon) /\ ~host.exists THEN 25000 ELSE 0)
    + (IF HasValue /\ Arg(2) > 0 THEN 9000 ELSE 0)
createGas == 32000 + (IF Op = "CREATE2" THEN 6 * CeilWords(Arg(2)) ELSE 0)
selfdestructGas(host) ==
    row.gas + (IF /\ Revision >= TangerineWhistle
                  /\ Revision = TangerineWhistle \/ host.rich
                  /\ ~host.exists
               THEN 25000 ELSE 0)
sstoreGas(host) ==
    IF host.unchanged /\ (Revision = Constantinople \/ Revision >= Istanbul) THEN row.sload ELSE 5000
expGas == 10 + (IF Revision >= SpuriousDragon THEN 50 ELSE 10) * count_significant_words(ToWord(Arg(1)))
sha3Gas == 30 + 6 * CeilWords(Arg(1))
logGas == 375 + 375 * N + 8 * Arg(1)

(* m_runGas before updateGas().                                            *)
runGas(host) ==
    CASE Op = "EXP" -> expGas
      [] Op = "SHA3" -> sha3Gas
      [] Op = "LOG" -> logGas
      [] Op \in {"CREATE", "CREATE2"} -> createGas
      [] Op \in Calls4 -> callGas(host)
      [] Op = "SELFDESTRUCT" -> selfdestructGas(host)
      [] Op = "SSTORE" -> sstoreGas(host)
      [] OTHER -> row.gas

MemoryWords == {"MLOAD", "MSTORE", "MSTORE8"}
Copies == {"CALLDATACOPY", "CODECOPY", "RETURNDATACOPY", "EXTCODECOPY"}

(* The bytes of memory it needs (for CALL the larger of the two areas), the *)
(* bytes it copies, and the words that toInt63() must let pass.             *)
need ==
    CASE Op \in {"MLOAD", "MSTORE"} -> Arg(0) + 32
      [] Op = "MSTORE8" -> Arg(0) + 1
      [] Op \in {"SHA3", "RETURN", "REVERT", "LOG"} -> memNeed(Arg(0), Arg(1))
      [] Op = "EXTCODECOPY" -> memNeed(Arg(1), Arg(3))
      [] Op \in Copies \ {"EXTCODECOPY"} -> memNeed(Arg(0), Arg(2))
      [] Op \in {"CREATE", "CREATE2"} -> memNeed(Arg(1), Arg(2))
      [] Op \in Calls4 -> Larger(memNeed(Arg(Sizes), Arg(Sizes + 1)), memNeed(Arg(Sizes + 2), Arg(Sizes + 3)))
      [] OTHER -> 0
m_copyMemSize == IF Op \notin Copies THEN 0 ELSE IF Op = "EXTCODECOPY" THEN Arg(3) ELSE Arg(2)
sizes ==
    {m_copyMemSize} \cup (IF Op \in MemoryWords THEN {Arg(0)} ELSE {need})

(* updateMem(), updateGas() and updateIOGas().                             *)
m_newMemSize == CeilWords(need) * 32
total(host) ==
    runGas(host) + 3 * CeilWords(m_copyMemSize)
    + (IF m_newMemSize > mem THEN gasForMem(m_newMemSize) - gasForMem(mem) ELSE 0)
Fits == \A size \in sizes : size <= MaxInt
Affordable(host) == Fits /\ total(host) <= gas

Pays(host) ==
    /\ Affordable(host)
    /\ gas' = gas - total(host)
    /\ mem' = Larger(mem, m_newMemSize)

Goes == pc' = pc + 1 /\ UNCHANGED <<msg, code, jumpDests, status, left>> /\ fetchInstruction

-----------------------------------------------------------------------------
Init ==
    /\ msg \in Messages
    /\ row = Entry(Byte("STOP"), s_metrics[Revision])
    /\ code = <<>> /\ jumpDests = {}
    /\ pc = 0 /\ stack = <<>> /\ gas = msg.gas /\ mem = 0 /\ ret = 0
    /\ status = "entry" /\ left = 0

initEntry ==
    /\ status = "entry" /\ status' = "run"
    /\ code' = optimize(msg.code).code /\ jumpDests' = optimize(msg.code).dests
    /\ UNCHANGED <<msg, pc, stack, gas, mem, ret, left>>
    /\ fetchInstruction

(* An exception ends the message; execute() gives its status and no gas.    *)
Fails(reason) ==
    /\ status' = reason /\ left' = 0
    /\ UNCHANGED <<msg, code, jumpDests, pc, row, stack, gas, mem, ret>>

throwBadStack ==
    /\ status = "run"
    /\ \/ Underflows /\ Fails("stack_underflow")
       \/ Overflows /\ Fails("stack_overflow")

throwBadInstruction ==
    /\ status = "run" /\ ~Underflows /\ ~Overflows /\ Refused(Op, Revision)
    /\ Fails(IF Instruction[Here] = "INVALID" THEN "invalid_instruction" ELSE "undefined_instruction")

Overruns == Op = "RETURNDATACOPY" /\ ret < Arg(1) + Arg(2)
throwBufferOverrun == Starts({"RETURNDATACOPY"}) /\ Overruns /\ Fails("invalid_memory_access")

throwOutOfGas ==
    /\ Starts(Range(jumpTable)) /\ ~Overruns
    /\ \/ \E host \in Answers : ~Affordable(host)
       \/ Op = "SSTORE" /\ Revision >= Istanbul /\ gas <= 2300
       \/ \E host \in Answers :
             Op \in Calls4 /\ Revision < TangerineWhistle /\ Affordable(host) /\ Arg(0) > gas - total(host)
    /\ Fails("out_of_gas")

-----------------------------------------------------------------------------
(* The instructions that compute.                                          *)

Binary == {"ADD", "MUL", "SUB", "DIV", "SDIV", "MOD", "SMOD", "EXP", "SIGNEXTEND", "LT", "GT", "SLT",
           "SGT", "EQ", "AND", "OR", "XOR", "BYTE", "SHL", "SHR", "SAR"}
Computes == Binary \cup {"NOT", "ISZERO", "ADDMOD", "MULMOD"}

If(condition) == IF condition THEN One256 ELSE Zero256
AllBits == not256(Zero256)
Zero(w) == w = Zero256

signExtended(n, number) ==
    LET testBit == shl256(One256, n * ByteBits + ByteBits - 1)
        mask == sub256(testBit, One256)
    IN IF n >= WordBytes - 1 THEN number
       ELSE IF ~Zero(and256(number, testBit)) THEN or256(number, not256(mask)) ELSE and256(number, mask)

shiftedRight(n, w) ==
    LET high == ~Zero(and256(w, shl256(One256, WordBits - 1)))
    IN IF n >= WordBits THEN IF high THEN AllBits ELSE Zero256
       ELSE IF high THEN or256(shr256(w, n), shl256(AllBits, WordBits - n)) ELSE shr256(w, n)

signedLess(a, b) == IF negative(a) # negative(b) THEN negative(a) ELSE less256(a, b)

Compared(op, a, b) ==
    CASE op = "ISZERO" -> Zero(a)
      [] op = "LT" -> less256(a, b)
      [] op = "GT" -> less256(b, a)
      [] op = "SLT" -> signedLess(a, b)
      [] op = "SGT" -> signedLess(b, a)
      [] op = "EQ" -> a = b

Bitwise(op, a, b) ==
    CASE op = "NOT" -> not256(a)
      [] op = "AND" -> and256(a, b)
      [] op = "OR" -> or256(a, b)
      [] op = "XOR" -> xor256(a, b)

(* n is the first word as the `unsigned' it is cast to.                    *)
Shift(op, n, w) ==
    CASE op = "BYTE" -> IF n < WordBytes
                        THEN and256(shr256(w, ByteBits * (WordBytes - 1 - n)), ToWord(2 ^ ByteBits - 1))
                        ELSE Zero256
      [] op = "SHL" -> IF n >= WordBits THEN Zero256 ELSE shl256(w, n)
      [] op = "SHR" -> IF n >= WordBits THEN Zero256 ELSE shr256(w, n)
      [] op = "SAR" -> shiftedRight(n, w)
      [] op = "SIGNEXTEND" -> signExtended(n, w)

Arithmetics(op, a, b) ==
    CASE op = "ADD" -> add256(a, b)
      [] op = "SUB" -> sub256(a, b)
      [] op = "MUL" -> mul256(a, b)
      [] op = "EXP" -> exp(a, b)
      [] op = "DIV" -> IF Zero(b) THEN Zero256 ELSE div256(a, b)
      [] op = "MOD" -> IF Zero(b) THEN Zero256 ELSE mod256(a, b)
      [] op = "SDIV" -> IF Zero(b) THEN Zero256 ELSE sdivrem(a, b).quot
      [] op = "SMOD" -> IF Zero(b) THEN Zero256 ELSE sdivrem(a, b).rem

Modular(op, a, b, c) ==
    IF Zero(c) THEN Zero256 ELSE IF op = "ADDMOD" THEN addmod(a, b, c) ELSE mulmod(a, b, c)

Word(i) == ToWord(Arg(i))
Computed ==
    CASE Op \in {"ISZERO", "LT", "GT", "SLT", "SGT", "EQ"} ->
            If(Compared(Op, Word(0), IF Op = "ISZERO" THEN Zero256 ELSE Word(1)))
      [] Op \in {"NOT", "AND", "OR", "XOR"} -> Bitwise(Op, Word(0), IF Op = "NOT" THEN Zero256 ELSE Word(1))
      [] Op \in {"BYTE", "SHL", "SHR", "SAR", "SIGNEXTEND"} -> Shift(Op, Arg(0), Word(1))
      [] Op \in {"ADDMOD", "MULMOD"} -> Modular(Op, Word(0), Word(1), Word(2))
      [] OTHER -> Arithmetics(Op, Word(0), Word(1))

Compute ==
    /\ Starts(Computes)
    /\ \E host \in Answers : Pays(host)
    /\ Yields(Number256(Computed))
    /\ Goes /\ UNCHANGED ret

-----------------------------------------------------------------------------
(* What the message, the host or the memory answers: BALANCE, SLOAD, SHA3.. *)
MessageWords == {"ADDRESS", "ORIGIN", "BALANCE", "CALLER", "CALLVALUE", "CALLDATALOAD"}
BlockWords == {"GASPRICE", "BLOCKHASH", "COINBASE", "TIMESTAMP", "NUMBER", "DIFFICULTY", "GASLIMIT", "CHAINID",
               "SELFBALANCE"}
Queries == MessageWords \cup BlockWords \cup {"EXTCODESIZE", "EXTCODEHASH", "SLOAD", "MLOAD", "SHA3"}
Query ==
    /\ Starts(Queries)
    /\ \E host \in Answers : Pays(host)
    /\ \E v \in Inputs : Yields(IF Op = "CALLDATALOAD" /\ Arg(0) >= msg.data THEN 0 ELSE v)
    /\ Goes /\ UNCHANGED ret

SizeWords == {"CALLDATASIZE", "CODESIZE", "RETURNDATASIZE"}
Tell ==
    /\ Starts(SizeWords \cup {"PC", "MSIZE", "GAS"})
    /\ \E host \in Answers :
          /\ Pays(host)
          /\ Yields((CASE Op = "CALLDATASIZE" -> msg.data
                       [] Op = "CODESIZE" -> Len(msg.code)
                       [] Op = "RETURNDATASIZE" -> ret
                       [] Op = "PC" -> pc
                       [] Op = "MSIZE" -> mem
                       [] Op = "GAS" -> gas - total(host)) % WordMod)
    /\ Goes /\ UNCHANGED ret

(* PUSH reads its bytes from m_code without a test.                        *)
Push ==
    /\ Starts({"PUSH"})
    /\ \E host \in Answers : Pays(host)
    /\ Yields(FoldLeft(LAMBDA v, i : (v * 256 + code[pc + 1 + i]) % WordMod, 0, [i \in 1 .. N |-> i]))
    /\ pc' = pc + N + 1
    /\ UNCHANGED <<msg, code, jumpDests, ret, status, left>>
    /\ fetchInstruction

Dup == Starts({"DUP"}) /\ (\E host \in Answers : Pays(host)) /\ Yields(Arg(N - 1)) /\ Goes /\ UNCHANGED ret
Swap ==
    /\ Starts({"SWAP"})
    /\ \E host \in Answers : Pays(host)
    /\ stack' = [stack EXCEPT ![1] = Arg(N), ![N + 1] = Arg(0)]
    /\ Goes /\ UNCHANGED ret

(* POP, JUMPDEST, the stores to memory and the copies into it, the logs and *)
(* SSTORE leave of what is kept here a shorter stack only.                 *)
Drops == {"POP", "JUMPDEST", "MSTORE", "MSTORE8", "LOG", "SSTORE"} \cup Copies
Drop ==
    /\ Starts(Drops) /\ ~Overruns
    /\ Op = "SSTORE" /\ Revision >= Istanbul => gas > 2300
    /\ \E host \in Answers : Pays(host)
    /\ stack' = Adjusted
    /\ Goes /\ UNCHANGED ret

(* copyDataToMemory(): the bytes it copies; zeros follow.                  *)
sizeToBeCopied(index, size, dataSize) ==
    IF index + size > dataSize THEN IF dataSize < index THEN 0 ELSE dataSize - index ELSE size

(* verifyJumpDest().                                                       *)
Jumps == Op = "JUMPI" => Arg(1) # 0
Lands == Arg(0) <= MaxInt /\ Arg(0) \in jumpDests
Jump ==
    /\ Starts({"JUMP", "JUMPI"}) /\ (Jumps => Lands)
    /\ \E host \in Answers : Pays(host)
    /\ pc' = IF Jumps THEN Arg(0) ELSE pc + 1
    /\ stack' = Adjusted
    /\ UNCHANGED <<msg, code, jumpDests, ret, status, left>>
    /\ fetchInstruction
throwBadJumpDestination ==
    /\ Starts({"JUMP", "JUMPI"}) /\ Jumps /\ ~Lands
    /\ \E host \in Answers : Affordable(host)
    /\ Fails("bad_jump_destination")

-----------------------------------------------------------------------------
(* caseCreate(), caseCall().  The host may return less than it is given.    *)

Sixtyfourth(g) == IF Revision >= TangerineWhistle THEN g - (g \div 64) ELSE g

Create ==
    /\ Starts({"CREATE", "CREATE2"})
    /\ \E host \in Answers :
          LET paid == gas - total(host)
              given == Sixtyfourth(paid)
          IN /\ Affordable(host)
             /\ \/ /\ host.rich
                   /\ \E r \in Leftovers(given) : gas' = paid - (given - r)
                   /\ \E v \in Inputs \cup {0} : Yields(v)
                   /\ ret' \in Outputs
                \/ ~host.rich /\ gas' = paid /\ Yields(0) /\ ret' = 0
    /\ mem' = Larger(mem, m_newMemSize)
    /\ Goes

Call ==
    /\ Starts(Calls4)
    /\ \E host \in Answers :
          LET paid == gas - total(host)
              valued == HasValue /\ Arg(2) > 0
              share == IF Revision >= TangerineWhistle THEN Smaller(Arg(0), Sixtyfourth(paid)) ELSE Arg(0)
              given == share + (IF valued THEN 2300 ELSE 0)
          IN /\ Affordable(host) /\ share <= paid
             /\ \/ /\ valued => host.rich
                   /\ \E r \in Leftovers(given) : gas' = paid - share + r
                   /\ \E v \in {0, 1} : Yields(v)
                   /\ ret' \in Outputs
                \/ valued /\ ~host.rich /\ gas' = paid - share + given /\ Yields(0) /\ ret' = 0
    /\ mem' = Larger(mem, m_newMemSize)
    /\ Goes

(* exec() returns, or throws RevertInstruction: execute() reports the gas.  *)
Halt ==
    /\ Starts({"STOP", "RETURN", "REVERT", "SELFDESTRUCT"})
    /\ \E host \in Answers : Pays(host)
    /\ status' = (IF Op = "REVERT" THEN "revert" ELSE "success") /\ left' = gas'
    /\ UNCHANGED <<msg, code, jumpDests, pc, row, stack, ret>>

Next ==
    \/ initEntry \/ throwBadStack \/ throwBadInstruction \/ throwBufferOverrun \/ throwOutOfGas
    \/ throwBadJumpDestination
    \/ Compute \/ Query \/ Tell \/ Push \/ Dup \/ Swap \/ Drop \/ Jump \/ Create \/ Call \/ Halt

Spec == Init /\ [][Next]_vars

-----------------------------------------------------------------------------
(***************************************************************************)
(* Properties.                                                             *)
(***************************************************************************)

Ends == {"success", "revert", "stack_underflow", "stack_overflow", "undefined_instruction", "invalid_instruction",
         "invalid_memory_access", "out_of_gas", "bad_jump_destination"}

\* Types; the stack keeps within its array, and the gas, also that of the
\* result, never exceeds what the message brought.
TypeOK ==
    /\ msg \in Messages
    /\ code \in Seq(Bytes) /\ jumpDests \subseteq Nat
    /\ pc \in Nat /\ mem \in Nat /\ ret \in Nat
    /\ stack \in Seq(0 .. WordMod - 1) /\ Len(stack) <= StackLimit
    /\ gas \in 0 .. msg.gas /\ left \in 0 .. gas
    /\ status \in {"entry", "run"} \cup Ends

(* The places of the program where an instruction starts.                  *)
InstructionStarts ==
    FoldLeft(LAMBDA starts, at : IF at \in starts THEN starts \cup {at + 1 + Pushed(msg.code[at + 1])} ELSE starts,
             {0}, Upto(Len(msg.code)))

\* The interpreter tests no bound when it reads code: it relies on the zeros
\* copyCode() appends and on the jump table.  It always stands at the start
\* of an instruction of the program (never in the data of a PUSH) or among
\* the zeros behind it, and reads no byte outside its copy.
CodeIsReadInside ==
    status = "run" =>
        /\ pc + 1 <= Len(code)
        /\ pc + 1 + Pushed(Here) <= Len(code)
        /\ pc \in InstructionStarts \/ pc > Len(msg.code)

\* An instruction that does not end the message leaves less gas than it
\* found, also a call that gives the callee a stipend on top and gets all of
\* it back: no program runs forever.
EveryStepCosts == [][status = "run" /\ status' = "run" => gas' < gas]_vars

(* The areas of memory a handler reads or writes, as <<offset, size>>.      *)
Areas ==
    CASE Op \in {"MLOAD", "MSTORE"} -> {<<Arg(0), 32>>}
      [] Op = "MSTORE8" -> {<<Arg(0), 1>>}
      [] Op \in {"SHA3", "LOG", "RETURN", "REVERT"} -> {<<Arg(0), Arg(1)>>}
      [] Op \in {"CALLDATACOPY", "CODECOPY", "RETURNDATACOPY"} -> {<<Arg(0), Arg(2)>>}
      [] Op = "EXTCODECOPY" -> {<<Arg(1), Arg(3)>>}
      [] Op \in {"CREATE", "CREATE2"} -> {<<Arg(1), Arg(2)>>}
      [] Op \in {"CALL", "CALLCODE"} -> {<<Arg(3), Arg(4)>>, <<Arg(5), Arg(6)>>}
      [] Op \in {"DELEGATECALL", "STATICCALL"} -> {<<Arg(2), Arg(3)>>, <<Arg(4), Arg(5)>>}
      [] OTHER -> {}
Source == CASE Op = "CALLDATACOPY" -> msg.data [] Op = "CODECOPY" -> Len(msg.code) [] OTHER -> ret

\* The handlers use offsets and sizes from the stack without another test: an
\* instruction that is carried out has grown the memory over every area it
\* touches (a call over both of its areas), in whole words, and copies
\* nothing from beyond the end of its source.
MemoryCoversAccess ==
    [][status = "run" /\ status' \in {"run", "success", "revert"} =>
        /\ mem' % 32 = 0 /\ mem' >= mem
        /\ \A area \in Areas : area[2] > 0 => area[1] + area[2] <= mem'
        /\ Op \in Copies \ {"EXTCODECOPY"} =>
              LET copied == sizeToBeCopied(Arg(1), Arg(2), Source)
              IN copied \in 0 .. Arg(2) /\ (copied > 0 => Arg(1) + copied <= Source)]_vars

(* Arithmetic of whole words as numbers.                                   *)
Signed(a) == IF 2 * a >= WordMod THEN a - WordMod ELSE a
Size(z) == IF z < 0 THEN -z ELSE z
SignedBy(op(_, _), a, b) == (IF a < 0 THEN -op(Size(a), Size(b)) ELSE op(Size(a), Size(b))) % WordMod
BitOf(a, i) == (a \div 2 ^ i) % 2
Bits(F(_), n) == FoldLeft(LAMBDA sum, i : sum + F(i) * 2 ^ i, 0, Upto(n))
Power(a, b) == FoldLeft(LAMBDA p, i : (p * a) % WordMod, 1, Upto(b))
Reference(op, a, b, c) ==
    CASE op = "ADD" -> (a + b) % WordMod
      [] op = "SUB" -> (a - b) % WordMod
      [] op = "MUL" -> (a * b) % WordMod
      [] op = "DIV" -> IF b = 0 THEN 0 ELSE a \div b
      [] op = "MOD" -> IF b = 0 THEN 0 ELSE a % b
      [] op = "SDIV" -> IF b = 0 THEN 0
                        ELSE SignedBy(LAMBDA x, y : IF Signed(b) < 0 THEN -(x \div y) ELSE x \div y, Signed(a), Signed(b))
      [] op = "SMOD" -> IF b = 0 THEN 0 ELSE SignedBy(LAMBDA x, y : x % y, Signed(a), Signed(b))
      [] op = "EXP" -> Power(a, b)
      [] op = "ADDMOD" -> IF c = 0 THEN 0 ELSE (a + b) % c
      [] op = "MULMOD" -> IF c = 0 THEN 0 ELSE (a * b) % c
      [] op = "LT" -> Bool(a < b)
      [] op = "GT" -> Bool(a > b)
      [] op = "SLT" -> Bool(Signed(a) < Signed(b))
      [] op = "SGT" -> Bool(Signed(a) > Signed(b))
      [] op = "EQ" -> Bool(a = b)
      [] op = "ISZERO" -> Bool(a = 0)
      [] op = "NOT" -> WordMod - 1 - a
      [] op = "AND" -> Bits(LAMBDA i : BitOf(a, i) * BitOf(b, i), WordBits)
      [] op = "OR" -> Bits(LAMBDA i : Bool(BitOf(a, i) + BitOf(b, i) > 0), WordBits)
      [] op = "XOR" -> Bits(LAMBDA i : (BitOf(a, i) + BitOf(b, i)) % 2, WordBits)
      [] op = "BYTE" -> Bits(LAMBDA i : IF a < WordBytes THEN BitOf(b, ByteBits * (WordBytes - 1 - a) + i) ELSE 0, ByteBits)
      [] op = "SHL" -> Bits(LAMBDA i : IF i < a THEN 0 ELSE BitOf(b, i - a), WordBits)
      [] op = "SHR" -> Bits(LAMBDA i : IF i + a < WordBits THEN BitOf(b, i + a) ELSE 0, WordBits)
      [] op = "SAR" -> Bits(LAMBDA i : BitOf(b, IF i + a < WordBits THEN i + a ELSE WordBits - 1), WordBits)
      [] op = "SIGNEXTEND" ->
            Bits(LAMBDA i : BitOf(b, IF a < WordBytes /\ i >= ByteBits * (a + 1) THEN ByteBits * (a + 1) - 1 ELSE i), WordBits)

\* The word an arithmetic, logic or shift instruction leaves on the stack,
\* computed limb by limb with carries, borrows, estimated digits and
\* corrections, is the one the instruction is defined to give, for numbers
\* modulo 2^WordBits.
ResultIsExact ==
    [][status = "run" /\ status' = "run" /\ Op \in Computes =>
        stack'[1] = Reference(Op, Arg(0), IF row.required > 1 THEN Arg(1) ELSE 0,
                              IF row.required > 2 THEN Arg(2) ELSE 0)]_vars

\* SHA3 hashes with unrolled rounds, tables of lanes, rotations and constants,
\* and pads word by word.  For as many bytes as it is asked to hash, whether
\* they end in a word, on its edge, or fill a block, the result is Keccak.
HashIsKeccak ==
    status = "run" /\ Op = "SHA3" /\ Len(stack) >= 2 =>
        LET data == SubSeq(Contents, Arg(0) + 1, Arg(0) + Arg(1))
        IN ethash_keccak256(data) = Keccak256(data)

\* The bounds of the stack and the gas come from one table, the code that
\* runs from another, the revisions an instruction is refused in from tests
\* in its handler.  They agree, for the byte at hand and in every revision:
\* what a table lists is not refused, what is not refused has a row, and the
\* row requires all the words the handler reads.
TablesAgree ==
    status = "run" =>
        \A rev \in Revisions :
            IF Refused(Op, rev) THEN s_metrics[rev][Here] = Undefined
            ELSE /\ Reads(Here) <= s_metrics[rev][Here].required
                 /\ Op # "STOP" => s_metrics[rev][Here] # Undefined
==============================================================================
