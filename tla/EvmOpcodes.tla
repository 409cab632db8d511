----------------------------- MODULE EvmOpcodes -----------------------------
(***************************************************************************)
(* The instruction set of the EVM interpreter, in the four places the code  *)
(* keeps it: the opcode numbers (libevm/Instruction.h), the tables of gas   *)
(* and stack use per revision (evmc/instruction_metrics.c), the table of    *)
(* labels an instruction is dispatched by (VMConfig.h) and the instructions *)
(* each label refuses (the cases of VM.cpp).                               *)
(*                                                                         *)
(* An instruction is known by its name; PUSHn, DUPn, SWAPn and LOGn by the  *)
(* name without the n, which is the Number of the byte.  The operator named *)
(* Bad... is a faulty variant; no operator uses it.                        *)
(***************************************************************************)
EXTENDS Integers, Sequences

Bytes == 0 .. 255
None == "undefined"

\* A row of a table that starts at a byte, and rows put together.
Row(first, names) == [b \in first .. first + Len(names) - 1 |-> names[b - first + 1]]
f ++ g == [x \in DOMAIN f \cup DOMAIN g |-> IF x \in DOMAIN f THEN f[x] ELSE g[x]]
Many(first, name, count) == [b \in first .. first + count - 1 |-> name]

\* enum class Instruction (and evmc_opcode, which agrees with it).
Arithmetic == Row(0, <<"STOP", "ADD", "MUL", "SUB", "DIV", "SDIV", "MOD", "SMOD", "ADDMOD", "MULMOD", "EXP", "SIGNEXTEND">>)
Comparison == Row(16, <<"LT", "GT", "SLT", "SGT", "EQ", "ISZERO", "AND", "OR", "XOR", "NOT", "BYTE", "SHL", "SHR", "SAR">>)
Context == Row(32, <<"SHA3">>)
    ++ Row(48, <<"ADDRESS", "BALANCE", "ORIGIN", "CALLER", "CALLVALUE", "CALLDATALOAD", "CALLDATASIZE", "CALLDATACOPY",
                 "CODESIZE", "CODECOPY", "GASPRICE", "EXTCODESIZE", "EXTCODECOPY", "RETURNDATASIZE", "RETURNDATACOPY",
                 "EXTCODEHASH", "BLOCKHASH", "COINBASE", "TIMESTAMP", "NUMBER", "DIFFICULTY", "GASLIMIT", "CHAINID",
                 "SELFBALANCE">>)
Control == Row(80, <<"POP", "MLOAD", "MSTORE", "MSTORE8", "SLOAD", "SSTORE", "JUMP", "JUMPI", "PC", "MSIZE", "GAS", "JUMPDEST">>)
StackOps == Many(96, "PUSH", 32) ++ Many(128, "DUP", 16) ++ Many(144, "SWAP", 16) ++ Many(160, "LOG", 5)
Synthetic == Row(172, <<"PUSHC", "JUMPC", "JUMPCI", "UNDEFINED">>)
Extensions == Row(176, <<"JUMPTO", "JUMPIF", "JUMPSUB", "JUMPV", "JUMPSUBV", "BEGINSUB", "BEGINDATA", "RETURNSUB", "PUTLOCAL", "GETLOCAL">>)
    ++ Row(193, <<"XADD", "XMUL", "XSUB", "XDIV", "XSDIV", "XMOD", "XSMOD">>)
    ++ Row(208, <<"XLT", "XGT", "XSLT", "XSGT", "XEQ", "XISZERO", "XAND", "XOOR", "XXOR", "XNOT">>)
    ++ Row(219, <<"XSHL", "XSHR", "XSAR", "XROL", "XROR", "XPUSH", "XMLOAD", "XMSTORE">>)
    ++ Row(228, <<"XSLOAD", "XSSTORE", "XVTOWIDE", "XWIDETOV", "XGET", "XPUT", "XSWIZZLE", "XSHUFFLE">>)
Calls == Row(240, <<"CREATE", "CALL", "CALLCODE", "RETURN", "DELEGATECALL", "CREATE2">>)
    ++ Row(250, <<"STATICCALL">>) ++ Row(253, <<"REVERT", "INVALID", "SELFDESTRUCT">>)

Rest(name) == [b \in Bytes |-> name]
Instruction == Arithmetic ++ Comparison ++ Context ++ Control ++ StackOps ++ Synthetic ++ Extensions ++ Calls ++ Rest(None)
Number == [b \in Bytes |-> IF Instruction[b] = "PUSH" THEN b - 95
                           ELSE IF Instruction[b] = "DUP" THEN b - 127
                           ELSE IF Instruction[b] = "SWAP" THEN b - 143 ELSE b - 160]

-----------------------------------------------------------------------------
(* The revisions, EVMC_FRONTIER first, and the tables of metrics.          *)

Frontier == 0
Homestead == 1
TangerineWhistle == 2
SpuriousDragon == 3
Byzantium == 4
Constantinople == 5
Petersburg == 6
Istanbul == 7
Berlin == 8
Revisions == Frontier .. Berlin

(* A row is the static gas, the stack height required and its change.       *)
Metric(cost, required, change) == [gas |-> cost, required |-> required, change |-> change]
Undefined == Metric(0, 0, 0)

\* The row of a name, and of the instructions with a number n.
LowMetric(name) ==
    CASE name \in {"ADDRESS", "ORIGIN", "CALLER", "CALLVALUE", "CALLDATASIZE", "CODESIZE", "GASPRICE",
                   "RETURNDATASIZE", "COINBASE", "TIMESTAMP", "NUMBER", "DIFFICULTY", "GASLIMIT", "PC",
                   "MSIZE", "GAS"} -> Metric(2, 0, 1)
      [] name = "POP" -> Metric(2, 1, -1)
      [] name = "JUMPDEST" -> Metric(1, 0, 0)
      [] name \in {"ADD", "SUB", "LT", "GT", "SLT", "SGT", "EQ", "AND", "OR", "XOR", "BYTE", "SHL", "SHR",
                   "SAR"} -> Metric(3, 2, -1)
      [] name \in {"ISZERO", "NOT", "CALLDATALOAD", "MLOAD"} -> Metric(3, 1, 0)
      [] name \in {"MSTORE", "MSTORE8"} -> Metric(3, 2, -2)
      [] name \in {"CALLDATACOPY", "CODECOPY", "RETURNDATACOPY"} -> Metric(3, 3, -3)
      [] name = "PUSH" -> Metric(3, 0, 1)
      [] name \in {"MUL", "DIV", "SDIV", "MOD", "SMOD", "SIGNEXTEND"} -> Metric(5, 2, -1)
      [] name \in {"ADDMOD", "MULMOD"} -> Metric(8, 3, -2)
      [] name = "JUMP" -> Metric(8, 1, -1)
      [] name = "EXP" -> Metric(10, 2, -1)
      [] name = "JUMPI" -> Metric(10, 2, -2)
      [] name = "BLOCKHASH" -> Metric(20, 1, 0)
      [] name = "SHA3" -> Metric(30, 2, -1)
      [] name = "SLOAD" -> Metric(200, 1, 0)
      [] name = "SSTORE" -> Metric(0, 2, -2)
      [] name \in {"BALANCE", "EXTCODEHASH"} -> Metric(400, 1, 0)
      [] name = "EXTCODESIZE" -> Metric(700, 1, 0)
      [] name = "EXTCODECOPY" -> Metric(700, 4, -4)
      [] OTHER -> Undefined                         \* STOP among them
HighMetric(name, n) ==
    CASE name = "DUP" -> Metric(3, n, 1)
      [] name = "SWAP" -> Metric(3, n + 1, 0)
      [] name = "LOG" -> Metric((n + 1) * 375, n + 2, -(n + 2))
      [] name = "CREATE" -> Metric(32000, 3, -2)
      [] name = "CREATE2" -> Metric(32000, 4, -3)
      [] name \in {"CALL", "CALLCODE"} -> Metric(700, 7, -6)
      [] name \in {"DELEGATECALL", "STATICCALL"} -> Metric(700, 6, -5)
      [] name \in {"RETURN", "REVERT"} -> Metric(0, 2, -2)
      [] name = "SELFDESTRUCT" -> Metric(5000, 1, -1)
      [] OTHER -> Undefined                         \* INVALID among them

ConstantinopleLow == [b \in 0 .. 127 |-> LowMetric(Instruction[b])]
ConstantinopleHigh == [b \in 128 .. 255 |-> HighMetric(Instruction[b], Number[b])]

IstanbulLow ==
    [b \in 0 .. 127 |->
        CASE Instruction[b] \in {"BALANCE", "EXTCODEHASH"} -> Metric(700, 1, 0)
          [] Instruction[b] = "SLOAD" -> Metric(800, 1, 0)
          [] Instruction[b] = "CHAINID" -> Metric(2, 0, 1)
          [] Instruction[b] = "SELFBALANCE" -> Metric(5, 0, 1)
          [] OTHER -> ConstantinopleLow[b]]
IstanbulHigh == ConstantinopleHigh

\* The rows of a table without those of the names.
Without(names, table) == [b \in DOMAIN table |-> IF Instruction[b] \in names THEN Undefined ELSE table[b]]

ByzantiumLow == Without({"SHL", "SHR", "SAR", "EXTCODEHASH"}, ConstantinopleLow)
ByzantiumHigh == Without({"CREATE2"}, ConstantinopleHigh)

TangerineLow == Without({"RETURNDATASIZE", "RETURNDATACOPY"}, ByzantiumLow)
TangerineHigh == Without({"STATICCALL", "REVERT"}, ByzantiumHigh)

HomesteadLow ==
    [b \in 0 .. 127 |->
        CASE Instruction[b] \in {"BALANCE", "EXTCODESIZE"} -> Metric(20, 1, 0)
          [] Instruction[b] = "EXTCODECOPY" -> Metric(20, 4, -4)
          [] Instruction[b] = "SLOAD" -> Metric(50, 1, 0)
          [] OTHER -> TangerineLow[b]]
HomesteadHigh ==
    [b \in 128 .. 255 |->
        CASE Instruction[b] \in {"CALL", "CALLCODE"} -> Metric(40, 7, -6)
          [] Instruction[b] = "DELEGATECALL" -> Metric(40, 6, -5)
          [] Instruction[b] = "SELFDESTRUCT" -> Metric(0, 1, -1)
          [] OTHER -> TangerineHigh[b]]

FrontierLow == HomesteadLow
FrontierHigh == Without({"DELEGATECALL"}, HomesteadHigh)

(* evmc_get_instruction_metrics_table().                                   *)
MetricsTable(rev) ==
    CASE rev \in {Istanbul, Berlin} -> IstanbulLow ++ IstanbulHigh
      [] rev \in {Petersburg, Constantinople} -> ConstantinopleLow ++ ConstantinopleHigh
      [] rev = Byzantium -> ByzantiumLow ++ ByzantiumHigh
      [] rev \in {SpuriousDragon, TangerineWhistle} -> TangerineLow ++ TangerineHigh
      [] rev = Homestead -> HomesteadLow ++ HomesteadHigh
      [] rev = Frontier -> FrontierLow ++ FrontierHigh

(* VM::initMetrics(), with the opcodes of the interpreter's own.            *)
Byte(name) == CHOOSE b \in Bytes : Instruction[b] = name
s_metrics ==
    LET filled(table) == [table EXCEPT ![Byte("PUSHC")] = table[96], ![Byte("JUMPC")] = table[Byte("JUMP")],
                                       ![Byte("JUMPCI")] = table[Byte("JUMPI")]]
    IN [rev \in Revisions |-> filled(MetricsTable(rev))]

-----------------------------------------------------------------------------
(* Dispatch.                                                               *)

(* jumpTable: a byte that is no instruction has the label INVALID.          *)
jumpTable ==
    [b \in Bytes |-> IF b = 92 THEN "BEGINDATA" ELSE IF b = 93 THEN "BEGINSUB"
                     ELSE IF Instruction[b] \in {None, "UNDEFINED"} THEN "INVALID" ELSE Instruction[b]]

(* The labels that throw BadInstruction in every revision, those of the     *)
(* optimisations and extensions that are not compiled in, and in the early  *)
(* ones.                                                                   *)
NotOptimized == {Instruction[b] : b \in DOMAIN Synthetic}
BadLabels == {"INVALID"} \cup NotOptimized \cup {Instruction[b] : b \in DOMAIN Extensions}
BadSince(label) ==
    IF label \in {"CREATE2", "SHL", "SHR", "SAR", "EXTCODEHASH"} THEN Constantinople
    ELSE IF label \in {"STATICCALL", "REVERT", "RETURNDATASIZE", "RETURNDATACOPY"} THEN Byzantium
    ELSE IF label = "DELEGATECALL" THEN Homestead ELSE Frontier
Since(label) ==
    IF label \in {"CREATE2", "SHL", "SHR", "SAR", "EXTCODEHASH"} THEN Constantinople
    ELSE IF label \in {"STATICCALL", "REVERT", "RETURNDATASIZE", "RETURNDATACOPY"} THEN Byzantium
    ELSE IF label \in {"CHAINID", "SELFBALANCE"} THEN Istanbul
    ELSE IF label = "DELEGATECALL" THEN Homestead ELSE Frontier
Refused(label, rev) == label \in BadLabels \/ rev < Since(label)

(* The words of the stack a handler reads (m_SP[0] to m_SP[Reads - 1]) and  *)
(* whether it writes m_SPP[0].                                             *)
Reads(b) ==
    CASE jumpTable[b] \in {"CALL", "CALLCODE"} -> 7
      [] jumpTable[b] \in {"DELEGATECALL", "STATICCALL"} -> 6
      [] jumpTable[b] \in {"CREATE2", "EXTCODECOPY"} -> 4
      [] jumpTable[b] \in {"CREATE", "ADDMOD", "MULMOD", "CALLDATACOPY", "CODECOPY", "RETURNDATACOPY"} -> 3
      [] jumpTable[b] = "DUP" -> Number[b]
      [] jumpTable[b] = "SWAP" -> Number[b] + 1
      [] jumpTable[b] = "LOG" -> Number[b] + 2
      [] jumpTable[b] \in {"ADD", "MUL", "SUB", "DIV", "SDIV", "MOD", "SMOD", "EXP", "SIGNEXTEND", "LT", "GT",
                           "SLT", "SGT", "EQ", "AND", "OR", "XOR", "BYTE", "SHL", "SHR", "SAR", "SHA3",
                           "MSTORE", "MSTORE8", "SSTORE", "JUMPI", "RETURN", "REVERT"} -> 2
      [] jumpTable[b] \in {"ISZERO", "NOT", "BALANCE", "CALLDATALOAD", "EXTCODESIZE", "EXTCODEHASH",
                           "BLOCKHASH", "POP", "MLOAD", "SLOAD", "JUMP", "SELFDESTRUCT"} -> 1
      [] OTHER -> 0
=============================================================================
