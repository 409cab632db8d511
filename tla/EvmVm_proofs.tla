----------------------------- MODULE EvmVm_proofs -----------------------------
(***************************************************************************)
(* Proofs about EvmVm for every message, revision, size of words and of the *)
(* stack, in four parts:                                                   *)
(*   - the tables of opcodes agree about every instruction that is met;    *)
(*   - the interpreter reads no byte outside its copy of the code;         *)
(*   - what EvmWords computes, limb by limb, is a word;                    *)
(*   - so the stack holds words, within its array, every instruction costs *)
(*     gas, and the memory covers what an instruction touches.             *)
(***************************************************************************)
EXTENDS EvmVm, FoldLemmas, FiniteSetTheorems, SequenceTheorems

-----------------------------------------------------------------------------
(* The bytes of the instructions.                                          *)

SyntheticNames == {"PUSHC", "JUMPC", "JUMPCI", "UNDEFINED"}
ExtensionNames ==
    {"JUMPTO", "JUMPIF", "JUMPSUB", "JUMPV", "JUMPSUBV", "BEGINSUB", "BEGINDATA", "RETURNSUB", "PUTLOCAL",
     "GETLOCAL", "XADD", "XMUL", "XSUB", "XDIV", "XSDIV", "XMOD", "XSMOD", "XLT", "XGT", "XSLT", "XSGT", "XEQ",
     "XISZERO", "XAND", "XOOR", "XXOR", "XNOT", "XSHL", "XSHR", "XSAR", "XROL", "XROR", "XPUSH", "XMLOAD",
     "XMSTORE", "XSLOAD", "XSSTORE", "XVTOWIDE", "XWIDETOV", "XGET", "XPUT", "XSWIZZLE", "XSHUFFLE"}
LowNames ==
    {"STOP", "ADD", "MUL", "SUB", "DIV", "SDIV", "MOD", "SMOD", "ADDMOD", "MULMOD", "EXP", "SIGNEXTEND",
     "LT", "GT", "SLT", "SGT", "EQ", "ISZERO", "AND", "OR", "XOR", "NOT", "BYTE", "SHL", "SHR", "SAR", "SHA3",
     "ADDRESS", "BALANCE", "ORIGIN", "CALLER", "CALLVALUE", "CALLDATALOAD", "CALLDATASIZE", "CALLDATACOPY",
     "CODESIZE", "CODECOPY", "GASPRICE", "EXTCODESIZE", "EXTCODECOPY", "RETURNDATASIZE", "RETURNDATACOPY",
     "EXTCODEHASH", "BLOCKHASH", "COINBASE", "TIMESTAMP", "NUMBER", "DIFFICULTY", "GASLIMIT", "CHAINID",
     "SELFBALANCE", "POP", "MLOAD", "MSTORE", "MSTORE8", "SLOAD", "SSTORE", "JUMP", "JUMPI", "PC", "MSIZE", "GAS",
     "JUMPDEST", "PUSH"}
HighNames ==
    {"DUP", "SWAP", "LOG", "CREATE", "CALL", "CALLCODE", "RETURN", "DELEGATECALL", "CREATE2", "STATICCALL",
     "REVERT", "INVALID", "SELFDESTRUCT"}

LEMMA LowRows ==
    /\ DOMAIN Arithmetic = 0 .. 11
    /\ \A b \in 0 .. 11 : Arithmetic[b] \in LowNames \ {"PUSH", "JUMP", "JUMPI"}
    /\ DOMAIN Comparison = 16 .. 29
    /\ \A b \in 16 .. 29 : Comparison[b] \in LowNames \ {"PUSH", "JUMP", "JUMPI"}
    /\ DOMAIN Context = {32} \cup 48 .. 71
    /\ \A b \in {32} \cup 48 .. 71 : Context[b] \in LowNames \ {"PUSH", "JUMP", "JUMPI"}
    /\ DOMAIN Control = 80 .. 91
    /\ \A b \in 80 .. 91 : /\ Control[b] \in LowNames \ {"PUSH"}
                            /\ (Control[b] = "JUMP" <=> b = 86)
                            /\ (Control[b] = "JUMPI" <=> b = 87)
    /\ Arithmetic[0] = "STOP"
<1>1. /\ DOMAIN Arithmetic = 0 .. 11 /\ Arithmetic[0] = "STOP"
      /\ \A b \in 0 .. 11 : Arithmetic[b] \in LowNames \ {"PUSH", "JUMP", "JUMPI"}
    BY DEF Arithmetic, Row, LowNames
<1>2. /\ DOMAIN Comparison = 16 .. 29
      /\ \A b \in 16 .. 29 : Comparison[b] \in LowNames \ {"PUSH", "JUMP", "JUMPI"}
    BY DEF Comparison, Row, LowNames
<1>3. /\ DOMAIN Context = {32} \cup 48 .. 71
      /\ \A b \in {32} \cup 48 .. 71 : Context[b] \in LowNames \ {"PUSH", "JUMP", "JUMPI"}
    BY DEF Context, Row, ++, LowNames
<1>4. /\ DOMAIN Control = 80 .. 91
      /\ \A b \in 80 .. 91 : /\ Control[b] \in LowNames \ {"PUSH"}
                              /\ (Control[b] = "JUMP" <=> b = 86)
                              /\ (Control[b] = "JUMPI" <=> b = 87)
    BY DEF Control, Row, LowNames
<1> QED
    BY <1>1, <1>2, <1>3, <1>4

LEMMA HighRows ==
    /\ DOMAIN StackOps = 96 .. 164
    /\ \A b \in 96 .. 127 : StackOps[b] = "PUSH"
    /\ \A b \in 128 .. 164 : StackOps[b] \in {"DUP", "SWAP", "LOG"}
    /\ \A b \in 128 .. 164 : StackOps[b] = IF b < 144 THEN "DUP" ELSE IF b < 160 THEN "SWAP" ELSE "LOG"
    /\ DOMAIN Calls = 240 .. 245 \cup {250} \cup 253 .. 255
    /\ \A b \in DOMAIN Calls : Calls[b] \in HighNames
<1>1. /\ DOMAIN StackOps = 96 .. 164
      /\ \A b \in 96 .. 127 : StackOps[b] = "PUSH"
      /\ \A b \in 128 .. 164 : StackOps[b] \in {"DUP", "SWAP", "LOG"}
      /\ \A b \in 128 .. 164 : StackOps[b] = IF b < 144 THEN "DUP" ELSE IF b < 160 THEN "SWAP" ELSE "LOG"
    <2> DEFINE pushes == Many(96, "PUSH", 32)
               dups == Many(128, "DUP", 16)
               swaps == Many(144, "SWAP", 16)
               logs == Many(160, "LOG", 5)
               d2 == pushes ++ dups
               d3 == d2 ++ swaps
               d4 == d3 ++ logs
    <2>1. DOMAIN pushes = 96 .. 127 /\ \A b \in 96 .. 127 : pushes[b] = "PUSH"
        BY DEF Many
    <2>2. DOMAIN dups = 128 .. 143 /\ \A b \in 128 .. 143 : dups[b] = "DUP"
        BY DEF Many
    <2>3. DOMAIN swaps = 144 .. 159 /\ \A b \in 144 .. 159 : swaps[b] = "SWAP"
        BY DEF Many
    <2>4. DOMAIN logs = 160 .. 164 /\ \A b \in 160 .. 164 : logs[b] = "LOG"
        BY DEF Many
    <2>5. StackOps = d4
        BY DEF StackOps
    <2> HIDE DEF pushes, dups, swaps, logs
    <2>6. DOMAIN d2 = 96 .. 143 /\ \A b \in 96 .. 143 : d2[b] = IF b < 128 THEN "PUSH" ELSE "DUP"
        BY <2>1, <2>2 DEF ++
    <2> HIDE DEF d2
    <2>7. DOMAIN d3 = 96 .. 159 /\ \A b \in 96 .. 159 : d3[b] = IF b < 144 THEN d2[b] ELSE "SWAP"
        BY <2>3, <2>6 DEF ++
    <2> HIDE DEF d3
    <2>8. DOMAIN d4 = 96 .. 164 /\ \A b \in 96 .. 164 : d4[b] = IF b < 160 THEN d3[b] ELSE "LOG"
        BY <2>4, <2>7 DEF ++
    <2> HIDE DEF d4
    <2>9. \A b \in 96 .. 164 : d4[b] = IF b < 128 THEN "PUSH" ELSE IF b < 144 THEN "DUP"
                                     ELSE IF b < 160 THEN "SWAP" ELSE "LOG"
        BY <2>6, <2>7, <2>8
    <2> QED
        BY <2>5, <2>8, <2>9
<1>2. /\ DOMAIN Calls = 240 .. 245 \cup {250} \cup 253 .. 255
      /\ \A b \in 240 .. 245 \cup {250} \cup 253 .. 255 : Calls[b] \in HighNames
    BY DEF Calls, Row, ++, HighNames
<1> QED
    BY <1>1, <1>2

ExtensionBytes == 176 .. 185 \cup 193 .. 199 \cup 208 .. 217 \cup 219 .. 226 \cup 228 .. 235

LEMMA OtherRows ==
    /\ DOMAIN Synthetic = 172 .. 175
    /\ Synthetic[172] = "PUSHC" /\ Synthetic[173] = "JUMPC" /\ Synthetic[174] = "JUMPCI"
    /\ Synthetic[175] = "UNDEFINED"
    /\ DOMAIN Extensions = ExtensionBytes
    /\ \A b \in ExtensionBytes : Extensions[b] \in ExtensionNames
<1>1. /\ DOMAIN Synthetic = 172 .. 175
      /\ Synthetic[172] = "PUSHC" /\ Synthetic[173] = "JUMPC" /\ Synthetic[174] = "JUMPCI"
      /\ Synthetic[175] = "UNDEFINED"
    BY DEF Synthetic, Row
<1>2. /\ DOMAIN Extensions = ExtensionBytes
      /\ \A b \in ExtensionBytes : Extensions[b] \in ExtensionNames
    <2> DEFINE e1 == Row(176, <<"JUMPTO", "JUMPIF", "JUMPSUB", "JUMPV", "JUMPSUBV", "BEGINSUB", "BEGINDATA",
                               "RETURNSUB", "PUTLOCAL", "GETLOCAL">>)
               e2 == Row(193, <<"XADD", "XMUL", "XSUB", "XDIV", "XSDIV", "XMOD", "XSMOD">>)
               e3 == Row(208, <<"XLT", "XGT", "XSLT", "XSGT", "XEQ", "XISZERO", "XAND", "XOOR", "XXOR", "XNOT">>)
               e4 == Row(219, <<"XSHL", "XSHR", "XSAR", "XROL", "XROR", "XPUSH", "XMLOAD", "XMSTORE">>)
               e5 == Row(228, <<"XSLOAD", "XSSTORE", "XVTOWIDE", "XWIDETOV", "XGET", "XPUT", "XSWIZZLE", "XSHUFFLE">>)
    <2>1. DOMAIN e1 = 176 .. 185 /\ \A b \in 176 .. 185 : e1[b] \in ExtensionNames
        BY DEF Row, ExtensionNames
    <2>2. DOMAIN e2 = 193 .. 199 /\ \A b \in 193 .. 199 : e2[b] \in ExtensionNames
        BY DEF Row, ExtensionNames
    <2>3. DOMAIN e3 = 208 .. 217 /\ \A b \in 208 .. 217 : e3[b] \in ExtensionNames
        BY DEF Row, ExtensionNames
    <2>4. DOMAIN e4 = 219 .. 226 /\ \A b \in 219 .. 226 : e4[b] \in ExtensionNames
        BY DEF Row, ExtensionNames
    <2>5. DOMAIN e5 = 228 .. 235 /\ \A b \in 228 .. 235 : e5[b] \in ExtensionNames
        BY DEF Row, ExtensionNames
    <2>6. Extensions = e1 ++ e2 ++ e3 ++ e4 ++ e5
        BY DEF Extensions
    <2> HIDE DEF e1, e2, e3, e4, e5
    <2>7. DOMAIN Extensions = DOMAIN e1 \cup DOMAIN e2 \cup DOMAIN e3 \cup DOMAIN e4 \cup DOMAIN e5
        BY <2>6 DEF ++
    <2>8. \A b \in ExtensionBytes : Extensions[b] \in ExtensionNames
        BY <2>1, <2>2, <2>3, <2>4, <2>5, <2>6 DEF ExtensionBytes, ++
    <2> QED
        BY <2>1, <2>2, <2>3, <2>4, <2>5, <2>7, <2>8 DEF ExtensionBytes
<1> QED
    BY <1>1, <1>2

LEMMA InstructionRows ==
    /\ DOMAIN Instruction = Bytes
    /\ \A b \in Bytes :
          Instruction[b] = IF b \in 0 .. 11 THEN Arithmetic[b]
                           ELSE IF b \in 16 .. 29 THEN Comparison[b]
                           ELSE IF b \in {32} \cup 48 .. 71 THEN Context[b]
                           ELSE IF b \in 80 .. 91 THEN Control[b]
                           ELSE IF b \in 96 .. 164 THEN StackOps[b]
                           ELSE IF b \in 172 .. 175 THEN Synthetic[b]
                           ELSE IF b \in ExtensionBytes THEN Extensions[b]
                           ELSE IF b \in DOMAIN Calls THEN Calls[b]
                           ELSE None
<1> DEFINE C1 == 0 .. 11 \cup 16 .. 29
           C2 == C1 \cup ({32} \cup 48 .. 71)
           C3 == C2 \cup 80 .. 91
           C4 == C3 \cup 96 .. 164
           C5 == C4 \cup 172 .. 175
           C6 == C5 \cup ExtensionBytes
           C7 == C6 \cup DOMAIN Calls
           f1 == Arithmetic ++ Comparison
           f2 == f1 ++ Context
           f3 == f2 ++ Control
           f4 == f3 ++ StackOps
           f5 == f4 ++ Synthetic
           f6 == f5 ++ Extensions
           f7 == f6 ++ Calls
           f8 == f7 ++ Rest(None)
<1>3. Instruction = f8
    BY DEF Instruction
<1>4. DOMAIN f1 = C1 /\ \A b \in C1 : f1[b] = IF b \in 0 .. 11 THEN Arithmetic[b] ELSE Comparison[b]
    BY LowRows DEF ++
<1> HIDE DEF f1, C1
<1>5. DOMAIN f2 = C2 /\ \A b \in C2 : f2[b] = IF b \in C1 THEN f1[b] ELSE Context[b]
    BY <1>4, LowRows DEF ++
<1> HIDE DEF f2, C2
<1>6. DOMAIN f3 = C3 /\ \A b \in C3 : f3[b] = IF b \in C2 THEN f2[b] ELSE Control[b]
    BY <1>5, LowRows DEF ++
<1> HIDE DEF f3, C3
<1>7. DOMAIN f4 = C4 /\ \A b \in C4 : f4[b] = IF b \in C3 THEN f3[b] ELSE StackOps[b]
    BY <1>6, HighRows DEF ++
<1> HIDE DEF f4, C4
<1>8. DOMAIN f5 = C5 /\ \A b \in C5 : f5[b] = IF b \in C4 THEN f4[b] ELSE Synthetic[b]
    BY <1>7, OtherRows DEF ++
<1> HIDE DEF f5, C5
<1>9. DOMAIN f6 = C6 /\ \A b \in C6 : f6[b] = IF b \in C5 THEN f5[b] ELSE Extensions[b]
    BY <1>8, OtherRows DEF ++
<1> HIDE DEF f6, C6
<1>10. DOMAIN f7 = C7 /\ \A b \in C7 : f7[b] = IF b \in C6 THEN f6[b] ELSE Calls[b]
    BY <1>9 DEF ++
<1> HIDE DEF f7
<1>11. C7 \subseteq Bytes
    BY HighRows DEF C1, C2, C3, C4, C5, C6, Bytes, ExtensionBytes
<1> HIDE DEF C7
<1>12. DOMAIN f8 = Bytes /\ \A b \in Bytes : f8[b] = IF b \in C7 THEN f7[b] ELSE None
    BY <1>10, <1>11 DEF ++, Rest
<1> HIDE DEF f8
<1>13. C1 \subseteq C2 /\ C2 \subseteq C3 /\ C3 \subseteq C4 /\ C4 \subseteq C5 /\ C5 \subseteq C6 /\ C6 \subseteq C7
    BY DEF C2, C3, C4, C5, C6, C7
<1>14. \A b \in Bytes :
          Instruction[b] = IF b \in 0 .. 11 THEN Arithmetic[b]
                           ELSE IF b \in C1 THEN Comparison[b]
                           ELSE IF b \in C2 THEN Context[b]
                           ELSE IF b \in C3 THEN Control[b]
                           ELSE IF b \in C4 THEN StackOps[b]
                           ELSE IF b \in C5 THEN Synthetic[b]
                           ELSE IF b \in C6 THEN Extensions[b]
                           ELSE IF b \in C7 THEN Calls[b]
                           ELSE None
    <2> SUFFICES ASSUME NEW b \in Bytes
                 PROVE  Instruction[b] = IF b \in 0 .. 11 THEN Arithmetic[b]
                                         ELSE IF b \in C1 THEN Comparison[b]
                                         ELSE IF b \in C2 THEN Context[b]
                                         ELSE IF b \in C3 THEN Control[b]
                                         ELSE IF b \in C4 THEN StackOps[b]
                                         ELSE IF b \in C5 THEN Synthetic[b]
                                         ELSE IF b \in C6 THEN Extensions[b]
                                         ELSE IF b \in C7 THEN Calls[b]
                                         ELSE None
        OBVIOUS
    <2>1. b \in 0 .. 11 => b \in C1
        BY DEF C1
    <2>2. Instruction[b] = IF b \in C7 THEN f7[b] ELSE None
        BY <1>3, <1>12
    <2>3. b \in C7 => f7[b] = IF b \in C6 THEN f6[b] ELSE Calls[b]
        BY <1>10
    <2>4. b \in C6 => f6[b] = IF b \in C5 THEN f5[b] ELSE Extensions[b]
        BY <1>9
    <2>5. b \in C5 => f5[b] = IF b \in C4 THEN f4[b] ELSE Synthetic[b]
        BY <1>8
    <2>6. b \in C4 => f4[b] = IF b \in C3 THEN f3[b] ELSE StackOps[b]
        BY <1>7
    <2>7. b \in C3 => f3[b] = IF b \in C2 THEN f2[b] ELSE Control[b]
        BY <1>6
    <2>8. b \in C2 => f2[b] = IF b \in C1 THEN f1[b] ELSE Context[b]
        BY <1>5
    <2>9. b \in C1 => f1[b] = IF b \in 0 .. 11 THEN Arithmetic[b] ELSE Comparison[b]
        BY <1>4
    <2>10. /\ b \in C1 => b \in C2
           /\ b \in C2 => b \in C3
           /\ b \in C3 => b \in C4
           /\ b \in C4 => b \in C5
           /\ b \in C5 => b \in C6
           /\ b \in C6 => b \in C7
        BY <1>13
    <2> QED
        BY <2>1, <2>2, <2>3, <2>4, <2>5, <2>6, <2>7, <2>8, <2>9, <2>10
<1> QED
    BY <1>3, <1>12, <1>14 DEF C1, C2, C3, C4, C5, C6, C7

(* Which names the bytes have; the bytes of those that are looked up.       *)
LEMMA Names ==
    /\ DOMAIN Instruction = Bytes
    /\ \A b \in Bytes :
          /\ b < 128 => Instruction[b] \in LowNames \cup {None}
          /\ b >= 128 => Instruction[b] \in HighNames \cup SyntheticNames \cup ExtensionNames \cup {None}
          /\ (Instruction[b] = "PUSH" <=> b \in 96 .. 127)
          /\ (Instruction[b] = "PUSHC" <=> b = 172)
          /\ (Instruction[b] = "JUMPC" <=> b = 173)
          /\ (Instruction[b] = "JUMPCI" <=> b = 174)
          /\ (Instruction[b] = "UNDEFINED" <=> b = 175)
          /\ (Instruction[b] = "JUMP" <=> b = 86)
          /\ (Instruction[b] = "JUMPI" <=> b = 87)
          /\ b \in ExtensionBytes => Instruction[b] \in ExtensionNames
    /\ Instruction[0] = "STOP" /\ Instruction[92] = None /\ Instruction[93] = None
<1>1. ASSUME NEW b \in Bytes, b < 128
      PROVE  /\ Instruction[b] \in LowNames \cup {None}
             /\ (Instruction[b] = "PUSH" <=> b \in 96 .. 127)
             /\ (Instruction[b] = "JUMP" <=> b = 86)
             /\ (Instruction[b] = "JUMPI" <=> b = 87)
             /\ b \notin ExtensionBytes
    <2>1. b \in 0 .. 127 /\ b \notin ExtensionBytes /\ b \notin DOMAIN Calls
        BY <1>1, HighRows DEF Bytes, ExtensionBytes
    <2>2. "PUSH" \in LowNames /\ None \notin {"PUSH", "JUMP", "JUMPI"}
        BY DEF LowNames, None
    <2> QED
        BY <2>1, <2>2, InstructionRows, LowRows, HighRows
<1>2. ASSUME NEW b \in Bytes, b >= 128
      PROVE  /\ Instruction[b] \in HighNames \cup SyntheticNames \cup ExtensionNames \cup {None}
             /\ b \in 172 .. 175 => Instruction[b] = Synthetic[b]
             /\ b \notin 172 .. 175 => Instruction[b] \in HighNames \cup ExtensionNames \cup {None}
             /\ b \in ExtensionBytes => Instruction[b] \in ExtensionNames
    <2>1. b \in 128 .. 255 /\ (b \in ExtensionBytes => b \notin 0 .. 175)
        BY <1>2 DEF Bytes, ExtensionBytes
    <2>2. {"DUP", "SWAP", "LOG"} \subseteq HighNames
        BY DEF HighNames
    <2>3. \A c \in 172 .. 175 : Synthetic[c] \in SyntheticNames
        <3>1. \A c \in 172 .. 175 : c \in {172, 173, 174, 175}
            OBVIOUS
        <3> QED
            BY <3>1, OtherRows DEF SyntheticNames
    <2> QED
        BY <2>1, <2>2, <2>3, InstructionRows, HighRows, OtherRows
<1>3. \A n \in LowNames \cup {None} : n \notin SyntheticNames
    BY DEF LowNames, None, SyntheticNames
<1>4. \A n \in HighNames \cup ExtensionNames \cup {None} : n \notin SyntheticNames \cup {"PUSH", "JUMP", "JUMPI"}
    BY DEF HighNames, ExtensionNames, None, SyntheticNames
<1>5. ASSUME NEW b \in Bytes
      PROVE  /\ (Instruction[b] = "PUSHC" <=> b = 172)
             /\ (Instruction[b] = "JUMPC" <=> b = 173)
             /\ (Instruction[b] = "JUMPCI" <=> b = 174)
             /\ (Instruction[b] = "UNDEFINED" <=> b = 175)
             /\ b >= 128 => Instruction[b] \notin {"PUSH", "JUMP", "JUMPI"}
    <2>1. b \in 0 .. 255
        BY DEF Bytes
    <2>2. CASE b < 128
        BY <1>1, <1>3, <2>1, <2>2 DEF SyntheticNames
    <2>3. CASE b \in 172 .. 175
        <3>1. b \in {172, 173, 174, 175}
            BY <2>3
        <3> QED
            BY <1>2, <3>1, OtherRows
    <2>4. CASE b >= 128 /\ b \notin 172 .. 175
        BY <1>2, <1>4, <2>4 DEF SyntheticNames
    <2> QED
        BY <2>1, <2>2, <2>3, <2>4
<1>6. Instruction[0] = "STOP" /\ Instruction[92] = None /\ Instruction[93] = None
    <2>1. 0 \in Bytes /\ 92 \in Bytes /\ 93 \in Bytes
        BY DEF Bytes
    <2>2. 92 \notin DOMAIN Calls /\ 93 \notin DOMAIN Calls /\ 92 \notin ExtensionBytes /\ 93 \notin ExtensionBytes
        BY HighRows DEF ExtensionBytes
    <2> QED
        BY <2>1, <2>2, InstructionRows, LowRows
<1>7. \A b \in Bytes : (b < 128 \/ b >= 128) /\ (b \in 96 .. 127 \cup {86, 87} => b < 128)
    BY DEF Bytes
<1> QED
    BY <1>1, <1>2, <1>5, <1>6, <1>7, InstructionRows

LEMMA ByteOf ==
    /\ Byte("PUSHC") = 172 /\ Byte("JUMPC") = 173 /\ Byte("JUMPCI") = 174 /\ Byte("UNDEFINED") = 175
    /\ Byte("JUMP") = 86 /\ Byte("JUMPI") = 87
<1>1. {172, 173, 174, 175, 86, 87} \subseteq Bytes
    BY DEF Bytes
<1> QED
    BY <1>1, Names DEF Byte

LEMMA Numbers ==
    /\ DOMAIN Number = Bytes
    /\ \A b \in Bytes : Number[b] \in Int
    /\ \A b \in Bytes : Instruction[b] = "PUSH" => Number[b] \in 1 .. 32
<1>1. DOMAIN Number = Bytes
    BY DEF Number
<1>2. ASSUME NEW b \in Bytes
      PROVE  Number[b] \in Int /\ (Instruction[b] = "PUSH" => Number[b] \in 1 .. 32)
    <2>1. b \in Int
        BY DEF Bytes
    <2>2. Number[b] \in {b - 95, b - 127, b - 143, b - 160} /\ (Instruction[b] = "PUSH" => Number[b] = b - 95)
        BY DEF Number
    <2>3. Instruction[b] = "PUSH" => b \in 96 .. 127
        BY Names
    <2> QED
        BY <2>1, <2>2, <2>3
<1> QED
    BY <1>1, <1>2

(* What is no instruction has a label that is refused.                      *)
LEMMA Labels ==
    /\ DOMAIN jumpTable = Bytes
    /\ \A b \in Bytes :
          LET n == Instruction[b] IN
          \/ /\ n \in LowNames \cup (HighNames \ {"INVALID"})
             /\ jumpTable[b] = n /\ n \notin BadLabels
          \/ /\ n \in {None, "INVALID"} \cup SyntheticNames \cup ExtensionNames
             /\ jumpTable[b] \in BadLabels
<1>1. DOMAIN jumpTable = Bytes
    BY DEF jumpTable
<1>2. NotOptimized \subseteq SyntheticNames
    <2>1. \A b \in DOMAIN Synthetic : b \in {172, 173, 174, 175} /\ b \in Bytes
        BY OtherRows DEF Bytes
    <2> QED
        BY <2>1, Names DEF NotOptimized, SyntheticNames
<1>3. \A b \in DOMAIN Extensions : b \in Bytes /\ Instruction[b] \in ExtensionNames
    BY OtherRows, Names DEF Bytes, ExtensionBytes
<1>4. BadLabels \subseteq {"INVALID"} \cup SyntheticNames \cup ExtensionNames
    BY <1>2, <1>3 DEF BadLabels
<1>5. \A n \in LowNames \cup (HighNames \ {"INVALID"}) :
          n \notin {"INVALID"} \cup SyntheticNames \cup ExtensionNames \cup {None}
    BY DEF LowNames, HighNames, SyntheticNames, ExtensionNames, None
<1>6. "BEGINDATA" \in BadLabels /\ "BEGINSUB" \in BadLabels
    <2>1. Extensions[181] = "BEGINSUB" /\ Extensions[182] = "BEGINDATA"
        <3> DEFINE e1 == Row(176, <<"JUMPTO", "JUMPIF", "JUMPSUB", "JUMPV", "JUMPSUBV", "BEGINSUB", "BEGINDATA",
                                   "RETURNSUB", "PUTLOCAL", "GETLOCAL">>)
                   e2 == Row(193, <<"XADD", "XMUL", "XSUB", "XDIV", "XSDIV", "XMOD", "XSMOD">>)
                   e3 == Row(208, <<"XLT", "XGT", "XSLT", "XSGT", "XEQ", "XISZERO", "XAND", "XOOR", "XXOR", "XNOT">>)
                   e4 == Row(219, <<"XSHL", "XSHR", "XSAR", "XROL", "XROR", "XPUSH", "XMLOAD", "XMSTORE">>)
                   e5 == Row(228, <<"XSLOAD", "XSSTORE", "XVTOWIDE", "XWIDETOV", "XGET", "XPUT", "XSWIZZLE",
                                    "XSHUFFLE">>)
        <3>1. e1[181] = "BEGINSUB" /\ e1[182] = "BEGINDATA" /\ 181 \in DOMAIN e1 /\ 182 \in DOMAIN e1
            BY DEF Row
        <3>2. Extensions = e1 ++ e2 ++ e3 ++ e4 ++ e5
            BY DEF Extensions
        <3> HIDE DEF e1, e2, e3, e4, e5
        <3> QED
            BY <3>1, <3>2 DEF ++
    <2>2. 181 \in ExtensionBytes /\ 182 \in ExtensionBytes /\ 181 \in Bytes /\ 182 \in Bytes
        BY DEF ExtensionBytes, Bytes
    <2>3. Instruction[181] = "BEGINSUB" /\ Instruction[182] = "BEGINDATA"
        BY <2>1, <2>2, InstructionRows
    <2> QED
        BY <2>2, <2>3, OtherRows DEF BadLabels
<1>7. ASSUME NEW b \in Bytes
      PROVE  LET n == Instruction[b] IN
             \/ /\ n \in LowNames \cup (HighNames \ {"INVALID"})
                /\ jumpTable[b] = n /\ n \notin BadLabels
             \/ /\ n \in {None, "INVALID"} \cup SyntheticNames \cup ExtensionNames
                /\ jumpTable[b] \in BadLabels
    <2> DEFINE n == Instruction[b]
    <2>1. CASE n \in LowNames \cup (HighNames \ {"INVALID"})
        <3>1. n # None /\ n # "UNDEFINED" /\ n \notin BadLabels
            BY <1>4, <1>5, <2>1 DEF SyntheticNames
        <3>2. b # 92 /\ b # 93
            BY <3>1, Names
        <3> QED
            BY <2>1, <3>1, <3>2 DEF jumpTable
    <2>2. CASE n \in {None, "UNDEFINED"}
        BY <1>6, <2>2 DEF jumpTable, BadLabels, SyntheticNames
    <2>3. CASE n = "INVALID"
        BY <1>6, <2>3 DEF jumpTable, BadLabels
    <2>4. CASE n \in SyntheticNames \ {"UNDEFINED"}
        <3>1. b \in {172, 173, 174}
            BY <2>4, Names DEF SyntheticNames
        <3>2. b \in DOMAIN Synthetic
            BY <3>1, OtherRows
        <3> QED
            BY <2>4, <3>1, <3>2 DEF jumpTable, BadLabels, NotOptimized, None, SyntheticNames
    <2>5. CASE n \in ExtensionNames
        <3>1. b \in ExtensionBytes
            <4>1. b \in 0 .. 255 /\ n \notin LowNames \cup HighNames \cup SyntheticNames \cup {None}
                BY <2>5 DEF Bytes, LowNames, HighNames, SyntheticNames, ExtensionNames, None
            <4> HIDE DEF n
            <4>2. b >= 128
                BY <4>1, Names DEF n
            <4>3. b \notin 128 .. 164
                BY <4>1, InstructionRows, HighRows DEF n, HighNames
            <4>4. b \notin 172 .. 175
                <5>1. b \in 172 .. 175 => b \in {172, 173, 174, 175}
                    BY <4>1
                <5> QED
                    BY <4>1, <5>1, Names DEF n, SyntheticNames
            <4>5. b \notin DOMAIN Calls
                <5>1. b \in DOMAIN Calls => b \notin 0 .. 235
                    BY HighRows
                <5>2. b \in DOMAIN Calls => b \notin ExtensionBytes
                    BY <5>1 DEF ExtensionBytes
                <5>3. b \in DOMAIN Calls => Instruction[b] = Calls[b]
                    BY <5>1, <5>2, InstructionRows
                <5> QED
                    BY <4>1, <5>3, HighRows DEF n
            <4> QED
                BY <4>1, <4>2, <4>3, <4>4, <4>5, InstructionRows DEF n
        <3> QED
            BY <1>6, <2>5, <3>1, OtherRows DEF jumpTable, BadLabels
    <2>6. n \in LowNames \cup HighNames \cup SyntheticNames \cup ExtensionNames \cup {None}
        <3>1. b < 128 \/ b >= 128
            BY DEF Bytes
        <3> HIDE DEF n
        <3> QED
            BY <3>1, Names DEF n
    <2> HIDE DEF n
    <2> QED
        BY <2>1, <2>2, <2>3, <2>4, <2>5, <2>6 DEF n
<1> QED
    BY <1>1, <1>7

-----------------------------------------------------------------------------
(* The tables of metrics.                                                  *)

LEMMA HalfTables ==
    /\ \A t \in {ConstantinopleLow, IstanbulLow, ByzantiumLow, TangerineLow, HomesteadLow, FrontierLow} :
          DOMAIN t = 0 .. 127
    /\ \A t \in {ConstantinopleHigh, IstanbulHigh, ByzantiumHigh, TangerineHigh, HomesteadHigh, FrontierHigh} :
          DOMAIN t = 128 .. 255
<1>1. DOMAIN ConstantinopleLow = 0 .. 127 /\ DOMAIN IstanbulLow = 0 .. 127 /\ DOMAIN HomesteadLow = 0 .. 127
    BY DEF ConstantinopleLow, IstanbulLow, HomesteadLow
<1>2. DOMAIN ByzantiumLow = 0 .. 127
    BY <1>1 DEF ByzantiumLow, Without
<1>3. DOMAIN TangerineLow = 0 .. 127
    BY <1>2 DEF TangerineLow, Without
<1>4. DOMAIN ConstantinopleHigh = 128 .. 255 /\ DOMAIN HomesteadHigh = 128 .. 255
    BY DEF ConstantinopleHigh, HomesteadHigh
<1>5. DOMAIN ByzantiumHigh = 128 .. 255
    BY <1>4 DEF ByzantiumHigh, Without
<1>6. DOMAIN TangerineHigh = 128 .. 255
    BY <1>5 DEF TangerineHigh, Without
<1>7. DOMAIN FrontierHigh = 128 .. 255
    BY <1>4 DEF FrontierHigh, Without
<1> QED
    BY <1>1, <1>2, <1>3, <1>4, <1>5, <1>6, <1>7 DEF IstanbulHigh, FrontierLow

(* The row of a byte in the table of a revision, from its half of it.       *)
LowOf(rev) ==
    CASE rev \in {Istanbul, Berlin} -> IstanbulLow
      [] rev \in {Petersburg, Constantinople} -> ConstantinopleLow
      [] rev = Byzantium -> ByzantiumLow
      [] rev \in {SpuriousDragon, TangerineWhistle} -> TangerineLow
      [] rev = Homestead -> HomesteadLow
      [] rev = Frontier -> FrontierLow
HighOf(rev) ==
    CASE rev \in {Istanbul, Berlin} -> IstanbulHigh
      [] rev \in {Petersburg, Constantinople} -> ConstantinopleHigh
      [] rev = Byzantium -> ByzantiumHigh
      [] rev \in {SpuriousDragon, TangerineWhistle} -> TangerineHigh
      [] rev = Homestead -> HomesteadHigh
      [] rev = Frontier -> FrontierHigh

LEMMA RevisionCases ==
    ASSUME NEW rev \in Revisions
    PROVE  \/ rev \in {Istanbul, Berlin} \/ rev \in {Petersburg, Constantinople} \/ rev = Byzantium
           \/ rev \in {SpuriousDragon, TangerineWhistle} \/ rev = Homestead \/ rev = Frontier
    BY DEF Revisions, Frontier, Homestead, TangerineWhistle, SpuriousDragon, Byzantium, Constantinople,
           Petersburg, Istanbul, Berlin

LEMMA WholeTable ==
    ASSUME NEW rev \in Revisions
    PROVE  /\ DOMAIN MetricsTable(rev) = Bytes
           /\ \A b \in Bytes : MetricsTable(rev)[b] = IF b < 128 THEN LowOf(rev)[b] ELSE HighOf(rev)[b]
<1> DEFINE l == LowOf(rev)
           h == HighOf(rev)
           t == [x \in DOMAIN l \cup DOMAIN h |-> IF x \in DOMAIN l THEN l[x] ELSE h[x]]
<1>1. MetricsTable(rev) = t
    BY RevisionCases DEF MetricsTable, LowOf, HighOf, ++, Frontier, Homestead, TangerineWhistle, SpuriousDragon,
       Byzantium, Constantinople, Petersburg, Istanbul, Berlin
<1>2. DOMAIN l = 0 .. 127 /\ DOMAIN h = 128 .. 255
    BY RevisionCases, HalfTables DEF LowOf, HighOf, Frontier, Homestead, TangerineWhistle, SpuriousDragon,
       Byzantium, Constantinople, Petersburg, Istanbul, Berlin
<1> HIDE DEF l, h
<1>3. 0 .. 127 \cup 128 .. 255 = Bytes /\ \A b \in Bytes : (b < 128 <=> b \in 0 .. 127)
    BY DEF Bytes
<1>4. DOMAIN t = Bytes
    BY <1>2, <1>3
<1>5. ASSUME NEW b \in Bytes
      PROVE  t[b] = IF b < 128 THEN l[b] ELSE h[b]
    <2>1. b \in DOMAIN l \cup DOMAIN h /\ (b \in DOMAIN l <=> b < 128)
        BY <1>2, <1>3
    <2>2. t[b] = IF b \in DOMAIN l THEN l[b] ELSE h[b]
        BY <2>1
    <2> HIDE DEF t
    <2> QED
        BY <2>1, <2>2
<1> QED
    BY <1>1, <1>4, <1>5 DEF l, h

(* The opcodes of the interpreter's own have rows of their own.             *)
LEMMA MetricsAt ==
    ASSUME NEW rev \in Revisions, NEW b \in Bytes, b \notin {172, 173, 174}
    PROVE  s_metrics[rev][b] = IF b < 128 THEN LowOf(rev)[b] ELSE HighOf(rev)[b]
<1> DEFINE t == MetricsTable(rev)
<1>1. DOMAIN t = Bytes
    BY WholeTable
<1>2. s_metrics[rev] = [t EXCEPT ![172] = t[96], ![173] = t[86], ![174] = t[87]]
    BY ByteOf DEF s_metrics
<1> HIDE DEF t
<1>3. s_metrics[rev][b] = t[b]
    BY <1>1, <1>2
<1> QED
    BY <1>3, WholeTable DEF t

-----------------------------------------------------------------------------
(* The tables agree.                                                       *)

Agree(m, b, rev) ==
    IF Refused(jumpTable[b], rev) THEN m = Undefined
    ELSE Reads(b) <= m.required /\ (jumpTable[b] # "STOP" => m # Undefined)

LEMMA Metrics ==
    ASSUME NEW cost \in Int, NEW required \in Int, NEW change \in Int
    PROVE  /\ Metric(cost, required, change).gas = cost
           /\ Metric(cost, required, change).required = required
           /\ Metric(cost, required, change).change = change
           /\ cost # 0 \/ required # 0 => Metric(cost, required, change) # Undefined
    BY DEF Metric, Undefined

Reads4 == {"CREATE2", "EXTCODECOPY"}
Reads3 == {"CREATE", "ADDMOD", "MULMOD", "CALLDATACOPY", "CODECOPY", "RETURNDATACOPY"}
Reads2 == {"ADD", "MUL", "SUB", "DIV", "SDIV", "MOD", "SMOD", "EXP", "SIGNEXTEND", "LT", "GT", "SLT", "SGT", "EQ",
           "AND", "OR", "XOR", "BYTE", "SHL", "SHR", "SAR", "SHA3", "MSTORE", "MSTORE8", "SSTORE", "JUMPI",
           "RETURN", "REVERT"}
Reads1 == {"ISZERO", "NOT", "BALANCE", "CALLDATALOAD", "EXTCODESIZE", "EXTCODEHASH", "BLOCKHASH", "POP", "MLOAD",
           "SLOAD", "JUMP", "SELFDESTRUCT"}

LEMMA LowReads ==
    ASSUME NEW b \in Bytes, jumpTable[b] \in LowNames
    PROVE  /\ jumpTable[b] \in Reads4 => Reads(b) = 4
           /\ jumpTable[b] \in Reads3 => Reads(b) = 3
           /\ jumpTable[b] \in Reads2 => Reads(b) = 2
           /\ jumpTable[b] \in Reads1 => Reads(b) = 1
           /\ jumpTable[b] \notin Reads4 \cup Reads3 \cup Reads2 \cup Reads1 => Reads(b) = 0
<1> DEFINE n == jumpTable[b]
<1>1. n \notin {"CALL", "CALLCODE", "DELEGATECALL", "STATICCALL", "DUP", "SWAP", "LOG"}
    BY DEF LowNames
<1>2. n \in Reads4 => Reads(b) = 4
    BY DEF Reads, Reads4
<1>3. n \in Reads3 => Reads(b) = 3
    BY DEF Reads, Reads3
<1>4. n \in Reads2 => Reads(b) = 2
    BY DEF Reads, Reads2
<1>5. n \in Reads1 => Reads(b) = 1
    BY DEF Reads, Reads1
<1>6. n \notin Reads4 \cup Reads3 \cup Reads2 \cup Reads1 => Reads(b) = 0
    BY <1>1 DEF Reads, Reads1, Reads2, Reads3, Reads4
<1> QED
    BY <1>2, <1>3, <1>4, <1>5, <1>6

(* The words a handler reads are on the stack when the row says so.          *)
LEMMA LowMetrics ==
    ASSUME NEW n \in LowNames
    PROVE  /\ n \in {"STOP", "CHAINID", "SELFBALANCE"} => LowMetric(n) = Undefined
           /\ n \in Reads4 => LowMetric(n) = Metric(700, 4, -4)
           /\ n \in Reads3 => LowMetric(n) \in {Metric(8, 3, -2), Metric(3, 3, -3)}
           /\ n \in Reads2 => LowMetric(n) \in {Metric(3, 2, -1), Metric(3, 2, -2), Metric(5, 2, -1), Metric(10, 2, -1),
                                               Metric(10, 2, -2), Metric(30, 2, -1), Metric(0, 2, -2)}
           /\ n \in Reads1 => LowMetric(n) \in {Metric(3, 1, 0), Metric(2, 1, -1), Metric(8, 1, -1), Metric(20, 1, 0),
                                               Metric(200, 1, 0), Metric(400, 1, 0), Metric(700, 1, 0)}
           /\ n \notin Reads4 \cup Reads3 \cup Reads2 \cup Reads1 \cup {"STOP", "CHAINID", "SELFBALANCE"} =>
                  LowMetric(n) \in {Metric(2, 0, 1), Metric(1, 0, 0), Metric(3, 0, 1)}
<1>1. n \in {"STOP", "CHAINID", "SELFBALANCE"} => LowMetric(n) = Undefined
    BY DEF LowMetric
<1>2. n \in Reads4 => LowMetric(n) = Metric(700, 4, -4)
    BY DEF LowMetric, LowNames, Reads4
<1>3. n \in Reads3 => LowMetric(n) \in {Metric(8, 3, -2), Metric(3, 3, -3)}
    BY DEF LowMetric, LowNames, Reads3
<1>4. n \in Reads2 => LowMetric(n) \in {Metric(3, 2, -1), Metric(3, 2, -2), Metric(5, 2, -1), Metric(10, 2, -1),
                                       Metric(10, 2, -2), Metric(30, 2, -1), Metric(0, 2, -2)}
    BY DEF LowMetric, LowNames, Reads2
<1>5. n \in Reads1 => LowMetric(n) \in {Metric(3, 1, 0), Metric(2, 1, -1), Metric(8, 1, -1), Metric(20, 1, 0),
                                       Metric(200, 1, 0), Metric(400, 1, 0), Metric(700, 1, 0)}
    BY DEF LowMetric, LowNames, Reads1
<1>6. n \notin Reads4 \cup Reads3 \cup Reads2 \cup Reads1 \cup {"STOP", "CHAINID", "SELFBALANCE"} =>
          LowMetric(n) \in {Metric(2, 0, 1), Metric(1, 0, 0), Metric(3, 0, 1)}
    BY DEF LowMetric, LowNames, Reads1, Reads2, Reads3, Reads4
<1> QED
    BY <1>1, <1>2, <1>3, <1>4, <1>5, <1>6

LEMMA LowRow ==
    ASSUME NEW rev \in Revisions, NEW b \in Bytes, b < 128
    PROVE  LET n == Instruction[b]
               m == LowOf(rev)[b]
           IN  /\ rev <= Homestead =>
                      /\ n \in {"BALANCE", "EXTCODESIZE"} => m = Metric(20, 1, 0)
                      /\ n = "EXTCODECOPY" => m = Metric(20, 4, -4)
                      /\ n = "SLOAD" => m = Metric(50, 1, 0)
               /\ rev < Byzantium /\ n \in {"RETURNDATASIZE", "RETURNDATACOPY"} => m = Undefined
               /\ rev < Constantinople /\ n \in {"SHL", "SHR", "SAR", "EXTCODEHASH"} => m = Undefined
               /\ rev >= Istanbul =>
                      /\ n \in {"BALANCE", "EXTCODEHASH"} => m = Metric(700, 1, 0)
                      /\ n = "SLOAD" => m = Metric(800, 1, 0)
                      /\ n = "CHAINID" => m = Metric(2, 0, 1)
                      /\ n = "SELFBALANCE" => m = Metric(5, 0, 1)
               /\ n \in {"EXTCODESIZE", "EXTCODECOPY"} => rev <= Homestead \/ m = LowMetric(n)
               /\ n \in {"BALANCE", "SLOAD"} => rev <= Homestead \/ rev >= Istanbul \/ m = LowMetric(n)
               /\ n \in {"RETURNDATASIZE", "RETURNDATACOPY"} => rev < Byzantium \/ m = LowMetric(n)
               /\ n \in {"SHL", "SHR", "SAR"} => rev < Constantinople \/ m = LowMetric(n)
               /\ n = "EXTCODEHASH" => rev < Constantinople \/ rev >= Istanbul \/ m = LowMetric(n)
               /\ n \in {"CHAINID", "SELFBALANCE"} => rev >= Istanbul \/ m = LowMetric(n)
               /\ n \notin {"BALANCE", "EXTCODESIZE", "EXTCODECOPY", "SLOAD", "RETURNDATASIZE", "RETURNDATACOPY",
                            "SHL", "SHR", "SAR", "EXTCODEHASH", "CHAINID", "SELFBALANCE"} => m = LowMetric(n)
<1> DEFINE n == Instruction[b]
<1>1. b \in 0 .. 127
    BY DEF Bytes
<1>2. ConstantinopleLow[b] = LowMetric(n)
    BY <1>1 DEF ConstantinopleLow
<1>3. IstanbulLow[b] = IF n \in {"BALANCE", "EXTCODEHASH"} THEN Metric(700, 1, 0)
                       ELSE IF n = "SLOAD" THEN Metric(800, 1, 0)
                       ELSE IF n = "CHAINID" THEN Metric(2, 0, 1)
                       ELSE IF n = "SELFBALANCE" THEN Metric(5, 0, 1) ELSE LowMetric(n)
    BY <1>1, <1>2 DEF IstanbulLow
<1>4. ByzantiumLow[b] = IF n \in {"SHL", "SHR", "SAR", "EXTCODEHASH"} THEN Undefined ELSE LowMetric(n)
    BY <1>1, <1>2, HalfTables DEF ByzantiumLow, Without
<1>5. TangerineLow[b] = IF n \in {"RETURNDATASIZE", "RETURNDATACOPY"} THEN Undefined ELSE ByzantiumLow[b]
    BY <1>1, HalfTables DEF TangerineLow, Without
<1>6. HomesteadLow[b] = IF n \in {"BALANCE", "EXTCODESIZE"} THEN Metric(20, 1, 0)
                        ELSE IF n = "EXTCODECOPY" THEN Metric(20, 4, -4)
                        ELSE IF n = "SLOAD" THEN Metric(50, 1, 0) ELSE TangerineLow[b]
    BY <1>1 DEF HomesteadLow
<1>7. rev = Frontier => LowOf(rev) = HomesteadLow
    BY DEF LowOf, FrontierLow, Frontier, Homestead, TangerineWhistle, SpuriousDragon,
           Byzantium, Constantinople, Petersburg, Istanbul, Berlin
<1>8. /\ rev = Homestead => LowOf(rev) = HomesteadLow
      /\ rev \in {SpuriousDragon, TangerineWhistle} => LowOf(rev) = TangerineLow
      /\ rev = Byzantium => LowOf(rev) = ByzantiumLow
      /\ rev \in {Petersburg, Constantinople} => LowOf(rev) = ConstantinopleLow
      /\ rev \in {Istanbul, Berlin} => LowOf(rev) = IstanbulLow
    BY DEF LowOf, Frontier, Homestead, TangerineWhistle, SpuriousDragon,
           Byzantium, Constantinople, Petersburg, Istanbul, Berlin
<1> HIDE DEF n
<1>9. CASE rev \in {Frontier, Homestead}
    BY <1>2, <1>4, <1>5, <1>6, <1>7, <1>8, <1>9
       DEF n, Frontier, Homestead, TangerineWhistle, Byzantium, Constantinople, Istanbul
<1>10. CASE rev \in {TangerineWhistle, SpuriousDragon}
    BY <1>2, <1>4, <1>5, <1>8, <1>10
       DEF n, Homestead, TangerineWhistle, SpuriousDragon, Byzantium, Constantinople, Istanbul
<1>11. CASE rev = Byzantium
    BY <1>2, <1>4, <1>8, <1>11 DEF n, Homestead, TangerineWhistle, Byzantium, Constantinople, Istanbul
<1>12. CASE rev \in {Constantinople, Petersburg}
    BY <1>2, <1>8, <1>12 DEF n, Homestead, TangerineWhistle, Byzantium, Constantinople, Petersburg, Istanbul
<1>13. CASE rev \in {Istanbul, Berlin}
    BY <1>2, <1>3, <1>8, <1>13 DEF n, Homestead, TangerineWhistle, Byzantium, Constantinople, Istanbul, Berlin
<1> QED
    BY <1>9, <1>10, <1>11, <1>12, <1>13, RevisionCases

LEMMA HighRow ==
    ASSUME NEW rev \in Revisions, NEW b \in Bytes, b >= 128
    PROVE  LET n == Instruction[b]
               m == HighOf(rev)[b]
               k == Number[b]
           IN  /\ n \in {"CALL", "CALLCODE"} => m = IF rev <= Homestead THEN Metric(40, 7, -6) ELSE HighMetric(n, k)
               /\ n = "DELEGATECALL" => m = IF rev < Homestead THEN Undefined
                                           ELSE IF rev = Homestead THEN Metric(40, 6, -5) ELSE HighMetric(n, k)
               /\ n = "SELFDESTRUCT" => m = IF rev <= Homestead THEN Metric(0, 1, -1) ELSE HighMetric(n, k)
               /\ n \in {"STATICCALL", "REVERT"} => m = IF rev < Byzantium THEN Undefined ELSE HighMetric(n, k)
               /\ n = "CREATE2" => m = IF rev < Constantinople THEN Undefined ELSE HighMetric(n, k)
               /\ n \notin {"CALL", "CALLCODE", "DELEGATECALL", "SELFDESTRUCT", "STATICCALL", "REVERT", "CREATE2"} =>
                      m = HighMetric(n, k)
<1> DEFINE n == Instruction[b]
           top == HighMetric(n, Number[b])
<1>1. b \in 128 .. 255
    BY DEF Bytes
<1>2. ConstantinopleHigh[b] = top
    BY <1>1 DEF ConstantinopleHigh
<1>3. ByzantiumHigh[b] = IF n = "CREATE2" THEN Undefined ELSE top
    BY <1>1, <1>2, HalfTables DEF ByzantiumHigh, Without
<1>4. TangerineHigh[b] = IF n \in {"STATICCALL", "REVERT"} THEN Undefined ELSE ByzantiumHigh[b]
    BY <1>1, HalfTables DEF TangerineHigh, Without
<1>5. HomesteadHigh[b] = IF n \in {"CALL", "CALLCODE"} THEN Metric(40, 7, -6)
                         ELSE IF n = "DELEGATECALL" THEN Metric(40, 6, -5)
                         ELSE IF n = "SELFDESTRUCT" THEN Metric(0, 1, -1) ELSE TangerineHigh[b]
    BY <1>1 DEF HomesteadHigh
<1>6. FrontierHigh[b] = IF n = "DELEGATECALL" THEN Undefined ELSE HomesteadHigh[b]
    BY <1>1, HalfTables DEF FrontierHigh, Without
<1>7. /\ rev = Frontier => HighOf(rev) = FrontierHigh
      /\ rev = Homestead => HighOf(rev) = HomesteadHigh
      /\ rev \in {SpuriousDragon, TangerineWhistle} => HighOf(rev) = TangerineHigh
      /\ rev = Byzantium => HighOf(rev) = ByzantiumHigh
      /\ rev \in {Petersburg, Constantinople} => HighOf(rev) = ConstantinopleHigh
      /\ rev \in {Istanbul, Berlin} => HighOf(rev) = ConstantinopleHigh
    BY DEF HighOf, IstanbulHigh, Frontier, Homestead, TangerineWhistle, SpuriousDragon,
           Byzantium, Constantinople, Petersburg, Istanbul, Berlin
<1> HIDE DEF n, top
<1>8. CASE rev = Frontier
    BY <1>2, <1>3, <1>4, <1>5, <1>6, <1>7, <1>8 DEF n, top, Frontier, Homestead, Byzantium, Constantinople
<1>9. CASE rev = Homestead
    BY <1>2, <1>3, <1>4, <1>5, <1>7, <1>9 DEF n, top, Homestead, Byzantium, Constantinople
<1>10. CASE rev \in {TangerineWhistle, SpuriousDragon}
    BY <1>2, <1>3, <1>4, <1>7, <1>10
       DEF n, top, Homestead, TangerineWhistle, SpuriousDragon, Byzantium, Constantinople
<1>11. CASE rev = Byzantium
    BY <1>2, <1>3, <1>7, <1>11 DEF n, top, Homestead, Byzantium, Constantinople
<1>12. CASE rev \in {Constantinople, Petersburg, Istanbul, Berlin}
    BY <1>2, <1>7, <1>12 DEF n, top, Homestead, Byzantium, Constantinople, Petersburg, Istanbul, Berlin
<1> QED
    BY <1>8, <1>9, <1>10, <1>11, <1>12, RevisionCases

LEMMA HighMetrics ==
    ASSUME NEW k
    PROVE  /\ HighMetric("DUP", k) = Metric(3, k, 1)
           /\ HighMetric("SWAP", k) = Metric(3, k + 1, 0)
           /\ HighMetric("LOG", k) = Metric((k + 1) * 375, k + 2, -(k + 2))
           /\ HighMetric("CREATE", k) = Metric(32000, 3, -2)
           /\ HighMetric("CREATE2", k) = Metric(32000, 4, -3)
           /\ HighMetric("CALL", k) = Metric(700, 7, -6)
           /\ HighMetric("CALLCODE", k) = Metric(700, 7, -6)
           /\ HighMetric("DELEGATECALL", k) = Metric(700, 6, -5)
           /\ HighMetric("STATICCALL", k) = Metric(700, 6, -5)
           /\ HighMetric("RETURN", k) = Metric(0, 2, -2)
           /\ HighMetric("REVERT", k) = Metric(0, 2, -2)
           /\ HighMetric("SELFDESTRUCT", k) = Metric(5000, 1, -1)
           /\ \A n : n \notin HighNames \ {"INVALID"} => HighMetric(n, k) = Undefined
    BY DEF HighMetric, HighNames

LEMMA HighReads ==
    ASSUME NEW b \in Bytes
    PROVE  LET n == jumpTable[b]
           IN  /\ n \in {"CALL", "CALLCODE"} => Reads(b) = 7
               /\ n \in {"DELEGATECALL", "STATICCALL"} => Reads(b) = 6
               /\ n = "CREATE2" => Reads(b) = 4
               /\ n = "CREATE" => Reads(b) = 3
               /\ n = "DUP" => Reads(b) = Number[b]
               /\ n = "SWAP" => Reads(b) = Number[b] + 1
               /\ n = "LOG" => Reads(b) = Number[b] + 2
               /\ n \in {"RETURN", "REVERT"} => Reads(b) = 2
               /\ n = "SELFDESTRUCT" => Reads(b) = 1
<1> DEFINE n == jumpTable[b]
<1>1. n \in {"CALL", "CALLCODE"} => Reads(b) = 7
    BY DEF Reads
<1>2. n \in {"DELEGATECALL", "STATICCALL"} => Reads(b) = 6
    BY DEF Reads
<1>3. (n = "CREATE2" => Reads(b) = 4) /\ (n = "CREATE" => Reads(b) = 3)
    BY DEF Reads
<1>4. n = "DUP" => Reads(b) = Number[b]
    BY DEF Reads
<1>5. n = "SWAP" => Reads(b) = Number[b] + 1
    BY DEF Reads
<1>6. n = "LOG" => Reads(b) = Number[b] + 2
    BY DEF Reads
<1>7. n \in {"RETURN", "REVERT"} => Reads(b) = 2
    BY DEF Reads
<1>8. n = "SELFDESTRUCT" => Reads(b) = 1
    BY DEF Reads
<1> QED
    BY <1>1, <1>2, <1>3, <1>4, <1>5, <1>6, <1>7, <1>8

(* The revisions in which a label is refused.                              *)
LEMMA Refusals ==
    ASSUME NEW rev \in Revisions, NEW label, label \notin BadLabels
    PROVE  /\ label \in {"CREATE2", "SHL", "SHR", "SAR", "EXTCODEHASH"} => (Refused(label, rev) <=> rev < Constantinople)
           /\ label \in {"STATICCALL", "REVERT", "RETURNDATASIZE", "RETURNDATACOPY"} =>
                  (Refused(label, rev) <=> rev < Byzantium)
           /\ label \in {"CHAINID", "SELFBALANCE"} => (Refused(label, rev) <=> rev < Istanbul)
           /\ label = "DELEGATECALL" => (Refused(label, rev) <=> rev < Homestead)
           /\ label \notin {"CREATE2", "SHL", "SHR", "SAR", "EXTCODEHASH", "STATICCALL", "REVERT", "RETURNDATASIZE",
                            "RETURNDATACOPY", "CHAINID", "SELFBALANCE", "DELEGATECALL"} => ~Refused(label, rev)
<1>1. rev \in 0 .. 8
    BY DEF Revisions, Frontier, Berlin
<1> QED
    BY <1>1 DEF Refused, Since, Frontier

LEMMA AgreeWhereRefused ==
    ASSUME NEW rev \in Revisions, NEW b \in Bytes, b \notin {172, 173, 174}, jumpTable[b] \in BadLabels,
           Instruction[b] \in {None, "INVALID"} \cup SyntheticNames \cup ExtensionNames
    PROVE  Agree(s_metrics[rev][b], b, rev)
<1> DEFINE n == Instruction[b]
<1>1. Refused(jumpTable[b], rev)
    BY DEF Refused
<1>2. CASE b < 128
    <2>1. n = None
        BY <1>2, Names DEF LowNames, None, SyntheticNames, ExtensionNames
    <2>2. LowMetric(None) = Undefined
        BY DEF LowMetric, None
    <2>3. LowOf(rev)[b] = Undefined
        BY <1>2, <2>1, <2>2, LowRow DEF None
    <2> QED
        BY <1>1, <1>2, <2>3, MetricsAt DEF Agree
<1>3. CASE b >= 128
    <2>1. n \notin HighNames \ {"INVALID"}
        BY DEF HighNames, None, SyntheticNames, ExtensionNames
    <2> HIDE DEF n
    <2>2. HighMetric(n, Number[b]) = Undefined
        BY <2>1, HighMetrics
    <2>3. HighOf(rev)[b] = Undefined
        BY <1>3, <2>1, <2>2, HighRow DEF HighNames, n
    <2> QED
        BY <1>1, <1>3, <2>3, MetricsAt DEF Agree, Bytes
<1> QED
    BY <1>2, <1>3 DEF Bytes

LEMMA AgreeLow ==
    ASSUME NEW rev \in Revisions, NEW b \in Bytes, b < 128, Instruction[b] \in LowNames,
           jumpTable[b] = Instruction[b], Instruction[b] \notin BadLabels
    PROVE  Agree(s_metrics[rev][b], b, rev)
<1> DEFINE n == Instruction[b]
           m == LowOf(rev)[b]
<1>1. s_metrics[rev][b] = m
    BY MetricsAt
<1>2. rev \in Int /\ Homestead = 1 /\ Byzantium = 4 /\ Constantinople = 5 /\ Istanbul = 7
    BY DEF Revisions, Frontier, Berlin, Homestead, Byzantium, Constantinople, Istanbul
<1>3. CASE n \in {"STOP", "CHAINID", "SELFBALANCE"}
    <2>1. Reads(b) = 0
        BY <1>3, LowReads DEF Reads1, Reads2, Reads3, Reads4
    <2>2. n = "STOP" => m = Undefined /\ ~Refused(n, rev)
        BY LowRow, LowMetrics, Refusals
    <2>3. n # "STOP" => IF rev < Istanbul THEN m = Undefined /\ Refused(n, rev)
                        ELSE m \in {Metric(2, 0, 1), Metric(5, 0, 1)} /\ ~Refused(n, rev)
        BY <1>2, <1>3, LowRow, LowMetrics, Refusals
    <2>4. Undefined.required = 0
        BY DEF Undefined, Metric
    <2> QED
        BY <1>1, <2>1, <2>2, <2>3, <2>4, Metrics DEF Agree
<1>4. CASE n \in Reads4
    <2>1. n = "EXTCODECOPY"
        BY <1>4 DEF LowNames, Reads4
    <2>2. m \in {Metric(20, 4, -4), Metric(700, 4, -4)}
        BY <1>2, <1>4, <2>1, LowRow, LowMetrics
    <2>3. ~Refused(n, rev)
        BY <2>1, Refusals
    <2> QED
        BY <1>1, <1>4, <2>2, <2>3, LowReads, Metrics DEF Agree
<1>5. CASE n \in Reads3
    <2>1. n \in {"ADDMOD", "MULMOD", "CALLDATACOPY", "CODECOPY", "RETURNDATACOPY"}
        BY <1>5 DEF LowNames, Reads3
    <2>2. CASE rev < Byzantium /\ n = "RETURNDATACOPY"
        BY <1>1, <2>2, LowRow, Refusals DEF Agree
    <2>3. CASE ~(rev < Byzantium /\ n = "RETURNDATACOPY")
        <3>1. m = LowMetric(n)
            BY <2>1, <2>3, LowRow
        <3>2. ~Refused(n, rev)
            BY <2>1, <2>3, Refusals
        <3>3. m \in {Metric(8, 3, -2), Metric(3, 3, -3)}
            BY <1>5, <3>1, LowMetrics
        <3> HIDE DEF m
        <3>4. m # Undefined /\ m.required = 3
            BY <3>3, Metrics
        <3>5. Reads(b) = 3
            BY <1>5, LowReads
        <3> QED
            BY <1>1, <3>2, <3>4, <3>5 DEF Agree
    <2> QED
        BY <2>2, <2>3
<1>6. CASE n \in Reads2
    <2>1. CASE rev < Constantinople /\ n \in {"SHL", "SHR", "SAR"}
        BY <1>1, <2>1, LowRow, Refusals DEF Agree
    <2>2. CASE ~(rev < Constantinople /\ n \in {"SHL", "SHR", "SAR"})
        <3>1. m = LowMetric(n)
            BY <1>6, <2>2, LowRow DEF Reads2
        <3>2. ~Refused(n, rev)
            BY <1>6, <2>2, Refusals DEF Reads2, LowNames
        <3>3. m \in {Metric(3, 2, -1), Metric(3, 2, -2), Metric(5, 2, -1), Metric(10, 2, -1),
                     Metric(10, 2, -2), Metric(30, 2, -1), Metric(0, 2, -2)}
            BY <1>6, <3>1, LowMetrics
        <3> HIDE DEF m
        <3>4. m # Undefined /\ m.required = 2
            BY <3>3 DEF Metric, Undefined
        <3>5. Reads(b) = 2
            BY <1>6, LowReads
        <3> QED
            BY <1>1, <3>2, <3>4, <3>5 DEF Agree
    <2> QED
        BY <2>1, <2>2
<1>7. CASE n \in Reads1
    <2>1. CASE rev < Constantinople /\ n = "EXTCODEHASH"
        BY <1>1, <2>1, LowRow, Refusals DEF Agree
    <2>2. CASE ~(rev < Constantinople /\ n = "EXTCODEHASH")
        <3>1. m \in {LowMetric(n), Metric(20, 1, 0), Metric(50, 1, 0), Metric(700, 1, 0), Metric(800, 1, 0)}
            BY <1>2, <1>7, <2>2, LowRow DEF Reads1
        <3>2. ~Refused(n, rev)
            BY <1>7, <2>2, Refusals DEF Reads1
        <3>3. m \in {Metric(3, 1, 0), Metric(2, 1, -1), Metric(8, 1, -1), Metric(200, 1, 0), Metric(400, 1, 0)}
              \/ m \in {Metric(20, 1, 0), Metric(50, 1, 0), Metric(700, 1, 0), Metric(800, 1, 0)}
            <4>1. CASE m = LowMetric(n)
                BY <1>7, <4>1, LowMetrics
            <4>2. CASE m # LowMetric(n)
                BY <3>1, <4>2
            <4> QED
                BY <4>1, <4>2
        <3> HIDE DEF m
        <3>4. m # Undefined /\ m.required = 1
            BY <3>3 DEF Metric, Undefined
        <3>5. Reads(b) = 1
            BY <1>7, LowReads
        <3> QED
            BY <1>1, <3>2, <3>4, <3>5 DEF Agree
    <2> QED
        BY <2>1, <2>2
<1>8. CASE n \notin Reads4 \cup Reads3 \cup Reads2 \cup Reads1 \cup {"STOP", "CHAINID", "SELFBALANCE"}
    <2>1. CASE rev < Byzantium /\ n = "RETURNDATASIZE"
        BY <1>1, <2>1, LowRow, Refusals DEF Agree
    <2>2. CASE ~(rev < Byzantium /\ n = "RETURNDATASIZE")
        <3>1. m = LowMetric(n)
            BY <1>8, <2>2, LowRow DEF Reads1, Reads2, Reads3, Reads4
        <3>2. ~Refused(n, rev)
            BY <1>8, <2>2, Refusals DEF LowNames, Reads1, Reads2, Reads3, Reads4
        <3>3. m # Undefined /\ m.required = 0
            BY <1>8, <3>1, LowMetrics, Metrics
        <3> QED
            BY <1>1, <1>8, <3>2, <3>3, LowReads DEF Agree
    <2> QED
        BY <2>1, <2>2
<1> QED
    BY <1>3, <1>4, <1>5, <1>6, <1>7, <1>8

LEMMA AgreeHigh ==
    ASSUME NEW rev \in Revisions, NEW b \in Bytes, b >= 128, Instruction[b] \in HighNames \ {"INVALID"},
           jumpTable[b] = Instruction[b], Instruction[b] \notin BadLabels
    PROVE  Agree(s_metrics[rev][b], b, rev)
<1> DEFINE n == Instruction[b]
           k == Number[b]
           m == HighOf(rev)[b]
<1>1. b \notin {172, 173, 174}
    BY Names DEF SyntheticNames, HighNames
<1>2. s_metrics[rev][b] = m
    BY <1>1, MetricsAt DEF Bytes
<1>3. rev \in Int /\ Homestead = 1 /\ Byzantium = 4 /\ Constantinople = 5
    BY DEF Revisions, Frontier, Berlin, Homestead, Byzantium, Constantinople
<1>4. k \in Int
    BY Numbers
<1>5. n # "STOP"
    BY DEF HighNames
<1>6. CASE n \in {"CALL", "CALLCODE"}
    <2>1. m \in {Metric(40, 7, -6), Metric(700, 7, -6)}
        BY <1>6, HighRow, HighMetrics
    <2>2. Reads(b) = 7 /\ ~Refused(n, rev)
        BY <1>6, HighReads, Refusals
    <2> HIDE DEF m
    <2>3. m # Undefined /\ m.required = 7
        BY <2>1 DEF Metric, Undefined
    <2> QED
        BY <1>2, <2>2, <2>3 DEF Agree
<1>7. CASE n \in {"DELEGATECALL", "STATICCALL"}
    <2>1. IF n = "DELEGATECALL" THEN Refused(n, rev) <=> rev < Homestead ELSE Refused(n, rev) <=> rev < Byzantium
        BY <1>7, Refusals
    <2>2. IF Refused(n, rev) THEN m = Undefined ELSE m \in {Metric(40, 6, -5), Metric(700, 6, -5)}
        BY <1>3, <1>7, <2>1, HighRow, HighMetrics
    <2>3. Reads(b) = 6
        BY <1>7, HighReads
    <2> HIDE DEF m
    <2>4. ~Refused(n, rev) => m # Undefined /\ m.required = 6
        BY <2>2 DEF Metric, Undefined
    <2> QED
        BY <1>2, <2>2, <2>3, <2>4 DEF Agree
<1>8. CASE n \in {"CREATE2", "REVERT"}
    <2>1. IF n = "CREATE2" THEN Refused(n, rev) <=> rev < Constantinople ELSE Refused(n, rev) <=> rev < Byzantium
        BY <1>8, Refusals
    <2>2. IF Refused(n, rev) THEN m = Undefined
          ELSE IF n = "CREATE2" THEN m = Metric(32000, 4, -3) ELSE m = Metric(0, 2, -2)
        BY <1>3, <1>8, <2>1, HighRow, HighMetrics
    <2>3. Reads(b) = IF n = "CREATE2" THEN 4 ELSE 2
        BY <1>8, HighReads
    <2> HIDE DEF m
    <2>4. ~Refused(n, rev) => m # Undefined /\ m.required = (IF n = "CREATE2" THEN 4 ELSE 2)
        BY <2>2 DEF Metric, Undefined
    <2> QED
        BY <1>2, <2>2, <2>3, <2>4 DEF Agree
<1>9. CASE n \in {"CREATE", "RETURN", "SELFDESTRUCT"}
    <2>1. \/ n = "SELFDESTRUCT" /\ m \in {Metric(0, 1, -1), Metric(5000, 1, -1)}
          \/ n = "CREATE" /\ m = Metric(32000, 3, -2)
          \/ n = "RETURN" /\ m = Metric(0, 2, -2)
        BY <1>9, HighRow, HighMetrics
    <2>2. ~Refused(n, rev)
        BY <1>9, Refusals
    <2>3. Reads(b) = IF n = "SELFDESTRUCT" THEN 1 ELSE IF n = "CREATE" THEN 3 ELSE 2
        BY <1>9, HighReads
    <2> HIDE DEF m
    <2>4. m # Undefined /\ m.required = (IF n = "SELFDESTRUCT" THEN 1 ELSE IF n = "CREATE" THEN 3 ELSE 2)
        BY <2>1 DEF Metric, Undefined
    <2> QED
        BY <1>2, <2>2, <2>3, <2>4 DEF Agree
<1>10. CASE n \in {"DUP", "SWAP", "LOG"}
    <2>1. m = IF n = "DUP" THEN Metric(3, k, 1)
              ELSE IF n = "SWAP" THEN Metric(3, k + 1, 0) ELSE Metric((k + 1) * 375, k + 2, -(k + 2))
        BY <1>10, HighRow, HighMetrics
    <2>2. ~Refused(n, rev)
        BY <1>10, Refusals
    <2>3. Reads(b) = IF n = "DUP" THEN k ELSE IF n = "SWAP" THEN k + 1 ELSE k + 2
        BY <1>10, HighReads
    <2> HIDE DEF m, k
    <2>4. m # Undefined /\ m.required = (IF n = "DUP" THEN k ELSE IF n = "SWAP" THEN k + 1 ELSE k + 2)
        BY <1>4, <2>1 DEF Metric, Undefined
    <2> QED
        BY <1>2, <1>4, <2>2, <2>3, <2>4 DEF Agree
<1> QED
    BY <1>6, <1>7, <1>8, <1>9, <1>10 DEF HighNames

(* The tables agree about every byte that is not an opcode of the           *)
(* interpreter's own, in every revision.                                   *)
LEMMA AllAgree ==
    ASSUME NEW rev \in Revisions, NEW b \in Bytes, b \notin {172, 173, 174}
    PROVE  Agree(s_metrics[rev][b], b, rev)
<1>1. CASE jumpTable[b] \in BadLabels
    <2>1. Instruction[b] \in {None, "INVALID"} \cup SyntheticNames \cup ExtensionNames
        BY <1>1, Labels
    <2> QED
        BY <1>1, <2>1, AgreeWhereRefused
<1>2. CASE jumpTable[b] \notin BadLabels
    <2>1. /\ Instruction[b] \in LowNames \cup (HighNames \ {"INVALID"})
          /\ jumpTable[b] = Instruction[b]
        BY <1>2, Labels
    <2>2. LowNames \cap (HighNames \cup SyntheticNames \cup ExtensionNames \cup {None}) = {}
        BY DEF LowNames, HighNames, SyntheticNames, ExtensionNames, None
    <2>3. None \notin HighNames
        BY DEF HighNames, None
    <2>4. CASE b < 128
        BY <1>2, <2>1, <2>2, <2>3, <2>4, Names, AgreeLow
    <2>5. CASE b >= 128
        BY <1>2, <2>1, <2>2, <2>5, Names, AgreeHigh
    <2> QED
        BY <2>4, <2>5 DEF Bytes
<1> QED
    BY <1>1, <1>2

-----------------------------------------------------------------------------
(* optimize(), one byte of the program after the other.                     *)

LEMMA PushedBytes ==
    ASSUME NEW b \in Bytes
    PROVE  /\ Pushed(b) \in 0 .. 32
           /\ b \in {0, 172, 173, 174, 175} => Pushed(b) = 0
<1>1. {0, 172, 173, 174, 175} \cap 96 .. 127 = {}
    OBVIOUS
<1> QED
    BY <1>1, Names, Numbers DEF Pushed

LEMMA Programs ==
    ASSUME NEW program \in Seq(Bytes)
    PROVE  /\ Len(program) \in Nat /\ \A i \in 1 .. Len(program) : program[i] \in Bytes
           /\ DOMAIN Upto(Len(program)) = 1 .. Len(program) /\ Len(Upto(Len(program))) = Len(program)
           /\ Upto(Len(program)) \in Seq(0 .. Len(program) - 1)
           /\ \A n \in 0 .. Len(program) - 1 : Upto(Len(program))[n + 1] = n
    BY DEF Upto

(* InstructionStarts, of any program.                                       *)
StartsOf(program) ==
    FoldLeft(LAMBDA starts, at : IF at \in starts THEN starts \cup {at + 1 + Pushed(program[at + 1])} ELSE starts,
             {0}, Upto(Len(program)))

LEMMA StartsFold ==
    ASSUME NEW program \in Seq(Bytes)
    PROVE  \E h : /\ h[0] = {0} /\ h[Len(program)] = StartsOf(program)
                  /\ \A n \in 0 .. Len(program) - 1 :
                        h[n + 1] = IF n \in h[n] THEN h[n] \cup {n + 1 + Pushed(program[n + 1])} ELSE h[n]
<1> DEFINE L == Len(program)
           seq == Upto(L)
           A == SUBSET Nat
           Step(S, at) == IF at \in S THEN S \cup {at + 1 + Pushed(program[at + 1])} ELSE S
           G == [x \in A \X (0 .. L - 1) |-> Step(x[1], x[2])]
           Rec(f) == [s \in SUBSET DOMAIN seq |->
                         IF s = {} THEN {0} ELSE Step(f[s \ {Max(s)}], seq[Max(s)])]
           it == CHOOSE f : f = Rec(f)
           h == [n \in 0 .. L |-> it[1 .. n]]
<1>1. seq \in Seq(0 .. L - 1) /\ DOMAIN seq = 1 .. L /\ Len(seq) = L /\ L \in Nat
    BY Programs
<1>2. {0} \in A
    OBVIOUS
<1>3. \A S \in A, at \in 0 .. L - 1 : Step(S, at) \in A
    <2> SUFFICES ASSUME NEW S \in A, NEW at \in 0 .. L - 1
                 PROVE  Step(S, at) \in A
        OBVIOUS
    <2>1. program[at + 1] \in Bytes /\ at \in Nat
        BY Programs
    <2>2. PICK k \in 0 .. 32 : k = Pushed(program[at + 1])
        BY <2>1, PushedBytes
    <2>3. at + 1 + k \in Nat
        BY <2>1
    <2> QED
        BY <2>2, <2>3
<1>4. G \in [A \X (0 .. L - 1) -> A]
    <2> HIDE DEF Step, A
    <2> QED
        BY <1>3
<1>5. PICK f : Folds(f, A, G, {0}, seq)
    <2> HIDE DEF G, A, seq
    <2> QED
        BY <1>1, <1>2, <1>4, FoldExists
<1>6. f = Rec(f)
    <2>1. f \in [SUBSET (1 .. L) -> A] /\ f[{}] = {0}
        BY <1>1, <1>5 DEF Folds
    <2>2. ASSUME NEW s \in SUBSET (1 .. L), s # {}
          PROVE  f[s] = Step(f[s \ {Max(s)}], seq[Max(s)])
        <3>1. /\ f[s] = G[<<f[s \ {Max(s)}], seq[Max(s)]>>]
              /\ f[s \ {Max(s)}] \in A /\ seq[Max(s)] \in 0 .. L - 1
            <4> HIDE DEF seq, G, A
            <4> QED BY <1>1, <1>5, <2>2, FoldStep
        <3> HIDE DEF Step, A
        <3> QED
            BY <3>1
    <2> HIDE DEF seq, G, Step, A
    <2> QED
        BY <1>1, <2>1, <2>2
<1>7. it = Rec(it)
    <2> HIDE DEF Rec
    <2> QED BY <1>6
<1>8. ASSUME NEW n \in 0 .. L - 1
      PROVE  h[n + 1] = Step(h[n], n)
    <2>1. it[1 .. n + 1] = Step(it[1 .. n], seq[n + 1])
        <3> HIDE DEF it, Step, seq, L
        <3>1. /\ (1 .. n + 1) \in SUBSET DOMAIN seq /\ 1 .. n + 1 # {}
              /\ Max(1 .. n + 1) = n + 1 /\ (1 .. n + 1) \ {n + 1} = 1 .. n
            BY <1>1, PrefixStep
        <3>2. \A s \in SUBSET DOMAIN seq : s # {} => it[s] = Step(it[s \ {Max(s)}], seq[Max(s)])
            BY <1>7
        <3> QED
            BY <3>1, <3>2
    <2>2. seq[n + 1] = n /\ n + 1 \in 0 .. L /\ n \in 0 .. L
        BY <1>1, Programs
    <2> HIDE DEF it, Step, seq
    <2> QED
        BY <2>1, <2>2
<1>9. h[0] = {0}
    <2>1. 1 .. 0 = {} /\ 0 \in 0 .. L
        BY <1>1
    <2> HIDE DEF it, Step, seq
    <2> QED
        BY <1>7, <2>1
<1>10. StartsOf(program) = it[DOMAIN seq]
    BY DEF StartsOf, FoldLeft, MapThenFoldSet
<1>11. h[L] = StartsOf(program)
    <2> HIDE DEF it, seq
    <2> QED
        BY <1>1, <1>10
<1> HIDE DEF h
<1> QED
    BY <1>8, <1>9, <1>11

(* One step of optimize(), and the code it starts with.                     *)
Scan(s, at) ==
    LET byte == s.code[at + 1]
        next == at + 1 + Pushed(byte)
    IN IF at # s.next THEN s
       ELSE [next |-> next,
             code |-> IF Instruction[byte] \in {"PUSHC", "JUMPC", "JUMPCI"}
                      THEN [s.code EXCEPT ![at + 1] = Byte("UNDEFINED")] ELSE s.code,
             dests |-> IF Instruction[byte] = "JUMPDEST" THEN s.dests \cup {at} ELSE s.dests]
Copied(program) == [next |-> 0, dests |-> {}, code |-> program \o [i \in 1 .. Extra |-> 0]]
Scans(L) == [next : Nat, dests : SUBSET Nat, code : [1 .. L + 33 -> Bytes]]

LEMMA CopyOfCode ==
    ASSUME NEW program \in Seq(Bytes)
    PROVE  /\ Copied(program) \in Scans(Len(program))
           /\ \A i \in 1 .. Len(program) : Copied(program).code[i] = program[i]
           /\ \A i \in Len(program) + 1 .. Len(program) + 33 : Copied(program).code[i] = 0
<1> DEFINE L == Len(program)
           zeros == [i \in 1 .. Extra |-> 0]
           copy == program \o zeros
<1>1. zeros \in Seq(Bytes) /\ Len(zeros) = 33 /\ \A i \in 1 .. 33 : zeros[i] = 0
    BY DEF Extra, Bytes
<1> HIDE DEF zeros
<1>2. copy \in Seq(Bytes) /\ Len(copy) = L + 33 /\ L \in Nat
    <2>1. copy \in Seq(Bytes) /\ Len(copy) = L + Len(zeros)
        BY <1>1, ConcatProperties
    <2>2. L \in Nat
        OBVIOUS
    <2> HIDE DEF copy, L
    <2> QED
        BY <1>1, <2>1, <2>2
<1>3. \A i \in 1 .. L + 33 : copy[i] = IF i <= L THEN program[i] ELSE zeros[i - L]
    <2>1. \A i \in 1 .. L + Len(zeros) : copy[i] = IF i <= L THEN program[i] ELSE zeros[i - L]
        BY <1>1, ConcatProperties
    <2> QED
        BY <1>1, <2>1
<1>4. copy \in [1 .. L + 33 -> Bytes]
    <2> HIDE DEF copy
    <2> QED
        BY <1>2
<1> HIDE DEF copy, L
<1>5. \A i \in L + 1 .. L + 33 : copy[i] = 0
    <2> SUFFICES ASSUME NEW i \in L + 1 .. L + 33
                 PROVE  copy[i] = 0
        OBVIOUS
    <2>1. i \in 1 .. L + 33 /\ ~(i <= L) /\ i - L \in 1 .. 33
        BY <1>2
    <2> QED
        BY <1>1, <1>3, <2>1
<1>6. \A i \in 1 .. L : copy[i] = program[i]
    BY <1>2, <1>3
<1>7. Copied(program) = [next |-> 0, dests |-> {}, code |-> copy]
    BY DEF Copied, copy, zeros
<1> QED
    BY <1>4, <1>5, <1>6, <1>7 DEF Scans, L

LEMMA ScanTyped ==
    ASSUME NEW L \in Nat, NEW s \in Scans(L), NEW at \in 0 .. L - 1
    PROVE  Scan(s, at) \in Scans(L)
<1> DEFINE byte == s.code[at + 1]
<1>1. /\ s.next \in Nat /\ s.dests \in SUBSET Nat /\ s.code \in [1 .. L + 33 -> Bytes]
      /\ at + 1 \in 1 .. L + 33 /\ at \in Nat
    BY DEF Scans
<1>2. byte \in Bytes
    BY <1>1
<1> HIDE DEF byte
<1>3. PICK k \in 0 .. 32 : k = Pushed(byte)
    BY <1>2, PushedBytes
<1>4. at + 1 + k \in Nat
    BY <1>1
<1>5. [s.code EXCEPT ![at + 1] = Byte("UNDEFINED")] \in [1 .. L + 33 -> Bytes]
    <2>1. Byte("UNDEFINED") \in Bytes
        BY ByteOf DEF Bytes
    <2> QED
        BY <1>1, <2>1
<1>6. CASE at # s.next
    BY <1>6 DEF Scan
<1>7. CASE at = s.next
    <2> DEFINE c == IF Instruction[byte] \in {"PUSHC", "JUMPC", "JUMPCI"}
                    THEN [s.code EXCEPT ![at + 1] = Byte("UNDEFINED")] ELSE s.code
               d == IF Instruction[byte] = "JUMPDEST" THEN s.dests \cup {at} ELSE s.dests
    <2>1. Scan(s, at) = [next |-> at + 1 + Pushed(byte), code |-> c, dests |-> d]
        BY <1>7 DEF Scan, byte
    <2>2. c \in [1 .. L + 33 -> Bytes] /\ d \in SUBSET Nat
        BY <1>1, <1>5
    <2> HIDE DEF c, d
    <2> QED
        BY <1>3, <1>4, <2>1, <2>2 DEF Scans
<1> QED
    BY <1>6, <1>7

LEMMA OptimizeFold ==
    ASSUME NEW program \in Seq(Bytes)
    PROVE  \E h : /\ h[0] = Copied(program) /\ h[Len(program)] = optimize(program)
                  /\ \A n \in 0 .. Len(program) - 1 : h[n + 1] = Scan(h[n], n)
<1> DEFINE L == Len(program)
           seq == Upto(L)
           A == Scans(L)
           base == Copied(program)
           G == [x \in A \X (0 .. L - 1) |-> Scan(x[1], x[2])]
           Rec(f) == [s \in SUBSET DOMAIN seq |->
                         IF s = {} THEN base ELSE Scan(f[s \ {Max(s)}], seq[Max(s)])]
           it == CHOOSE f : f = Rec(f)
           h == [n \in 0 .. L |-> it[1 .. n]]
<1>1. seq \in Seq(0 .. L - 1) /\ DOMAIN seq = 1 .. L /\ Len(seq) = L /\ L \in Nat
    BY Programs
<1>2. base \in A
    BY CopyOfCode
<1>3. \A S \in A, at \in 0 .. L - 1 : Scan(S, at) \in A
    BY <1>1, ScanTyped
<1>4. G \in [A \X (0 .. L - 1) -> A]
    <2> HIDE DEF A
    <2> QED
        BY <1>3
<1>5. PICK f : Folds(f, A, G, base, seq)
    <2> HIDE DEF G, A, seq, base
    <2> QED
        BY <1>1, <1>2, <1>4, FoldExists
<1>6. f = Rec(f)
    <2>1. f \in [SUBSET (1 .. L) -> A] /\ f[{}] = base
        <3> HIDE DEF base, A, G
        <3> QED
            BY <1>1, <1>5 DEF Folds
    <2>2. ASSUME NEW s \in SUBSET (1 .. L), s # {}
          PROVE  f[s] = Scan(f[s \ {Max(s)}], seq[Max(s)])
        <3>1. /\ f[s] = G[<<f[s \ {Max(s)}], seq[Max(s)]>>]
              /\ f[s \ {Max(s)}] \in A /\ seq[Max(s)] \in 0 .. L - 1
            <4> HIDE DEF seq, G, A, base
            <4> QED BY <1>1, <1>5, <2>2, FoldStep
        <3> HIDE DEF A
        <3> QED
            BY <3>1
    <2> HIDE DEF seq, G, A, base
    <2> QED
        BY <1>1, <2>1, <2>2
<1>7. it = Rec(it)
    <2> HIDE DEF Rec
    <2> QED BY <1>6
<1>8. ASSUME NEW n \in 0 .. L - 1
      PROVE  h[n + 1] = Scan(h[n], n)
    <2>1. it[1 .. n + 1] = Scan(it[1 .. n], seq[n + 1])
        <3> HIDE DEF it, seq, L, base
        <3>1. /\ (1 .. n + 1) \in SUBSET DOMAIN seq /\ 1 .. n + 1 # {}
              /\ Max(1 .. n + 1) = n + 1 /\ (1 .. n + 1) \ {n + 1} = 1 .. n
            BY <1>1, PrefixStep
        <3>2. \A s \in SUBSET DOMAIN seq : s # {} => it[s] = Scan(it[s \ {Max(s)}], seq[Max(s)])
            BY <1>7
        <3> QED
            BY <3>1, <3>2
    <2>2. seq[n + 1] = n /\ n + 1 \in 0 .. L /\ n \in 0 .. L
        BY <1>1, Programs
    <2> HIDE DEF it, seq
    <2> QED
        BY <2>1, <2>2
<1>9. h[0] = base
    <2>1. 1 .. 0 = {} /\ 0 \in 0 .. L
        BY <1>1
    <2> HIDE DEF it, seq, base
    <2> QED
        BY <1>7, <2>1
<1>10. optimize(program) = it[DOMAIN seq]
    BY DEF optimize, FoldLeft, MapThenFoldSet, Scan, Copied
<1>11. h[L] = optimize(program)
    <2> HIDE DEF it, seq
    <2> QED
        BY <1>1, <1>10
<1> HIDE DEF h
<1> QED
    BY <1>8, <1>9, <1>11

(* What holds after n bytes of the program, o being the scan and S the      *)
(* starts: the next instruction is the only start that is not passed, and   *)
(* the code has changed only where there was an opcode of the interpreter's *)
(* own.                                                                    *)
Own == {172, 173, 174}
Scanned(program, o, S, n) ==
    /\ o \in Scans(Len(program)) /\ S \in SUBSET Nat
    /\ o.next \in n .. Len(program) + 32 /\ o.next \in S /\ 0 \in S
    /\ \A x \in S : x < n \/ x = o.next
    /\ \A x \in S : x < n => x + 1 + Pushed(program[x + 1]) \in S /\ o.code[x + 1] \notin Own
    /\ \A x \in o.dests : x \in S /\ x < n
    /\ \A i \in 1 .. Len(program) : o.code[i] = program[i] \/ (i <= n /\ program[i] \in Own /\ o.code[i] = 175)
    /\ \A i \in Len(program) + 1 .. Len(program) + 33 : o.code[i] = 0

LEMMA ScannedStep ==
    ASSUME NEW program \in Seq(Bytes), NEW n \in 0 .. Len(program) - 1, NEW o, NEW S, Scanned(program, o, S, n)
    PROVE  Scanned(program, Scan(o, n), IF n \in S THEN S \cup {n + 1 + Pushed(program[n + 1])} ELSE S, n + 1)
<1> DEFINE L == Len(program)
           byte == program[n + 1]
           next == n + 1 + Pushed(byte)
           p == Scan(o, n)
<1>1. /\ L \in Nat /\ n \in Nat /\ n < L /\ n + 1 \in 1 .. L /\ n + 1 \in 1 .. L + 33
      /\ n + 1 \notin L + 1 .. L + 33 /\ byte \in Bytes
    BY Programs
<1>2. /\ o \in Scans(L) /\ S \in SUBSET Nat
      /\ o.next \in n .. L + 32 /\ o.next \in S /\ 0 \in S
      /\ o.next \in Nat /\ o.dests \in SUBSET Nat /\ o.code \in [1 .. L + 33 -> Bytes]
    BY DEF Scanned, Scans
<1>3. /\ \A x \in S : x < n \/ x = o.next
      /\ \A x \in S : x < n => x + 1 + Pushed(program[x + 1]) \in S /\ o.code[x + 1] \notin Own
      /\ \A x \in o.dests : x \in S /\ x < n
      /\ \A i \in 1 .. L : o.code[i] = program[i] \/ (i <= n /\ program[i] \in Own /\ o.code[i] = 175)
      /\ \A i \in L + 1 .. L + 33 : o.code[i] = 0
    BY DEF Scanned
<1>4. p \in Scans(L)
    BY <1>1, <1>2, ScanTyped
<1>5. PICK k \in 0 .. 32 : k = Pushed(byte)
    BY <1>1, PushedBytes
<1>6. next \in n + 1 .. L + 32 /\ next \in Nat
    <2>1. n + 1 + k \in n + 1 .. L + 32 /\ n + 1 + k \in Nat
        BY <1>1
    <2> QED
        BY <1>5, <2>1
<1>7. o.code[n + 1] = byte
    BY <1>1, <1>3
<1> HIDE DEF L, byte, next, p
<1>8. CASE o.next # n
    <2>1. n \notin S
        BY <1>1, <1>3, <1>8
    <2>2. p = o
        BY <1>8 DEF p, Scan
    <2>3. o.next \in n + 1 .. L + 32
        BY <1>1, <1>2, <1>8
    <2>4. \A x \in S : (x < n + 1 <=> x < n)
        BY <1>1, <1>2, <2>1
    <2>5. \A x \in o.dests : x \in S /\ x < n + 1
        BY <1>1, <1>2, <1>3
    <2>6. \A i \in 1 .. L : o.code[i] = program[i] \/ (i <= n + 1 /\ program[i] \in Own /\ o.code[i] = 175)
        BY <1>1, <1>3
    <2> QED
        BY <1>2, <1>3, <2>1, <2>2, <2>3, <2>4, <2>5, <2>6 DEF Scanned, p, L
<1>9. CASE o.next = n
    <2> DEFINE c == IF Instruction[byte] \in {"PUSHC", "JUMPC", "JUMPCI"}
                    THEN [o.code EXCEPT ![n + 1] = Byte("UNDEFINED")] ELSE o.code
               d == IF Instruction[byte] = "JUMPDEST" THEN o.dests \cup {n} ELSE o.dests
               T == S \cup {next}
    <2>1. n \in S
        BY <1>2, <1>9
    <2>2. p = [next |-> next, code |-> c, dests |-> d]
        BY <1>7, <1>9 DEF p, Scan, next, byte
    <2>3. c = IF byte \in Own THEN [o.code EXCEPT ![n + 1] = 175] ELSE o.code
        <3>1. Instruction[byte] \in {"PUSHC", "JUMPC", "JUMPCI"} <=> byte \in Own
            BY <1>1, Names DEF Own
        <3> QED
            BY <3>1, ByteOf
    <2>4. d = o.dests \/ d = o.dests \cup {n}
        OBVIOUS
    <2> HIDE DEF c, d, T
    <2>5. p.next = next /\ p.code = c /\ p.dests = d
        BY <2>2
    <2>6. /\ \A i \in 1 .. L + 33 : i # n + 1 => c[i] = o.code[i]
          /\ c[n + 1] = (IF byte \in Own THEN 175 ELSE byte)
        BY <1>1, <1>2, <1>7, <2>3
    <2>7. T \in SUBSET Nat /\ next \in T /\ 0 \in T
        BY <1>2, <1>6 DEF T
    <2>8. \A x \in T : x < n + 1 \/ x = next
        BY <1>1, <1>2, <1>3, <1>9 DEF T
    <2>9. ASSUME NEW x \in T, x < n + 1
          PROVE  x + 1 + Pushed(program[x + 1]) \in T /\ c[x + 1] \notin Own
        <3>1. CASE x = n
            <4>1. x + 1 + Pushed(program[x + 1]) = next
                BY <3>1 DEF next, byte
            <4>2. c[x + 1] \notin Own
                BY <2>6, <3>1 DEF Own
            <4> QED
                BY <2>7, <4>1, <4>2
        <3>2. CASE x # n
            <4>1. x \in S /\ x < n /\ x \in Nat
                BY <1>1, <1>6, <2>7, <2>9, <3>2 DEF T
            <4>2. x + 1 \in 1 .. L + 33 /\ x + 1 # n + 1
                BY <1>1, <4>1
            <4> QED
                BY <1>3, <2>6, <4>1, <4>2 DEF T
        <3> QED
            BY <3>1, <3>2
    <2>10. \A x \in d : x \in T /\ x < n + 1
        BY <1>1, <1>2, <1>3, <2>1, <2>4 DEF T
    <2>11. ASSUME NEW i \in 1 .. L
           PROVE  c[i] = program[i] \/ (i <= n + 1 /\ program[i] \in Own /\ c[i] = 175)
        <3>1. CASE i = n + 1
            BY <1>1, <2>6, <3>1 DEF byte
        <3>2. CASE i # n + 1
            BY <1>1, <1>3, <2>6, <3>2
        <3> QED
            BY <3>1, <3>2
    <2>12. \A i \in L + 1 .. L + 33 : c[i] = 0
        BY <1>1, <1>3, <2>6
    <2>13. Scanned(program, p, T, n + 1)
        BY <1>4, <1>6, <2>5, <2>7, <2>8, <2>9, <2>10, <2>11, <2>12 DEF Scanned, L
    <2> QED
        BY <2>1, <2>13 DEF T, next, byte, p
<1> QED
    BY <1>8, <1>9

LEMMA Optimized ==
    ASSUME NEW program \in Seq(Bytes)
    PROVE  Scanned(program, optimize(program), StartsOf(program), Len(program))
<1> DEFINE L == Len(program)
<1>1. PICK h : /\ h[0] = Copied(program) /\ h[L] = optimize(program)
               /\ \A n \in 0 .. L - 1 : h[n + 1] = Scan(h[n], n)
    BY OptimizeFold
<1>2. PICK g : /\ g[0] = {0} /\ g[L] = StartsOf(program)
               /\ \A n \in 0 .. L - 1 :
                      g[n + 1] = IF n \in g[n] THEN g[n] \cup {n + 1 + Pushed(program[n + 1])} ELSE g[n]
    BY StartsFold
<1> DEFINE Done == {n \in Nat : n <= L => Scanned(program, h[n], g[n], n)}
<1>3. L \in Nat
    OBVIOUS
<1>4. 0 \in Done
    <2>1. Copied(program).next = 0 /\ Copied(program).dests = {}
        BY DEF Copied
    <2>2. 0 \in 0 .. L + 32
        BY <1>3
    <2>3. Scanned(program, Copied(program), {0}, 0)
        BY <2>1, <2>2, CopyOfCode DEF Scanned
    <2> QED
        BY <1>1, <1>2, <2>3
<1>5. ASSUME NEW n \in Done
      PROVE  n + 1 \in Done
    <2> SUFFICES ASSUME n + 1 <= L
                 PROVE  Scanned(program, h[n + 1], g[n + 1], n + 1)
        OBVIOUS
    <2>1. n \in 0 .. L - 1 /\ Scanned(program, h[n], g[n], n)
        BY <1>3
    <2> HIDE DEF Done, L
    <2>2. h[n + 1] = Scan(h[n], n)
        BY <1>1, <2>1
    <2>3. g[n + 1] = IF n \in g[n] THEN g[n] \cup {n + 1 + Pushed(program[n + 1])} ELSE g[n]
        BY <1>2, <2>1
    <2>4. Scanned(program, Scan(h[n], n),
                  IF n \in g[n] THEN g[n] \cup {n + 1 + Pushed(program[n + 1])} ELSE g[n], n + 1)
        BY <2>1, ScannedStep DEF L
    <2> QED
        BY <2>2, <2>3, <2>4
<1>6. Done = Nat
    <2>1. Done \in SUBSET Nat
        OBVIOUS
    <2> HIDE DEF Done
    <2> QED
        BY <1>4, <1>5, <2>1, NatSetInduction
<1> QED
    BY <1>1, <1>2, <1>3, <1>6

-----------------------------------------------------------------------------
(* Where the interpreter stands.                                           *)

CodeInv ==
    /\ msg \in Messages
    /\ status = "entry" => pc = 0
    /\ status = "run" =>
          /\ code = optimize(msg.code).code /\ jumpDests = optimize(msg.code).dests
          /\ pc \in StartsOf(msg.code) /\ pc <= Len(msg.code) + 32
          /\ row = Entry(Here, s_metrics[Revision])

LEMMA AtStart ==
    ASSUME NEW program \in Seq(Bytes), NEW x \in StartsOf(program), x <= Len(program) + 32
    PROVE  LET c == optimize(program).code[x + 1]
           IN  /\ x \in Nat /\ c \in Bytes \ Own
               /\ Len(optimize(program).code) = Len(program) + 33
               /\ x < Len(program) => /\ x + 1 + Pushed(c) \in StartsOf(program)
                                      /\ x + 1 + Pushed(c) <= Len(program) + 32
               /\ x >= Len(program) => c = 0
<1> DEFINE L == Len(program)
           o == optimize(program)
           S == StartsOf(program)
           c == o.code[x + 1]
<1>1. /\ o \in Scans(L) /\ S \in SUBSET Nat /\ o.next \in L .. L + 32
      /\ \A y \in S : y < L => y + 1 + Pushed(program[y + 1]) \in S /\ o.code[y + 1] \notin Own
      /\ \A y \in S : y < L \/ y = o.next
      /\ \A i \in 1 .. L : o.code[i] = program[i] \/ (program[i] \in Own /\ o.code[i] = 175)
      /\ \A i \in L + 1 .. L + 33 : o.code[i] = 0
    BY Optimized DEF Scanned
<1>2. L \in Nat /\ x \in Nat /\ x + 1 \in 1 .. L + 33 /\ o.code \in [1 .. L + 33 -> Bytes]
    BY <1>1 DEF Scans
<1> HIDE DEF L, o, S
<1>3. Len(o.code) = L + 33
    <2>1. o.code \in Seq(Bytes) /\ DOMAIN o.code = 1 .. L + 33
        BY <1>2
    <2> QED
        BY <1>2, <2>1, LenProperties
<1>4. c \in Bytes
    BY <1>2
<1>5. ASSUME x < L
      PROVE  /\ c \notin Own /\ x + 1 + Pushed(c) \in S
             /\ x + 1 + Pushed(c) <= L + 32
    <2>1. c = program[x + 1] \/ (program[x + 1] \in Own /\ c = 175)
        BY <1>1, <1>2, <1>5
    <2>2. Pushed(c) = Pushed(program[x + 1])
        <3>1. \A b \in Own \cup {175} : b \in Bytes /\ Pushed(b) = 0
            <4>1. \A b \in Own \cup {175} : b \in Bytes /\ b \in {0, 172, 173, 174, 175}
                BY DEF Own, Bytes
            <4> QED
                BY <4>1, PushedBytes
        <3> QED
            BY <2>1, <3>1
    <2>3. PICK k \in 0 .. 32 : k = Pushed(c)
        BY <1>4, PushedBytes
    <2>4. x + 1 + k <= L + 32
        BY <1>2, <1>5
    <2> QED
        BY <1>1, <1>5, <2>2, <2>3, <2>4 DEF S
<1>6. ASSUME x >= L
      PROVE  c = 0 /\ c \notin Own
    <2>1. x + 1 \in L + 1 .. L + 33
        BY <1>2, <1>6
    <2> QED
        BY <1>1, <2>1 DEF Own
<1>7. x < L \/ x >= L
    BY <1>2
<1> QED
    BY <1>2, <1>3, <1>4, <1>5, <1>6, <1>7 DEF L, o, S

(* The label of a byte tells whether bytes follow it.                       *)
LEMMA PushLabels ==
    ASSUME NEW b \in Bytes
    PROVE  /\ jumpTable[b] = "PUSH" <=> Instruction[b] = "PUSH"
           /\ jumpTable[0] = "STOP"
<1>1. "PUSH" \in LowNames /\ "STOP" \in LowNames
    BY DEF LowNames
<1>2. {"PUSH", "STOP"} \cap ({None, "INVALID"} \cup SyntheticNames \cup ExtensionNames) = {}
    BY DEF None, SyntheticNames, ExtensionNames
<1>3. 96 \in Bytes /\ 0 \in Bytes /\ 96 \in 96 .. 127
    BY DEF Bytes
<1>4. Instruction[96] = "PUSH" /\ Instruction[0] = "STOP"
    BY <1>3, Names
<1>5. "PUSH" \notin BadLabels /\ jumpTable[0] = "STOP"
    BY <1>1, <1>2, <1>3, <1>4, Labels
<1> QED
    BY <1>1, <1>2, <1>5, Labels

LEMMA Standing ==
    ASSUME CodeInv, status = "run", EvmVmAssumption
    PROVE  /\ msg.code \in Seq(Bytes) /\ Len(msg.code) \in Nat
           /\ pc \in Nat /\ Here \in Bytes \ Own /\ Len(code) = Len(msg.code) + 33
           /\ Op = jumpTable[Here] /\ N = Number[Here]
           /\ Op # "STOP" => pc + 1 + Pushed(Here) \in StartsOf(msg.code) /\ pc + 1 + Pushed(Here) <= Len(msg.code) + 32
           /\ Pushed(Here) = IF Op = "PUSH" THEN N ELSE 0
           /\ pc + 1 + Pushed(Here) <= Len(code)
<1>1. msg.code \in Seq(Bytes)
    BY DEF CodeInv, EvmVmAssumption
<1>2. Len(msg.code) \in Nat
    BY <1>1
<1>3. /\ pc \in StartsOf(msg.code) /\ pc <= Len(msg.code) + 32 /\ code = optimize(msg.code).code
      /\ row = Entry(Here, s_metrics[Revision])
    BY DEF CodeInv
<1>4. /\ pc \in Nat /\ Here \in Bytes \ Own /\ Len(code) = Len(msg.code) + 33
      /\ pc < Len(msg.code) => /\ pc + 1 + Pushed(Here) \in StartsOf(msg.code)
                               /\ pc + 1 + Pushed(Here) <= Len(msg.code) + 32
      /\ pc >= Len(msg.code) => Here = 0
    BY <1>1, <1>3, AtStart DEF Here
<1>5. Op = jumpTable[Here] /\ N = Number[Here]
    BY <1>3 DEF Op, N, Entry
<1>6. Op # "STOP" => pc < Len(msg.code)
    BY <1>2, <1>4, <1>5, PushLabels
<1>7. Pushed(Here) = IF Op = "PUSH" THEN N ELSE 0
    BY <1>4, <1>5, PushLabels DEF Pushed
<1>8. pc + 1 + Pushed(Here) <= Len(code)
    <2>1. CASE pc < Len(msg.code)
        <3>1. PICK k \in 0 .. 32 : k = Pushed(Here)
            BY <1>4, PushedBytes
        <3>2. pc + 1 + k <= Len(msg.code) + 33
            BY <1>2, <1>4, <2>1, <3>1
        <3> QED
            BY <1>4, <3>1, <3>2
    <2>2. CASE pc >= Len(msg.code)
        <3>1. Pushed(Here) = 0
            BY <1>4, <2>2, PushedBytes
        <3>2. pc + 1 + 0 <= Len(msg.code) + 33
            BY <1>2, <1>3, <1>4
        <3> QED
            BY <1>4, <3>1, <3>2
    <2> QED
        BY <1>2, <1>4, <2>1, <2>2
<1> QED
    BY <1>1, <1>2, <1>4, <1>5, <1>6, <1>7, <1>8

(* A step to another start of an instruction keeps the invariant.           *)
LEMMA Moves ==
    ASSUME CodeInv, status = "run", EvmVmAssumption, UNCHANGED <<msg, code, jumpDests, status>>, fetchInstruction,
           pc' \in StartsOf(msg.code), pc' <= Len(msg.code) + 32
    PROVE  CodeInv'
<1>1. /\ code = optimize(msg.code).code /\ jumpDests = optimize(msg.code).dests /\ msg \in Messages
    BY DEF CodeInv
<1>2. msg.code \in Seq(Bytes)
    BY <1>1 DEF EvmVmAssumption
<1>3. Len(msg.code) \in Nat
    BY <1>2
<1>4. pc' \in Nat /\ Len(code) = Len(msg.code) + 33
    BY <1>1, <1>2, AtStart
<1>5. pc' < Len(code')
    BY <1>3, <1>4
<1>6. row' = Entry(code'[pc' + 1], s_metrics[Revision])
    BY <1>5 DEF fetchInstruction
<1> QED
    BY <1>1, <1>6 DEF CodeInv, Here

LEMMA GoesOn ==
    ASSUME CodeInv, status = "run", EvmVmAssumption, Op \notin {"PUSH", "STOP"}, Goes
    PROVE  CodeInv'
<1>1. pc' = pc + 1 /\ UNCHANGED <<msg, code, jumpDests, status>> /\ fetchInstruction
    BY DEF Goes
<1>2. pc \in Nat /\ Pushed(Here) = 0
    BY Standing
<1>3. pc + 1 + 0 \in StartsOf(msg.code) /\ pc + 1 + 0 <= Len(msg.code) + 32
    BY <1>2, Standing
<1>4. pc + 1 + 0 = pc + 1
    BY <1>2
<1> QED
    BY <1>1, <1>3, <1>4, Moves

LEMMA CodeInvStep ==
    ASSUME CodeInv, [Next]_vars, EvmVmAssumption
    PROVE  CodeInv'
<1>1. CASE initEntry
    <2>1. /\ pc = 0 /\ pc' = 0 /\ msg' = msg /\ msg \in Messages /\ status' = "run"
          /\ code' = optimize(msg.code).code /\ jumpDests' = optimize(msg.code).dests /\ fetchInstruction
        BY <1>1 DEF initEntry, CodeInv
    <2>2. msg.code \in Seq(Bytes)
        BY <2>1 DEF EvmVmAssumption
    <2>3. 0 \in StartsOf(msg.code) /\ Len(msg.code) \in Nat
        BY <2>2, Optimized DEF Scanned
    <2>4. Len(code') = Len(msg.code) + 33 /\ 0 <= Len(msg.code) + 32
        <3>1. 0 <= Len(msg.code) + 32
            BY <2>3
        <3> QED
            BY <2>1, <2>2, <2>3, <3>1, AtStart
    <2>5. pc' < Len(code')
        BY <2>1, <2>3, <2>4
    <2>6. row' = Entry(code'[pc' + 1], s_metrics[Revision])
        BY <2>1, <2>5 DEF fetchInstruction
    <2> QED
        BY <2>1, <2>3, <2>4, <2>6 DEF CodeInv, Here
<1>2. ASSUME NEW reason, Fails(reason), reason \notin {"entry", "run"}
      PROVE  CodeInv'
    BY <1>2 DEF Fails, CodeInv
<1>3. CASE throwBadStack
    BY <1>2, <1>3 DEF throwBadStack
<1>4. CASE throwBadInstruction
    BY <1>2, <1>4 DEF throwBadInstruction
<1>5. CASE throwBufferOverrun
    BY <1>2, <1>5 DEF throwBufferOverrun
<1>6. CASE throwOutOfGas
    BY <1>2, <1>6 DEF throwOutOfGas
<1>7. CASE throwBadJumpDestination
    BY <1>2, <1>7 DEF throwBadJumpDestination
<1>8. ASSUME NEW names, Starts(names), Goes, names \cap {"PUSH", "STOP"} = {}
      PROVE  CodeInv'
    BY <1>8, GoesOn DEF Starts
<1>9. CASE Compute
    <2>1. Starts(Computes) /\ Goes
        BY <1>9 DEF Compute
    <2> QED
        BY <1>8, <2>1 DEF Computes, Binary
<1>10. CASE Query
    <2>1. Starts(Queries) /\ Goes
        BY <1>10 DEF Query
    <2> QED
        BY <1>8, <2>1 DEF Queries, MessageWords, BlockWords
<1>11. CASE Tell
    <2>1. Starts(SizeWords \cup {"PC", "MSIZE", "GAS"}) /\ Goes
        BY <1>11 DEF Tell
    <2> QED
        BY <1>8, <2>1 DEF SizeWords
<1>12. CASE Push
    <2>1. /\ status = "run" /\ Op = "PUSH" /\ pc' = pc + N + 1
          /\ UNCHANGED <<msg, code, jumpDests, status>> /\ fetchInstruction
        BY <1>12 DEF Push, Starts
    <2>2. pc \in Nat /\ Here \in Bytes /\ N = Pushed(Here)
        BY <2>1, Standing
    <2>3. pc + 1 + Pushed(Here) \in StartsOf(msg.code) /\ pc + 1 + Pushed(Here) <= Len(msg.code) + 32
        BY <2>1, Standing
    <2>4. PICK k \in 0 .. 32 : k = Pushed(Here)
        BY <2>2, PushedBytes
    <2>5. pc + k + 1 = pc + 1 + k
        BY <2>2
    <2>6. pc' = pc + 1 + Pushed(Here)
        BY <2>1, <2>2, <2>4, <2>5
    <2> QED
        BY <2>1, <2>3, <2>6, Moves
<1>13. CASE Dup
    <2>1. Starts({"DUP"}) /\ Goes
        BY <1>13 DEF Dup
    <2> QED
        BY <1>8, <2>1
<1>14. CASE Swap
    <2>1. Starts({"SWAP"}) /\ Goes
        BY <1>14 DEF Swap
    <2> QED
        BY <1>8, <2>1
<1>15. CASE Drop
    <2>1. Starts(Drops) /\ Goes
        BY <1>15 DEF Drop
    <2> QED
        BY <1>8, <2>1 DEF Drops, Copies
<1>16. CASE Jump
    <2>1. /\ status = "run" /\ Op \in {"JUMP", "JUMPI"} /\ (Jumps => Lands)
          /\ pc' = IF Jumps THEN Arg(0) ELSE pc + 1
          /\ UNCHANGED <<msg, code, jumpDests, status, left>> /\ fetchInstruction
        BY <1>16 DEF Jump, Starts
    <2>2. CASE ~Jumps
        BY <2>1, <2>2, GoesOn DEF Goes
    <2>3. CASE Jumps
        <3>1. pc' \in jumpDests /\ jumpDests = optimize(msg.code).dests /\ msg \in Messages
            BY <2>1, <2>3 DEF Lands, CodeInv
        <3>2. msg.code \in Seq(Bytes)
            BY <3>1 DEF EvmVmAssumption
        <3>3. pc' \in StartsOf(msg.code) /\ pc' < Len(msg.code) /\ pc' \in Nat /\ Len(msg.code) \in Nat
            BY <3>1, <3>2, Optimized DEF Scanned
        <3>4. pc' <= Len(msg.code) + 32
            BY <3>3
        <3> QED
            BY <2>1, <3>3, <3>4, Moves
    <2> QED
        BY <2>2, <2>3
<1>17. CASE Create
    <2>1. Starts({"CREATE", "CREATE2"}) /\ Goes
        BY <1>17 DEF Create
    <2> QED
        BY <1>8, <2>1
<1>18. CASE Call
    <2>1. Starts(Calls4) /\ Goes
        BY <1>18 DEF Call
    <2> QED
        BY <1>8, <2>1 DEF Calls4
<1>19. CASE Halt
    <2>1. status' \notin {"entry", "run"} /\ msg' = msg
        BY <1>19 DEF Halt
    <2> QED
        BY <2>1 DEF CodeInv
<1>20. CASE UNCHANGED vars
    BY <1>20 DEF vars, CodeInv, Here
<1> QED
    BY <1>1, <1>3, <1>4, <1>5, <1>6, <1>7, <1>9, <1>10, <1>11, <1>12, <1>13, <1>14, <1>15, <1>16, <1>17, <1>18,
       <1>19, <1>20 DEF Next

LEMMA CodeInvAlways == Spec => []CodeInv
<1>1. Init => CodeInv
    BY DEF Init, CodeInv
<1>2. CodeInv /\ [Next]_vars => CodeInv'
    BY EvmVmAssumption, CodeInvStep
<1> QED
    BY <1>1, <1>2, PTL DEF Spec

(* The interpreter tests no bound when it fetches an instruction or reads   *)
(* the bytes a PUSH pushes; it never leaves its copy of the code, and       *)
(* stands where an instruction of the program starts.                      *)
THEOREM CodeReadInside == Spec => []CodeIsReadInside
<1>1. CodeInv => CodeIsReadInside
    <2> SUFFICES ASSUME CodeInv, status = "run"
                 PROVE  /\ pc + 1 <= Len(code) /\ pc + 1 + Pushed(Here) <= Len(code)
                        /\ pc \in InstructionStarts
        BY DEF CodeIsReadInside
    <2>1. /\ pc \in Nat /\ pc + 1 + Pushed(Here) <= Len(code) /\ Here \in Bytes
          /\ Len(code) = Len(msg.code) + 33 /\ Len(msg.code) \in Nat
        BY EvmVmAssumption, Standing
    <2>2. pc + 1 <= Len(code)
        <3>1. pc <= Len(msg.code) + 32
            BY DEF CodeInv
        <3> QED
            BY <2>1, <3>1
    <2>3. InstructionStarts = StartsOf(msg.code)
        BY DEF InstructionStarts, StartsOf, FoldLeft, MapThenFoldSet
    <2> QED
        BY <2>1, <2>2, <2>3 DEF CodeInv
<1> QED
    BY <1>1, CodeInvAlways, PTL

(* The table that bounds the stack, the table that dispatches and the tests *)
(* of the handlers agree, in every revision, about every instruction that   *)
(* is met: no handler reads below the stack, and none that is refused has   *)
(* a row.                                                                  *)
THEOREM TablesAlwaysAgree == Spec => []TablesAgree
<1>1. CodeInv => TablesAgree
    <2> SUFFICES ASSUME CodeInv, status = "run", NEW rev \in Revisions
                 PROVE  IF Refused(Op, rev) THEN s_metrics[rev][Here] = Undefined
                        ELSE /\ Reads(Here) <= s_metrics[rev][Here].required
                             /\ Op # "STOP" => s_metrics[rev][Here] # Undefined
        BY DEF TablesAgree
    <2>1. Here \in Bytes \ Own /\ Op = jumpTable[Here]
        BY EvmVmAssumption, Standing
    <2>2. Agree(s_metrics[rev][Here], Here, rev)
        BY <2>1, AllAgree DEF Own
    <2> QED
        BY <2>1, <2>2 DEF Agree
<1> QED
    BY <1>1, CodeInvAlways, PTL

-----------------------------------------------------------------------------
(* Powers of two: 2^n counts the subsets of 1 .. n.                        *)

LEMMA SubsetsOf ==
    ASSUME NEW n \in Nat
    PROVE  IsFiniteSet(SUBSET (1 .. n)) /\ Cardinality(SUBSET (1 .. n)) = 2 ^ n /\ 2 ^ n \in Nat
<1>1. IsFiniteSet(1 .. n) /\ Cardinality(1 .. n) = n
    <2>1. /\ IsFiniteSet(1 .. n)
          /\ Cardinality(1 .. n) = IF 1 > n THEN 0 ELSE n - 1 + 1
        BY FS_Interval
    <2> QED
        BY <2>1
<1>2. IsFiniteSet(SUBSET (1 .. n)) /\ Cardinality(SUBSET (1 .. n)) = 2 ^ Cardinality(1 .. n)
    BY <1>1, FS_SUBSET, Zenon
<1>3. Cardinality(SUBSET (1 .. n)) = 2 ^ n
    BY <1>1, <1>2, Zenon
<1>4. Cardinality(SUBSET (1 .. n)) \in Nat
    BY <1>2, FS_CardinalityType, Zenon
<1> QED
    BY <1>2, <1>3, <1>4, Zenon

LEMMA PowerStep ==
    ASSUME NEW n \in Nat
    PROVE  2 ^ (n + 1) = 2 ^ n + 2 ^ n
<1> DEFINE S == SUBSET (1 .. n)
           T == {t \in SUBSET (1 .. n + 1) : n + 1 \in t}
           f == [s \in S |-> s \cup {n + 1}]
<1>1. IsFiniteSet(S) /\ Cardinality(S) = 2 ^ n /\ 2 ^ n \in Nat
    BY SubsetsOf
<1>2. Cardinality(SUBSET (1 .. n + 1)) = 2 ^ (n + 1)
    <2>1. PICK m \in Nat : m = n + 1
        OBVIOUS
    <2>2. Cardinality(SUBSET (1 .. m)) = 2 ^ m
        BY SubsetsOf
    <2> QED
        BY <2>1, <2>2, Zenon
<1>3. f \in Bijection(S, T)
    <2>1. f \in [S -> T]
        OBVIOUS
    <2>2. \A a, b \in S : f[a] = f[b] => a = b
        <3> TAKE a, b \in S
        <3>1. n + 1 \notin a /\ n + 1 \notin b
            OBVIOUS
        <3>2. f[a] = a \cup {n + 1} /\ f[b] = b \cup {n + 1}
            OBVIOUS
        <3>3. a = f[a] \ {n + 1} /\ b = f[b] \ {n + 1}
            BY <3>1, <3>2, Zenon
        <3> HIDE DEF f
        <3> QED BY <3>3
    <2>3. \A t \in T : \E s \in S : f[s] = t
        <3> TAKE t \in T
        <3>1. t \ {n + 1} \in S
            OBVIOUS
        <3>2. (t \ {n + 1}) \cup {n + 1} = t
            OBVIOUS
        <3> QED BY <3>1, <3>2
    <2> HIDE DEF S, T, f
    <2> QED BY <2>1, <2>2, <2>3, Zenon DEF Bijection, Injection, Surjection, IsInjective
<1>4. IsFiniteSet(T) /\ Cardinality(T) = 2 ^ n
    <2> HIDE DEF S, T, f
    <2>1. ExistsBijection(S, T)
        BY <1>3 DEF ExistsBijection
    <2> QED
        BY <1>1, <2>1, FS_Bijection, Zenon
<1>5. SUBSET (1 .. n + 1) = S \cup T /\ S \cap T = {}
    <2>1. SUBSET (1 .. n + 1) \subseteq S \cup T
        <3> SUFFICES ASSUME NEW t \in SUBSET (1 .. n + 1), n + 1 \notin t
                     PROVE  t \in S
            OBVIOUS
        <3> QED OBVIOUS
    <2>2. S \subseteq SUBSET (1 .. n + 1)
        OBVIOUS
    <2>3. \A s \in S : n + 1 \notin s
        OBVIOUS
    <2> HIDE DEF S
    <2> QED BY <2>1, <2>2, <2>3
<1>6. Cardinality(S \cup T) = Cardinality(S) + Cardinality(T) - Cardinality(S \cap T)
    <2> HIDE DEF S, T
    <2> QED BY <1>1, <1>4, FS_Union, Zenon
<1>7. Cardinality({}) = 0
    BY FS_EmptySet
<1>8. 2 ^ (n + 1) = 2 ^ n + 2 ^ n - 0
    <2> HIDE DEF S, T
    <2> QED BY <1>1, <1>2, <1>4, <1>5, <1>6, <1>7, Zenon
<1>9. PICK p \in Nat : p = 2 ^ n
    BY <1>1
<1> QED
    BY <1>8, <1>9

LEMMA PowerIn ==
    ASSUME NEW n \in Nat
    PROVE  2 ^ n \in Nat \ {0}
<1> DEFINE Has == {k \in Nat : 2 ^ k \in Nat \ {0}}
<1>1. 0 \in Has
    <2>1. 2 ^ 0 = 1
        BY SMT
    <2> QED BY <2>1
<1>2. ASSUME NEW k \in Has PROVE k + 1 \in Has
    <2>1. PICK p \in Nat \ {0} : p = 2 ^ k
        OBVIOUS
    <2>2. 2 ^ (k + 1) = p + p
        BY <2>1, PowerStep
    <2> QED BY <2>2
<1>3. Has \in SUBSET Nat
    OBVIOUS
<1>4. Has = Nat
    <2> HIDE DEF Has
    <2> QED BY <1>1, <1>2, <1>3, NatSetInduction
<1> QED
    BY <1>4

LEMMA PowerSum ==
    ASSUME NEW m \in Nat, NEW n \in Nat
    PROVE  2 ^ (m + n) = 2 ^ m * 2 ^ n
<1>0. PICK q \in Nat : q = 2 ^ m
    BY PowerIn
<1> DEFINE Has == {k \in Nat : 2 ^ (m + k) = q * 2 ^ k}
<1>1. 0 \in Has
    <2>1. 2 ^ 0 = 1
        BY SMT
    <2>2. m + 0 = m /\ q * 1 = q
        OBVIOUS
    <2> QED BY <1>0, <2>1, <2>2
<1>2. ASSUME NEW k \in Has PROVE k + 1 \in Has
    <2>1. PICK p \in Nat : p = 2 ^ k
        BY PowerIn
    <2>2. 2 ^ (k + 1) = p + p
        BY <2>1, PowerStep
    <2>3. PICK a \in Nat : a = m + k
        OBVIOUS
    <2>4. 2 ^ (a + 1) = q * p + q * p
        <3>1. 2 ^ (a + 1) = 2 ^ a + 2 ^ a
            BY PowerStep
        <3>2. 2 ^ a = q * p
            BY <2>1, <2>3
        <3> QED BY <3>1, <3>2, Zenon
    <2>5. a + 1 = m + (k + 1)
        BY <2>3
    <2>6. q * (p + p) = q * p + q * p
        OBVIOUS
    <2>7. 2 ^ (m + (k + 1)) = q * 2 ^ (k + 1)
        BY <2>2, <2>4, <2>5, <2>6, Zenon
    <2> QED BY <2>7
<1>3. Has \in SUBSET Nat
    OBVIOUS
<1>4. Has = Nat
    <2> HIDE DEF Has
    <2> QED BY <1>1, <1>2, <1>3, NatSetInduction
<1> QED
    BY <1>0, <1>4

(* The leading bit of x: the largest power that x reaches.                  *)
LEMMA LeadingBit ==
    ASSUME NEW L \in Nat, NEW x \in 1 .. 2 ^ L - 1
    PROVE  \E k \in 0 .. L - 1 : 2 ^ k <= x /\ x < 2 ^ (k + 1)
<1> DEFINE Has == {n \in Nat : x < 2 ^ n}
<1>1. L \in Has /\ Has \in SUBSET Nat
    <2>1. PICK p \in Nat : p = 2 ^ L
        BY PowerIn
    <2> QED BY <2>1
<1>2. PICK m \in Has : \A k \in Has : m <= k
    <2> HIDE DEF Has
    <2> QED BY <1>1, NatLeast
<1>3. m # 0
    <2>1. 2 ^ 0 = 1
        BY SMT
    <2>2. x < 2 ^ m
        OBVIOUS
    <2> SUFFICES ASSUME m = 0 PROVE FALSE
        OBVIOUS
    <2>3. x < 2 ^ 0
        BY <2>2, Zenon
    <2>4. x < 1
        BY <2>1, <2>3, Zenon
    <2> QED BY <2>4
<1>4. m - 1 \in Nat /\ m - 1 \notin Has /\ m <= L /\ m \in Nat
    BY <1>1, <1>2, <1>3
<1>5. PICK k \in Nat : k = m - 1
    BY <1>4
<1>6. PICK p \in Nat : p = 2 ^ k
    BY PowerIn
<1>7. k + 1 = m /\ k \notin Has
    BY <1>4, <1>5
<1>8. x < 2 ^ (k + 1)
    BY <1>7, <1>2
<1>9. 2 ^ k <= x
    BY <1>6, <1>7
<1>10. k \in 0 .. L - 1
    BY <1>4, <1>5
<1> QED
    BY <1>8, <1>9, <1>10

-----------------------------------------------------------------------------
(* Machine words, and numbers out of them.                                 *)

Limb == 0 .. Base - 1
Wide(H) == [hi : H, lo : H]
W128 == Wide(Limb)
W256 == Wide(W128)
W512 == Wide(W256)

LEMMA BaseIs ==
    /\ LimbBits \in Nat /\ LimbBits >= 2 /\ LimbBits - 1 \in Nat /\ LimbBits \div 2 \in Nat
    /\ Base \in Nat \ {0} /\ Base >= 4
    /\ Base = 2 ^ (LimbBits - 1) + 2 ^ (LimbBits - 1)
    /\ Base = 2 ^ (LimbBits \div 2) * 2 ^ (LimbBits \div 2)
<1>1. LimbBits \in Nat /\ LimbBits >= 2 /\ LimbBits = (LimbBits \div 2) + (LimbBits \div 2)
    BY WordsAssumption
<1>2. PICK h \in Nat : h = LimbBits \div 2 /\ h >= 1 /\ LimbBits = h + h
    BY <1>1
<1>3. PICK m \in Nat : m = LimbBits - 1
    BY <1>1
<1>4. m + 1 = LimbBits
    BY <1>1, <1>3
<1>5. Base = 2 ^ m + 2 ^ m
    BY <1>4, PowerStep DEF Base
<1>6. Base = 2 ^ h * 2 ^ h
    BY <1>2, PowerSum DEF Base
<1>7. PICK k \in Nat : k = m - 1
    BY <1>1, <1>3
<1>8. 2 ^ (k + 1) = 2 ^ k + 2 ^ k /\ k + 1 = m
    BY <1>3, <1>7, PowerStep
<1>9. PICK p \in Nat \ {0} : p = 2 ^ k
    BY PowerIn
<1>10. 2 ^ m = p + p
    BY <1>8, <1>9, Zenon
<1>11. Base = (p + p) + (p + p)
    BY <1>5, <1>10, Zenon
<1>12. Base \in Nat \ {0} /\ Base >= 4
    BY <1>11, <1>9
<1> QED
    BY <1>1, <1>2, <1>3, <1>5, <1>6, <1>12

LEMMA Remainder ==
    ASSUME NEW a \in Int, NEW b \in Nat \ {0}
    PROVE  a % b \in 0 .. b - 1
    OBVIOUS

LEMMA Quotient ==
    ASSUME NEW a \in Nat, NEW b \in Nat \ {0}
    PROVE  a \div b \in 0 .. a
<1>1. PICK q \in Int : q = a \div b
    OBVIOUS
<1>2. PICK r \in 0 .. b - 1 : r = a % b
    BY Remainder
<1>3. a = b * q + r
    BY <1>1, <1>2
<1>4. q >= 0
    <2> SUFFICES ASSUME q <= -1 PROVE FALSE
        BY <1>1
    <2>1. b * q <= -b
        OBVIOUS
    <2> QED BY <1>3, <2>1
<1>5. q <= a
    <2>1. b * q >= q
        BY <1>4
    <2> QED BY <1>3, <2>1
<1> QED
    BY <1>1, <1>4, <1>5

LEMMA Wraps ==
    ASSUME NEW n \in Int
    PROVE  n % Base \in Limb
<1>1. PICK B \in Nat \ {0} : B = Base
    BY BaseIs
<1>2. n % B \in 0 .. B - 1
    BY Remainder
<1> QED
    BY <1>1, <1>2 DEF Limb

LEMMA LimbIs ==
    /\ Limb \subseteq Nat /\ 0 \in Limb /\ 1 \in Limb /\ Base - 1 \in Limb
    /\ \A x \in Limb : x < Base /\ \A y \in 0 .. x : y \in Limb
    /\ \A c : Bool(c) \in {0, 1} /\ Bool(c) \in Limb
<1>1. PICK B \in Nat : B = Base /\ B >= 4
    BY BaseIs
<1>2. Limb = 0 .. B - 1
    BY <1>1 DEF Limb
<1>3. /\ Limb \subseteq Nat /\ 0 \in Limb /\ 1 \in Limb /\ B - 1 \in Limb
      /\ \A x \in Limb : x < B /\ \A y \in 0 .. x : y \in Limb
    BY <1>1, <1>2
<1>4. \A c : Bool(c) \in {0, 1}
    BY DEF Bool
<1> QED
    BY <1>1, <1>3, <1>4

(* Whatever is added, subtracted or multiplied is a machine word again.     *)
LEMMA Sums ==
    ASSUME NEW x \in Int, NEW y \in Int
    PROVE  add64(x, y) \in Limb /\ sub64(x, y) \in Limb /\ mul64(x, y) \in Limb
<1>1. x + y \in Int /\ x - y \in Int /\ x * y \in Int
    OBVIOUS
<1> QED
    BY <1>1, Wraps DEF add64, sub64, mul64

LEMMA Shifts ==
    ASSUME NEW x \in Limb, NEW s \in Nat
    PROVE  shl64(x, s) \in Limb /\ shr64(x, s) \in Limb
<1>1. PICK p \in Nat \ {0} : p = 2 ^ s
    BY PowerIn
<1>2. x \in Nat
    BY LimbIs
<1>3. x * p \in Int /\ x \div p \in 0 .. x
    BY <1>2, Quotient
<1> QED
    BY <1>1, <1>3, Wraps, LimbIs DEF shl64, shr64

LEMMA Complement ==
    ASSUME NEW x \in Limb
    PROVE  not64(x) \in Limb /\ (not64(x) = Base - 1 => x = 0)
<1>1. PICK B \in Nat : B = Base /\ B >= 4
    BY BaseIs
<1>2. x \in 0 .. B - 1
    BY <1>1 DEF Limb
<1>3. B - 1 - x \in 0 .. B - 1 /\ (B - 1 - x = B - 1 => x = 0)
    BY <1>2
<1> QED
    BY <1>1, <1>3 DEF Limb, not64

-----------------------------------------------------------------------------
(* Bitwise operations: a sum over the bits.                                *)

Tables == [Bits2 -> 0 .. 1]

LEMMA BitIn ==
    ASSUME NEW x \in Limb, NEW i \in Nat
    PROVE  Bit(x, i) \in 0 .. 1
<1>1. PICK p \in Nat \ {0} : p = 2 ^ i
    BY PowerIn
<1>2. x \in Nat
    BY LimbIs
<1>3. PICK q \in Nat : q = x \div p
    BY <1>2, Quotient
<1>4. q % 2 \in 0 .. 1
    OBVIOUS
<1> QED
    BY <1>1, <1>3, <1>4 DEF Bit

Positions(n) == [i \in 1 .. n |-> i]

LEMMA PositionsAre ==
    ASSUME NEW n \in Nat
    PROVE  /\ Positions(n) \in Seq(1 .. n) /\ DOMAIN Positions(n) = 1 .. n /\ Len(Positions(n)) = n
           /\ \A i \in 1 .. n : Positions(n)[i] = i
    BY DEF Positions

LEMMA BitwiseSteps ==
    ASSUME NEW F \in Tables, NEW x \in Limb, NEW y \in Limb
    PROVE  \E h : /\ h[0] = 0 /\ h[LimbBits] = Bitwise64(F, x, y)
                  /\ \A n \in 0 .. LimbBits - 1 : h[n + 1] = h[n] + 2 ^ n * F[<<Bit(x, n), Bit(y, n)>>]
<1> DEFINE L == LimbBits
           seq == Positions(L)
           Add(sum, i) == sum + 2 ^ (i - 1) * F[<<Bit(x, i - 1), Bit(y, i - 1)>>]
           G == [z \in Nat \X (1 .. L) |-> Add(z[1], z[2])]
           Rec(f) == [s \in SUBSET DOMAIN seq |-> IF s = {} THEN 0 ELSE Add(f[s \ {Max(s)}], seq[Max(s)])]
           it == CHOOSE f : f = Rec(f)
           h == [n \in 0 .. L |-> it[1 .. n]]
<1>1. /\ seq \in Seq(1 .. L) /\ DOMAIN seq = 1 .. L /\ Len(seq) = L /\ L \in Nat
      /\ \A i \in 1 .. L : seq[i] = i
    BY BaseIs, PositionsAre
<1>2. \A sum \in Nat, i \in 1 .. L : Add(sum, i) \in Nat
    <2> TAKE sum \in Nat, i \in 1 .. L
    <2>1. PICK j \in Nat : j = i - 1
        BY <1>1
    <2>2. PICK p \in Nat : p = 2 ^ j
        BY PowerIn
    <2>3. PICK b \in 0 .. 1 : b = F[<<Bit(x, j), Bit(y, j)>>]
        BY BitIn DEF Tables, Bits2
    <2>4. sum + p * b \in Nat
        OBVIOUS
    <2> QED BY <2>1, <2>2, <2>3, <2>4
<1>3. G \in [Nat \X (1 .. L) -> Nat]
    <2> HIDE DEF Add
    <2> QED BY <1>2
<1>4. PICK f : Folds(f, Nat, G, 0, seq)
    <2> HIDE DEF G, seq
    <2> QED BY <1>1, <1>3, FoldExists
<1>5. f = Rec(f)
    <2>1. f \in [SUBSET (1 .. L) -> Nat] /\ f[{}] = 0
        <3> HIDE DEF G, seq
        <3> QED BY <1>1, <1>4 DEF Folds
    <2>2. ASSUME NEW s \in SUBSET (1 .. L), s # {}
          PROVE  f[s] = Add(f[s \ {Max(s)}], seq[Max(s)])
        <3>1. /\ f[s] = G[<<f[s \ {Max(s)}], seq[Max(s)]>>]
              /\ f[s \ {Max(s)}] \in Nat /\ seq[Max(s)] \in 1 .. L
            <4> HIDE DEF seq, G, Rec, Add
            <4>1. s \in SUBSET (1 .. Len(seq)) /\ s # {} /\ seq \in Seq(1 .. L)
                BY <1>1, <2>2
            <4> QED BY <1>4, <4>1, FoldStep
        <3> HIDE DEF Add
        <3> QED BY <3>1
    <2> HIDE DEF seq, Add
    <2> QED BY <1>1, <2>1, <2>2
<1>6. it = Rec(it)
    <2> HIDE DEF Rec
    <2> QED BY <1>5
<1>7. ASSUME NEW n \in 0 .. L - 1
      PROVE  h[n + 1] = Add(h[n], n + 1)
    <2>1. it[1 .. n + 1] = Add(it[1 .. n], seq[n + 1])
        <3> HIDE DEF it, seq, L, Add
        <3>1. /\ (1 .. n + 1) \in SUBSET DOMAIN seq /\ 1 .. n + 1 # {}
              /\ Max(1 .. n + 1) = n + 1 /\ (1 .. n + 1) \ {n + 1} = 1 .. n
            BY <1>1, PrefixStep
        <3>2. \A s \in SUBSET DOMAIN seq : s # {} => it[s] = Add(it[s \ {Max(s)}], seq[Max(s)])
            BY <1>6
        <3> QED BY <3>1, <3>2
    <2>2. seq[n + 1] = n + 1 /\ n + 1 \in 0 .. L /\ n \in 0 .. L
        BY <1>1
    <2> HIDE DEF it, seq, Add
    <2> QED BY <2>1, <2>2
<1>8. h[0] = 0
    <2>1. 1 .. 0 = {} /\ 0 \in 0 .. L
        BY <1>1
    <2> HIDE DEF it, seq, Add
    <2> QED BY <1>6, <2>1
<1>9. h[L] = Bitwise64(F, x, y)
    <2>1. Bitwise64(F, x, y) = it[DOMAIN seq]
        BY DEF Bitwise64, FoldLeft, MapThenFoldSet, Positions
    <2> HIDE DEF it, seq
    <2> QED BY <1>1, <2>1
<1>10. \A n \in 0 .. L - 1 : h[n + 1] = h[n] + 2 ^ n * F[<<Bit(x, n), Bit(y, n)>>]
    <2> TAKE n \in 0 .. L - 1
    <2>1. (n + 1) - 1 = n
        BY <1>1
    <2> HIDE DEF h
    <2> QED BY <1>7, <2>1
<1> HIDE DEF h
<1> QED
    BY <1>8, <1>9, <1>10

LEMMA BitwiseIn ==
    ASSUME NEW F \in Tables, NEW x \in Limb, NEW y \in Limb
    PROVE  /\ Bitwise64(F, x, y) \in Limb
           /\ F[<<Bit(x, LimbBits - 1), Bit(y, LimbBits - 1)>>] = 1 => 2 ^ (LimbBits - 1) <= Bitwise64(F, x, y)
<1> DEFINE L == LimbBits
           c(n) == F[<<Bit(x, n), Bit(y, n)>>]
<1>1. PICK h : /\ h[0] = 0 /\ h[L] = Bitwise64(F, x, y)
               /\ \A n \in 0 .. L - 1 : h[n + 1] = h[n] + 2 ^ n * c(n)
    BY BitwiseSteps
<1>2. L \in Nat /\ L - 1 \in Nat
    BY BaseIs
<1>3. \A n \in Nat : c(n) \in 0 .. 1
    BY BitIn DEF Tables, Bits2
<1> HIDE DEF c, L
<1> DEFINE Has == {n \in Nat : n <= L => h[n] \in 0 .. 2 ^ n - 1}
<1>4. 0 \in Has
    <2>1. 2 ^ 0 = 1
        BY SMT
    <2> QED BY <1>1, <2>1
<1>5. ASSUME NEW n \in Has PROVE n + 1 \in Has
    <2> SUFFICES ASSUME n + 1 <= L PROVE h[n + 1] \in 0 .. 2 ^ (n + 1) - 1
        OBVIOUS
    <2>1. PICK p \in Nat \ {0} : p = 2 ^ n
        BY PowerIn
    <2>2. 2 ^ (n + 1) = p + p
        BY <2>1, PowerStep
    <2>3. n \in 0 .. L - 1 /\ n <= L
        BY <1>2
    <2>4. PICK b \in 0 .. 1 : b = c(n)
        BY <1>3
    <2>5. PICK v \in 0 .. p - 1 : v = h[n]
        BY <2>1, <2>3
    <2>6. h[n + 1] = v + p * b
        BY <1>1, <2>1, <2>3, <2>4, <2>5
    <2>7. v + p * b \in 0 .. p + p - 1
        <3>1. p * b = 0 \/ p * b = p
            OBVIOUS
        <3> QED BY <3>1
    <2> QED BY <2>2, <2>6, <2>7
<1>6. Has = Nat
    <2>1. Has \in SUBSET Nat
        OBVIOUS
    <2> HIDE DEF Has
    <2> QED BY <1>4, <1>5, <2>1, NatSetInduction
<1>7. \A n \in Nat : n <= L => h[n] \in 0 .. 2 ^ n - 1
    BY <1>6
<1>8. Bitwise64(F, x, y) \in Limb
    <2>1. h[L] \in 0 .. 2 ^ L - 1
        BY <1>2, <1>7
    <2> QED BY <1>1, <2>1 DEF Limb, Base, L
<1>9. ASSUME c(L - 1) = 1
      PROVE  2 ^ (L - 1) <= Bitwise64(F, x, y)
    <2>1. PICK n \in Nat : n = L - 1 /\ n + 1 = L /\ n \in 0 .. L - 1 /\ n <= L
        BY <1>2
    <2>2. PICK p \in Nat \ {0} : p = 2 ^ n
        BY PowerIn
    <2>3. PICK v \in 0 .. p - 1 : v = h[n]
        BY <1>7, <2>1, <2>2
    <2>4. h[L] = v + p * 1
        BY <1>1, <1>9, <2>1, <2>2, <2>3
    <2>5. p <= v + p * 1
        OBVIOUS
    <2> QED BY <1>1, <2>1, <2>2, <2>4, <2>5
<1> QED
    BY <1>8, <1>9 DEF c, L

LEMMA BitsIn ==
    ASSUME NEW x \in Limb, NEW y \in Limb
    PROVE  /\ or64(x, y) \in Limb /\ and64(x, y) \in Limb /\ xor64(x, y) \in Limb
           /\ Bit(x, LimbBits - 1) = 1 => 2 ^ (LimbBits - 1) <= or64(x, y)
<1> DEFINE ors == [b \in Bits2 |-> Bool(b[1] + b[2] > 0)]
           ands == [b \in Bits2 |-> b[1] * b[2]]
           xors == [b \in Bits2 |-> (b[1] + b[2]) % 2]
<1>1. ors \in Tables
    BY DEF Tables, Bool, Bits2
<1>2. ands \in Tables
    <2>1. \A a, b \in 0 .. 1 : a * b \in 0 .. 1
        OBVIOUS
    <2> QED BY <2>1 DEF Tables, Bits2
<1>3. xors \in Tables
    <2>1. \A a, b \in 0 .. 1 : (a + b) % 2 \in 0 .. 1
        OBVIOUS
    <2> QED BY <2>1 DEF Tables, Bits2
<1>4. \A b \in 0 .. 1 : ors[<<1, b>>] = 1
    BY DEF Bool, Bits2
<1>5. Bit(y, LimbBits - 1) \in 0 .. 1
    BY BitIn, BaseIs
<1>6. or64(x, y) = Bitwise64(ors, x, y) /\ and64(x, y) = Bitwise64(ands, x, y) /\ xor64(x, y) = Bitwise64(xors, x, y)
    BY DEF or64, and64, xor64
<1> HIDE DEF ors, ands, xors
<1>7. Bit(x, LimbBits - 1) = 1 => ors[<<Bit(x, LimbBits - 1), Bit(y, LimbBits - 1)>>] = 1
    BY <1>4, <1>5
<1> QED
    BY <1>1, <1>2, <1>3, <1>6, <1>7, BitwiseIn

-----------------------------------------------------------------------------
(* The product of two machine words by halves, H of them to a word.         *)

LEMMA Halved ==
    ASSUME NEW H \in Nat \ {0}, NEW x \in 0 .. H * H - 1
    PROVE  x % H \in 0 .. H - 1 /\ x \div H \in 0 .. H - 1
<1>1. PICK r \in 0 .. H - 1 : r = x % H
    BY Remainder
<1>2. PICK q \in Nat : q = x \div H
    BY Quotient
<1>3. x = H * q + r
    BY <1>1, <1>2
<1>4. q <= H - 1
    <2> SUFFICES ASSUME q >= H PROVE FALSE
        OBVIOUS
    <2>1. H * q >= H * H
        OBVIOUS
    <2> QED BY <1>3, <2>1
<1> QED
    BY <1>1, <1>2, <1>4

LEMMA HalfProduct ==
    ASSUME NEW H \in Nat \ {0}, NEW a \in 0 .. H - 1, NEW b \in 0 .. H - 1
    PROVE  a * b \in 0 .. H * H - H - H + 1
<1>1. PICK k \in Nat : k = H - 1
    OBVIOUS
<1>2. a <= k /\ b <= k
    BY <1>1
<1>3. a * b <= k * b /\ k * b <= k * k /\ a * b >= 0
    BY <1>2
<1>4. k * k = H * H - H - H + 1
    BY <1>1
<1>5. PICK p \in Nat : p = a * b
    BY <1>3
<1> QED
    BY <1>3, <1>4, <1>5

LEMMA ShiftedHalf ==
    ASSUME NEW H \in Nat \ {0}, NEW u \in Nat
    PROVE  (u * H) % (H * H) \in 0 .. H * H - H
<1>1. H * H \in Nat \ {0} /\ u * H \in Nat
    OBVIOUS
<1>2. PICK B \in Nat \ {0} : B = H * H
    BY <1>1
<1>3. PICK n \in Nat : n = u * H
    BY <1>1
<1>4. PICK r \in 0 .. B - 1 : r = n % B
    BY Remainder
<1>5. PICK q \in Nat : q = n \div B
    BY Quotient
<1>6. n = B * q + r
    BY <1>4, <1>5
<1>7. PICK k \in Int : k = u - H * q
    OBVIOUS
<1>8. r = H * k
    <2>1. r = u * H - (H * H) * q
        BY <1>2, <1>3, <1>6
    <2>2. u * H - (H * H) * q = H * (u - H * q)
        OBVIOUS
    <2> QED BY <1>7, <2>1, <2>2
<1>9. k <= H - 1
    <2> SUFFICES ASSUME k >= H PROVE FALSE
        OBVIOUS
    <2>1. H * k >= H * H
        OBVIOUS
    <2> QED BY <1>2, <1>4, <1>8, <2>1
<1>10. H * k <= H * (H - 1)
    BY <1>9
<1>11. H * (H - 1) = H * H - H
    OBVIOUS
<1> QED
    BY <1>2, <1>3, <1>4, <1>8, <1>10, <1>11

LEMMA Product ==
    ASSUME NEW x \in Limb, NEW y \in Limb
    PROVE  umul64(x, y) \in W128
<1>1. PICK h \in Nat : h = LimbBits \div 2
    BY BaseIs
<1>2. PICK H \in Nat \ {0} : H = 2 ^ h /\ Base = H * H
    BY <1>1, PowerIn, BaseIs
<1>3. x \in 0 .. H * H - 1 /\ y \in 0 .. H * H - 1
    BY <1>2 DEF Limb
<1>4. PICK xl \in 0 .. H - 1, xh \in 0 .. H - 1 : xl = x % H /\ xh = x \div H
    BY <1>3, Halved
<1>5. PICK yl \in 0 .. H - 1, yh \in 0 .. H - 1 : yl = y % H /\ yh = y \div H
    BY <1>3, Halved
<1>6. PICK S \in Nat : S = H * H /\ S - H >= 0
    <2>1. H * H >= H
        OBVIOUS
    <2> QED BY <2>1
<1>7. PICK t0 \in 0 .. S - H - H + 1 : t0 = xl * yl
    BY <1>6, HalfProduct
<1>8. PICK a \in 0 .. S - H - H + 1 : a = xh * yl
    BY <1>6, HalfProduct
<1>9. PICK b \in 0 .. S - H - H + 1 : b = xl * yh
    BY <1>6, HalfProduct
<1>10. PICK c \in 0 .. S - H - H + 1 : c = xh * yh
    BY <1>6, HalfProduct
<1>11. \A n \in 0 .. S - 1 : n % H \in 0 .. H - 1 /\ n \div H \in 0 .. H - 1
    BY <1>6, Halved
<1>12. PICK tl \in 0 .. H - 1, th \in 0 .. H - 1 : tl = t0 % H /\ th = t0 \div H
    <2>1. t0 \in 0 .. S - 1
        BY <1>6
    <2> QED BY <1>11, <2>1
<1>13. PICK u1 \in 0 .. S - 1 : u1 = a + th
    BY <1>6
<1>14. PICK ul \in 0 .. H - 1, uh \in 0 .. H - 1 : ul = u1 % H /\ uh = u1 \div H
    BY <1>11
<1>15. PICK u2 \in 0 .. S - 1 : u2 = b + ul
    BY <1>6
<1>16. PICK vh \in 0 .. H - 1 : vh = u2 \div H
    BY <1>11
<1>17. PICK w \in 0 .. S - H : w = (u2 * H) % S
    <2>1. u2 \in Nat
        OBVIOUS
    <2>2. (u2 * H) % (H * H) \in 0 .. H * H - H
        BY <2>1, ShiftedHalf
    <2>3. (u2 * H) % S \in 0 .. S - H
        BY <1>6, <2>2, Zenon
    <2> QED BY <2>3
<1>18. umul64(x, y) = [hi |-> c + vh + uh, lo |-> w + tl]
    <2>1. shr64(x, h) = xh /\ shr64(y, h) = yh /\ x % 2 ^ h = xl /\ y % 2 ^ h = yl
        BY <1>2, <1>4, <1>5 DEF shr64
    <2>2. shr64(t0, h) = th /\ t0 % 2 ^ h = tl
        BY <1>2, <1>12 DEF shr64
    <2>3. shr64(u1, h) = uh /\ u1 % 2 ^ h = ul
        BY <1>2, <1>14 DEF shr64
    <2>4. shr64(u2, h) = vh /\ shl64(u2, h) = w
        BY <1>2, <1>6, <1>16, <1>17 DEF shr64, shl64
    <2>5. umul64(x, y) =
            [hi |-> xh * yh + shr64(xl * yh + ((xh * yl + shr64(xl * yl, h)) % 2 ^ h), h)
                    + shr64(xh * yl + shr64(xl * yl, h), h),
             lo |-> shl64(xl * yh + ((xh * yl + shr64(xl * yl, h)) % 2 ^ h), h) + ((xl * yl) % 2 ^ h)]
        BY <1>1, <2>1, Zenon DEF umul64, Pair
    <2>6. umul64(x, y) =
            [hi |-> c + shr64(b + ((a + shr64(t0, h)) % 2 ^ h), h) + shr64(a + shr64(t0, h), h),
             lo |-> shl64(b + ((a + shr64(t0, h)) % 2 ^ h), h) + (t0 % 2 ^ h)]
        BY <2>5, <1>7, <1>8, <1>9, <1>10, Zenon
    <2>7. umul64(x, y) = [hi |-> c + shr64(b + (u1 % 2 ^ h), h) + shr64(u1, h),
                          lo |-> shl64(b + (u1 % 2 ^ h), h) + tl]
        BY <2>2, <2>6, <1>13, Zenon
    <2> QED
        BY <2>3, <2>4, <2>7, <1>15, Zenon
<1>19. c + vh + uh \in 0 .. S - 1 /\ w + tl \in 0 .. S - 1
    BY <1>6
<1>20. Limb = 0 .. S - 1
    BY <1>2, <1>6 DEF Limb
<1> QED
    BY <1>18, <1>19, <1>20 DEF W128, Wide

LEMMA ProductOfZero ==
    ASSUME NEW y \in Limb
    PROVE  umul64(0, y) = Pair(0, 0)
<1>1. PICK h \in Nat : h = LimbBits \div 2
    BY BaseIs
<1>2. PICK H \in Nat \ {0} : H = 2 ^ h
    BY PowerIn
<1>3. y \in Nat
    BY LimbIs
<1>4. PICK yl \in Nat, yh \in Nat : yl = y % H /\ yh = y \div H
    <2>1. y % H \in 0 .. H - 1
        BY <1>3, Remainder
    <2>2. y \div H \in 0 .. y
        BY <1>3, Quotient
    <2> QED BY <1>3, <2>1, <2>2
<1>5. 0 % H = 0 /\ 0 \div H = 0 /\ 0 * yl = 0 /\ 0 * yh = 0
    OBVIOUS
<1>6. 0 + 0 = 0 /\ 0 * H = 0
    OBVIOUS
<1>7. 0 % Base = 0
    BY BaseIs
<1>8. shr64(0, h) = 0 /\ shl64(0, h) = 0 /\ 0 % 2 ^ h = 0
    BY <1>2, <1>5, <1>6, <1>7, Zenon DEF shr64, shl64
<1>9. shr64(y, h) = yh /\ y % 2 ^ h = yl
    BY <1>2, <1>4, Zenon DEF shr64
<1>10. umul64(0, y) =
         [hi |-> 0 * yh + shr64(0 * yh + ((0 * yl + shr64(0 * yl, h)) % 2 ^ h), h)
                 + shr64(0 * yl + shr64(0 * yl, h), h),
          lo |-> shl64(0 * yh + ((0 * yl + shr64(0 * yl, h)) % 2 ^ h), h) + ((0 * yl) % 2 ^ h)]
    BY <1>1, <1>8, <1>9, Zenon DEF umul64, Pair
<1> QED
    BY <1>5, <1>6, <1>8, <1>10, Zenon DEF Pair

(* Shifted by the zeros in front of it a word has its highest bit set.      *)
LEMMA Normalised ==
    ASSUME NEW x \in Limb, x # 0
    PROVE  /\ clz64(x) \in 0 .. LimbBits - 1
           /\ 2 ^ (LimbBits - 1) <= shl64(x, clz64(x))
<1>1. PICK L \in Nat : L = LimbBits /\ L >= 2
    BY BaseIs
<1>2. x \in 1 .. 2 ^ L - 1
    <2>1. PICK B \in Nat : B = 2 ^ L
        BY PowerIn
    <2>2. x \in 0 .. B - 1
        BY <1>1, <2>1 DEF Limb, Base
    <2> QED BY <2>1, <2>2
<1>3. PICK k \in 0 .. L - 1 : 2 ^ k <= x /\ x < 2 ^ (k + 1)
    BY <1>2, LeadingBit
<1>4. \A j \in Nat : x \div 2 ^ j = 1 <=> 2 ^ j <= x /\ x < 2 ^ (j + 1)
    <2> TAKE j \in Nat
    <2>1. PICK p \in Nat \ {0} : p = 2 ^ j
        BY PowerIn
    <2>2. 2 ^ (j + 1) = p + p
        BY <2>1, PowerStep
    <2>3. x \div p = 1 <=> p <= x /\ x < p + p
        <3>1. PICK q \in Nat : q = x \div p
            BY <1>2, Quotient
        <3>2. PICK r \in 0 .. p - 1 : r = x % p
            <4>1. x \in Int
                BY <1>2
            <4>2. x % p \in 0 .. p - 1
                BY <4>1, Remainder, Zenon
            <4> QED BY <4>2
        <3>3. x = p * q + r
            BY <1>2, <3>1, <3>2
        <3>4. q = 0 => p * q = 0
            OBVIOUS
        <3>5. q = 1 => p * q = p
            OBVIOUS
        <3>6. q >= 2 => p * q >= p + p
            OBVIOUS
        <3> QED BY <3>1, <3>3, <3>4, <3>5, <3>6
    <2> QED BY <2>1, <2>2, <2>3
<1>5. PICK n \in 0 .. L : n < L /\ shr64(x, L - 1 - n) = 1
    <2>1. L - 1 - k \in 0 .. L /\ L - 1 - k < L /\ L - 1 - (L - 1 - k) = k
        BY <1>1
    <2>2. shr64(x, k) = 1
        BY <1>3, <1>4 DEF shr64
    <2>3. shr64(x, L - 1 - (L - 1 - k)) = 1
        BY <2>1, <2>2, Zenon
    <2> QED BY <2>1, <2>3
<1>6. clz64(x) \in 0 .. L /\ clz64(x) < L /\ shr64(x, L - 1 - clz64(x)) = 1
    <2>1. \E m \in 0 .. LimbBits : IF x = 0 THEN m = LimbBits
                                   ELSE m < LimbBits /\ shr64(x, LimbBits - 1 - m) = 1
        BY <1>1, <1>5, Zenon
    <2>2. /\ clz64(x) \in 0 .. LimbBits
          /\ IF x = 0 THEN clz64(x) = LimbBits
             ELSE clz64(x) < LimbBits /\ shr64(x, LimbBits - 1 - clz64(x)) = 1
        BY <2>1, Zenon DEF clz64
    <2> QED
        BY <1>1, <2>2, Zenon
<1>7. PICK c \in 0 .. L - 1 : c = clz64(x)
    BY <1>1, <1>6
<1>8. PICK j \in Nat : j = L - 1 - c /\ j + c = L - 1
    BY <1>1
<1>9. 2 ^ j <= x /\ x < 2 ^ (j + 1)
    BY <1>4, <1>6, <1>7, <1>8 DEF shr64
<1>10. PICK p \in Nat \ {0} : p = 2 ^ j
    BY PowerIn
<1>11. PICK q \in Nat \ {0} : q = 2 ^ c
    BY PowerIn
<1>12. p <= x /\ x < p + p
    BY <1>9, <1>10, PowerStep
<1>13. p * q = 2 ^ (L - 1)
    BY <1>8, <1>10, <1>11, PowerSum
<1>14. p * q <= x * q /\ x * q < p * q + p * q
    <2>1. x * q <= (p + p - 1) * q
        BY <1>2, <1>12
    <2>2. (p + p - 1) * q = p * q + p * q - q
        OBVIOUS
    <2>3. p * q <= x * q
        BY <1>2, <1>12
    <2>4. PICK pq \in Nat : pq = p * q
        OBVIOUS
    <2>5. PICK xq \in Nat : xq = x * q
        BY <1>2
    <2> QED BY <2>1, <2>2, <2>3, <2>4, <2>5
<1>15. Base = p * q + p * q
    BY <1>1, <1>13, BaseIs
<1>16. PICK xq \in Nat : xq = x * q
    BY <1>2
<1>17. shl64(x, c) = xq
    <2>1. PICK B \in Nat \ {0} : B = Base /\ xq < B
        BY <1>14, <1>15, <1>16, BaseIs
    <2>2. xq % B = xq
        BY <2>1
    <2> QED BY <1>11, <1>16, <2>1, <2>2 DEF shl64
<1> QED
    BY <1>1, <1>7, <1>13, <1>14, <1>16, <1>17

LEMMA HighBit ==
    ASSUME NEW x \in Limb
    PROVE  Bit(x, LimbBits - 1) = 1 <=> 2 ^ (LimbBits - 1) <= x
<1>1. PICK p \in Nat \ {0} : p = 2 ^ (LimbBits - 1) /\ Base = p + p
    BY PowerIn, BaseIs
<1>2. x \in 0 .. p + p - 1
    BY <1>1 DEF Limb
<1>3. PICK q \in Nat : q = x \div p
    BY <1>2, Quotient
<1>4. PICK r \in 0 .. p - 1 : r = x % p
    <2>1. x \in Int
        BY <1>2
    <2>2. x % p \in 0 .. p - 1
        BY <2>1, Remainder, Zenon
    <2> QED BY <2>2
<1>5. x = p * q + r
    BY <1>2, <1>3, <1>4
<1>6. q \in 0 .. 1 /\ (q = 1 <=> p <= x)
    <2>1. q >= 2 => p * q >= p + p
        OBVIOUS
    <2>2. q = 0 => p * q = 0
        OBVIOUS
    <2>3. q = 1 => p * q = p
        OBVIOUS
    <2> QED BY <1>2, <1>5, <2>1, <2>2, <2>3
<1>7. q % 2 = q
    BY <1>6
<1> QED
    BY <1>1, <1>3, <1>6, <1>7 DEF Bit

-----------------------------------------------------------------------------
(* uint128.                                                                *)

LEMMA Pairs ==
    ASSUME NEW H
    PROVE  /\ \A a, b \in H : Pair(a, b) \in Wide(H)
           /\ \A x \in Wide(H) : x.hi \in H /\ x.lo \in H
           /\ \A a, b : Pair(a, b).hi = a /\ Pair(a, b).lo = b
           /\ \A x \in Wide(H) : x = Pair(x.hi, x.lo)
    BY DEF Pair, Wide

LEMMA PairsOf ==
    /\ \A a, b \in Limb : Pair(a, b) \in W128
    /\ \A a, b \in W128 : Pair(a, b) \in W256
    /\ \A a, b \in W256 : Pair(a, b) \in W512
<1>1. \A H : \A a, b \in H : Pair(a, b) \in Wide(H)
    BY Pairs
<1> QED
    BY <1>1 DEF W128, W256, W512

LEMMA Sums128 ==
    ASSUME NEW x \in W128, NEW y \in W128
    PROVE  add128(x, y) \in W128 /\ sub128(x, y) \in W128 /\ mul128(x, y) \in W128
<1>1. x.hi \in Limb /\ x.lo \in Limb /\ y.hi \in Limb /\ y.lo \in Limb
    BY Pairs DEF W128
<1>2. /\ \A a, b \in Limb : add64(a, b) \in Limb /\ sub64(a, b) \in Limb /\ mul64(a, b) \in Limb
      /\ \A c : Bool(c) \in Limb
    BY Sums, LimbIs
<1>3. umul64(x.lo, y.lo).hi \in Limb /\ umul64(x.lo, y.lo).lo \in Limb
    BY <1>1, Product, Pairs DEF W128
<1>4. add128(x, y) \in W128
    BY <1>1, <1>2, Pairs DEF W128, add128
<1>5. sub128(x, y) \in W128
    BY <1>1, <1>2, Pairs DEF W128, sub128
<1>6. mul128(x, y) \in W128
    <2>1. mul128(x, y) = Pair(add64(umul64(x.lo, y.lo).hi, add64(mul64(x.lo, y.hi), mul64(x.hi, y.lo))),
                              umul64(x.lo, y.lo).lo)
        BY DEF mul128
    <2>2. add64(umul64(x.lo, y.lo).hi, add64(mul64(x.lo, y.hi), mul64(x.hi, y.lo))) \in Limb
        BY <1>1, <1>2, <1>3, Zenon
    <2> QED BY <1>3, <2>1, <2>2, PairsOf, Zenon
<1> QED
    BY <1>4, <1>5, <1>6

LEMMA Bitwise128 ==
    ASSUME NEW x \in W128, NEW y \in W128
    PROVE  or128(x, y) \in W128 /\ and128(x, y) \in W128 /\ xor128(x, y) \in W128 /\ not128(x) \in W128
<1>1. x.hi \in Limb /\ x.lo \in Limb /\ y.hi \in Limb /\ y.lo \in Limb
    BY Pairs DEF W128
<1>2. /\ \A a, b \in Limb : or64(a, b) \in Limb /\ and64(a, b) \in Limb /\ xor64(a, b) \in Limb
      /\ \A a \in Limb : not64(a) \in Limb
    BY BitsIn, Complement
<1> QED
    BY <1>1, <1>2, PairsOf, Zenon DEF or128, and128, xor128, not128

LEMMA Zeros ==
    /\ Zero128 \in W128 /\ \A x \in Limb : Wide128(x) \in W128
    /\ Zero256 \in W256 /\ One256 \in W256
<1>1. Zero128 \in W128 /\ \A x \in Limb : Wide128(x) \in W128
    BY Pairs, LimbIs DEF W128, Zero128, Wide128
<1>2. Wide128(1) \in W128
    BY <1>1, LimbIs
<1> QED
    BY <1>1, <1>2, PairsOf, Zenon DEF Zero256, One256

LEMMA Shifts128 ==
    ASSUME NEW x \in W128, NEW s \in Nat
    PROVE  shl128(x, s) \in W128 /\ shr128(x, s) \in W128
<1>1. x.hi \in Limb /\ x.lo \in Limb
    BY Pairs DEF W128
<1>2. \A a \in Limb, n \in Nat : shl64(a, n) \in Limb /\ shr64(a, n) \in Limb
    BY Shifts
<1>3. \A a, b \in Limb : or64(a, b) \in Limb
    BY BitsIn
<1>4. PICK L \in Nat : L = LimbBits
    BY BaseIs
<1>5. CASE s < L
    <2>1. PICK n \in Nat : n = L - 1 - s
        BY <1>4, <1>5
    <2>2. 1 \in Nat
        OBVIOUS
    <2>3. /\ or64(shl64(x.hi, s), shr64(shr64(x.lo, 1), n)) \in Limb /\ shl64(x.lo, s) \in Limb
          /\ shr64(x.hi, s) \in Limb /\ or64(shr64(x.lo, s), shl64(shl64(x.hi, 1), n)) \in Limb
        BY <1>1, <1>2, <1>3, <2>2, Zenon
    <2>4. /\ shl128(x, s) = Pair(or64(shl64(x.hi, s), shr64(shr64(x.lo, 1), n)), shl64(x.lo, s))
          /\ shr128(x, s) = Pair(shr64(x.hi, s), or64(shr64(x.lo, s), shl64(shl64(x.hi, 1), n)))
        BY <1>4, <1>5, <2>1 DEF shl128, shr128
    <2> QED
        BY <2>3, <2>4, PairsOf, Zenon
<1>6. CASE ~(s < L) /\ s < 2 * L
    <2>1. PICK n \in Nat : n = s - L
        BY <1>4, <1>6
    <2>2. shl128(x, s) = Pair(shl64(x.lo, n), 0) /\ shr128(x, s) = Pair(0, shr64(x.hi, n))
        BY <1>4, <1>6, <2>1 DEF shl128, shr128
    <2> QED
        <3>1. 0 \in Limb /\ shl64(x.lo, n) \in Limb /\ shr64(x.hi, n) \in Limb
            BY <1>1, <1>2, LimbIs
        <3> QED BY <2>2, <3>1, PairsOf, Zenon
<1>7. CASE ~(s < L) /\ ~(s < 2 * L)
    BY <1>4, <1>7, Zeros DEF shl128, shr128
<1> QED
    BY <1>5, <1>6, <1>7, Zenon

-----------------------------------------------------------------------------
(* uint256.                                                                *)

LEMMA Halves256 ==
    ASSUME NEW x \in W256
    PROVE  x.hi \in W128 /\ x.lo \in W128 /\ x = Pair(x.hi, x.lo)
    BY Pairs DEF W256

LEMMA Carries ==
    ASSUME NEW a \in W256, NEW b \in W256
    PROVE  /\ add_with_carry256(a, b).value \in W256
           /\ add256(a, b) = add_with_carry256(a, b).value
           /\ \E c \in W128 : /\ c \in {Wide128(1), Zero128}
                              /\ add_with_carry128(a.lo, b.lo).carry => c = Wide128(1)
                              /\ add256(a, b) = Pair(add128(add128(a.hi, b.hi), c), add128(a.lo, b.lo))
<1>1. /\ \A x, y \in W128 : add_with_carry128(x, y).value \in W128
      /\ \A x, y : add_with_carry128(x, y).value = add128(x, y)
    BY Sums128, Zenon DEF add_with_carry128
<1>2. a.hi \in W128 /\ a.lo \in W128 /\ b.hi \in W128 /\ b.lo \in W128
    BY Halves256
<1>3. Wide128(1) \in W128 /\ Zero128 \in W128
    BY Zeros, LimbIs
<1> DEFINE c == IF add_with_carry128(a.lo, b.lo).carry THEN Wide128(1) ELSE Zero128
           tt == add_with_carry128(a.hi, b.hi)
<1>4. c \in W128 /\ c \in {Wide128(1), Zero128} /\ (add_with_carry128(a.lo, b.lo).carry => c = Wide128(1))
    BY <1>3
<1>5. tt.value \in W128 /\ tt.value = add128(a.hi, b.hi)
    BY <1>1, <1>2
<1>6. add_with_carry256(a, b).value
        = Pair(add_with_carry128(tt.value, c).value, add_with_carry128(a.lo, b.lo).value)
    BY DEF add_with_carry256, add_with_carry
<1> HIDE DEF c, tt
<1>7. add_with_carry256(a, b).value = Pair(add128(add128(a.hi, b.hi), c), add128(a.lo, b.lo))
    BY <1>1, <1>5, <1>6, Zenon
<1>8. add_with_carry256(a, b).value \in W256
    <2>1. \A x, y \in W128 : add128(x, y) \in W128
        BY Sums128
    <2>2. add128(add128(a.hi, b.hi), c) \in W128 /\ add128(a.lo, b.lo) \in W128
        BY <1>2, <1>4, <2>1
    <2>3. Pair(add128(add128(a.hi, b.hi), c), add128(a.lo, b.lo)) \in W256
        BY <2>2, PairsOf
    <2> QED BY <1>7, <2>3
<1>9. add256(a, b) = add_with_carry256(a, b).value
    BY DEF add256
<1> QED
    BY <1>4, <1>7, <1>8, <1>9, Zenon

LEMMA Sums256 ==
    ASSUME NEW a \in W256, NEW b \in W256
    PROVE  /\ add256(a, b) \in W256 /\ not256(a) \in W256 /\ neg256(a) \in W256 /\ sub256(a, b) \in W256
<1>1. \A x, y \in W256 : add256(x, y) \in W256
    BY Carries
<1>2. \A x \in W256 : not256(x) \in W256
    <2> TAKE x \in W256
    <2>1. not256(x) = Pair(not128(x.hi), not128(x.lo))
        BY DEF not256, Halves
    <2>2. \A y \in W128 : not128(y) \in W128
        BY Bitwise128
    <2>3. not128(x.hi) \in W128 /\ not128(x.lo) \in W128
        BY <2>2, Halves256
    <2> QED BY <2>1, <2>3, PairsOf
<1>3. \A x \in W256 : neg256(x) \in W256
    BY <1>1, <1>2, Zeros, Zenon DEF neg256
<1> QED
    BY <1>1, <1>2, <1>3, Zenon DEF sub256

LEMMA Bitwise256 ==
    ASSUME NEW x \in W256, NEW y \in W256
    PROVE  and256(x, y) \in W256 /\ or256(x, y) \in W256 /\ xor256(x, y) \in W256
<1>1. /\ and256(x, y) = Pair(and128(x.hi, y.hi), and128(x.lo, y.lo))
      /\ or256(x, y) = Pair(or128(x.hi, y.hi), or128(x.lo, y.lo))
      /\ xor256(x, y) = Pair(xor128(x.hi, y.hi), xor128(x.lo, y.lo))
    BY DEF and256, or256, xor256, Both
<1>2. x.hi \in W128 /\ x.lo \in W128 /\ y.hi \in W128 /\ y.lo \in W128
    BY Halves256
<1>3. \A a, b \in W128 : and128(a, b) \in W128 /\ or128(a, b) \in W128 /\ xor128(a, b) \in W128
    BY Bitwise128
<1> QED
    <2>1. /\ and128(x.hi, y.hi) \in W128 /\ and128(x.lo, y.lo) \in W128
          /\ or128(x.hi, y.hi) \in W128 /\ or128(x.lo, y.lo) \in W128
          /\ xor128(x.hi, y.hi) \in W128 /\ xor128(x.lo, y.lo) \in W128
        BY <1>2, <1>3
    <2> QED BY <1>1, <2>1, PairsOf

LEMMA Shifts256 ==
    ASSUME NEW x \in W256, NEW s \in Nat
    PROVE  shl256(x, s) \in W256 /\ shr256(x, s) \in W256
<1>1. x.hi \in W128 /\ x.lo \in W128
    BY Halves256
<1>2. \A a \in W128, n \in Nat : shl128(a, n) \in W128 /\ shr128(a, n) \in W128
    BY Shifts128
<1>3. \A a, b \in W128 : or128(a, b) \in W128
    BY Bitwise128
<1>4. PICK b \in Nat : b = 4 * LimbBits
    BY BaseIs
<1>5. PICK m \in Nat : m = b \div 2
    OBVIOUS
<1>6. CASE s < m
    <2>1. PICK n \in Nat : n = m - s - 1
        BY <1>6
    <2>2. 1 \in Nat
        OBVIOUS
    <2>3. /\ or128(shl128(x.hi, s), shr128(shr128(x.lo, n), 1)) \in W128 /\ shl128(x.lo, s) \in W128
          /\ shr128(x.hi, s) \in W128 /\ or128(shr128(x.lo, s), shl128(shl128(x.hi, n), 1)) \in W128
        BY <1>1, <1>2, <1>3, <2>2, Zenon
    <2>4. /\ shl256(x, s) = Pair(or128(shl128(x.hi, s), shr128(shr128(x.lo, n), 1)), shl128(x.lo, s))
          /\ shr256(x, s) = Pair(shr128(x.hi, s), or128(shr128(x.lo, s), shl128(shl128(x.hi, n), 1)))
        BY <1>4, <1>5, <1>6, <2>1, Zenon DEF shl256, shr256, shl, shr
    <2> QED
        BY <2>3, <2>4, PairsOf, Zenon
<1>7. CASE ~(s < m) /\ s < b
    <2>1. PICK n \in Nat : n = s - m
        BY <1>7
    <2>2. shl256(x, s) = Pair(shl128(x.lo, n), Zero128) /\ shr256(x, s) = Pair(Zero128, shr128(x.hi, n))
        BY <1>4, <1>5, <1>7, <2>1, Zenon DEF shl256, shr256, shl, shr
    <2> QED
        BY <1>1, <1>2, <2>2, Zeros, PairsOf, Zenon
<1>8. CASE ~(s < m) /\ ~(s < b)
    <2>1. shl256(x, s) = Pair(Zero128, Zero128) /\ shr256(x, s) = Pair(Zero128, Zero128)
        BY <1>4, <1>5, <1>8, Zenon DEF shl256, shr256, shl, shr
    <2> QED
        BY <2>1, Zeros, PairsOf, Zenon
<1> QED
    BY <1>6, <1>7, <1>8, Zenon

LEMMA Products256 ==
    ASSUME NEW x \in W256, NEW y \in W256
    PROVE  umul256(x, y) \in W512 /\ mul256(x, y) \in W256
<1>1. \A a, b \in W128 : umul128(a, b) \in W256
    <2> TAKE a, b \in W128
    <2>1. a.hi \in Limb /\ a.lo \in Limb /\ b.hi \in Limb /\ b.lo \in Limb
        BY Pairs DEF W128
    <2>2. \A c, d \in Limb : umul64(c, d) \in W128
        BY Product
    <2>3. \A c \in W128 : c.hi \in Limb /\ c.lo \in Limb /\ Pair(0, c.hi) \in W128 /\ Pair(0, c.lo) \in W128
        BY Pairs, LimbIs, Zenon DEF W128
    <2>4. \A c, d \in W128 : add128(c, d) \in W128
        BY Sums128
    <2> DEFINE t0 == umul64(a.lo, b.lo)
               u1 == add128(umul64(a.hi, b.lo), Pair(0, t0.hi))
               u2 == add128(umul64(a.lo, b.hi), Pair(0, u1.lo))
    <2>5. t0 \in W128
        BY <2>1, <2>2
    <2>6. u1 \in W128
        <3> HIDE DEF t0
        <3> QED BY <2>1, <2>2, <2>3, <2>4, <2>5, Zenon
    <2>7. u2 \in W128
        <3> HIDE DEF t0, u1
        <3> QED BY <2>1, <2>2, <2>3, <2>4, <2>6, Zenon
    <2>8. umul128(a, b) = Pair(add128(add128(umul64(a.hi, b.hi), Pair(0, u2.hi)), Pair(0, u1.hi)),
                               Pair(u2.lo, t0.lo))
        BY DEF umul128, umul
    <2> HIDE DEF t0, u1, u2
    <2>9. add128(add128(umul64(a.hi, b.hi), Pair(0, u2.hi)), Pair(0, u1.hi)) \in W128
        BY <2>1, <2>2, <2>3, <2>4, <2>6, <2>7, Zenon
    <2>10. Pair(u2.lo, t0.lo) \in W128
        BY <2>3, <2>5, <2>7, PairsOf, Zenon
    <2> QED
        BY <2>8, <2>9, <2>10, PairsOf, Zenon
<1>2. x.hi \in W128 /\ x.lo \in W128 /\ y.hi \in W128 /\ y.lo \in W128
    BY Halves256
<1>3. \A a, b \in W256 : add256(a, b) \in W256
    BY Sums256
<1>4. \A c \in W256 : /\ c.hi \in W128 /\ c.lo \in W128
                      /\ Pair(Zero128, c.hi) \in W256 /\ Pair(Zero128, c.lo) \in W256
    BY Zeros, PairsOf, Halves256, Zenon
<1>5. mul256(x, y) \in W256
    <2> DEFINE t == umul128(x.lo, y.lo)
    <2>1. t.hi \in W128 /\ t.lo \in W128
        BY <1>1, <1>2, <1>4, Zenon
    <2>2. mul256(x, y) = Pair(add128(add128(mul128(x.lo, y.hi), mul128(x.hi, y.lo)), t.hi), t.lo)
        BY DEF mul256
    <2> HIDE DEF t
    <2>3. add128(add128(mul128(x.lo, y.hi), mul128(x.hi, y.lo)), t.hi) \in W128
        BY <1>2, <2>1, Sums128, Zenon
    <2> QED
        BY <2>1, <2>2, <2>3, PairsOf, Zenon
<1>6. umul256(x, y) \in W512
    <2> DEFINE t0 == umul128(x.lo, y.lo)
               u1 == add256(umul128(x.hi, y.lo), Pair(Zero128, t0.hi))
               u2 == add256(umul128(x.lo, y.hi), Pair(Zero128, u1.lo))
    <2>1. t0 \in W256
        BY <1>1, <1>2, Zenon
    <2>2. u1 \in W256
        <3> HIDE DEF t0
        <3> QED BY <1>1, <1>2, <1>3, <1>4, <2>1, Zenon
    <2>3. u2 \in W256
        <3> HIDE DEF t0, u1
        <3> QED BY <1>1, <1>2, <1>3, <1>4, <2>2, Zenon
    <2>4. umul256(x, y) = Pair(add256(add256(umul128(x.hi, y.hi), Pair(Zero128, u2.hi)), Pair(Zero128, u1.hi)),
                               Pair(u2.lo, t0.lo))
        BY DEF umul256, umul
    <2> HIDE DEF t0, u1, u2
    <2>5. add256(add256(umul128(x.hi, y.hi), Pair(Zero128, u2.hi)), Pair(Zero128, u1.hi)) \in W256
        BY <1>1, <1>2, <1>3, <1>4, <2>2, <2>3, Zenon
    <2>6. Pair(u2.lo, t0.lo) \in W256
        BY <1>4, <2>1, <2>3, PairsOf, Zenon
    <2> QED
        BY <2>4, <2>5, <2>6, PairsOf, Zenon
<1> QED
    BY <1>5, <1>6

(* Only zero has zero as its negation.                                     *)
LEMMA Increment ==
    ASSUME NEW y \in W128, add128(y, Wide128(1)) = Zero128
    PROVE  y.hi = Base - 1 /\ y.lo = Base - 1
<1>1. PICK B \in Nat : B = Base /\ B >= 4
    BY BaseIs
<1>2. PICK h \in 0 .. B - 1, l \in 0 .. B - 1 : h = y.hi /\ l = y.lo
    BY <1>1, Pairs DEF W128, Limb
<1>3. Wide128(1).hi = 0 /\ Wide128(1).lo = 1 /\ Zero128.hi = 0 /\ Zero128.lo = 0
    BY DEF Wide128, Zero128, Pair
<1>4. add128(y, Wide128(1)) = Pair(add64(add64(h, 0), Bool(l > add64(l, 1))), add64(l, 1))
    BY <1>2, <1>3, Zenon DEF add128
<1>5. add64(l, 1) = 0 /\ add64(add64(h, 0), Bool(l > add64(l, 1))) = 0
    BY <1>3, <1>4 DEF Pair
<1>6. l = B - 1
    <2>1. (l + 1) % B = 0
        BY <1>1, <1>5 DEF add64
    <2>2. l + 1 < B => (l + 1) % B = l + 1
        BY <1>1
    <2> QED BY <2>1, <2>2
<1>7. Bool(l > add64(l, 1)) = 1
    BY <1>1, <1>5, <1>6 DEF Bool
<1>8. add64(h, 0) = h
    <2>1. (h + 0) % B = h
        OBVIOUS
    <2> QED BY <1>1, <2>1 DEF add64
<1>9. (h + 1) % B = 0
    BY <1>1, <1>5, <1>7, <1>8 DEF add64
<1>10. h = B - 1
    <2>1. h + 1 < B => (h + 1) % B = h + 1
        BY <1>1
    <2> QED BY <1>9, <2>1
<1> QED
    BY <1>1, <1>2, <1>6, <1>10

LEMMA AddNothing ==
    ASSUME NEW y \in W128
    PROVE  add128(y, Zero128) = y
<1>1. PICK B \in Nat : B = Base /\ B >= 4
    BY BaseIs
<1>2. PICK h \in 0 .. B - 1, l \in 0 .. B - 1 : h = y.hi /\ l = y.lo
    BY <1>1, Pairs DEF W128, Limb
<1>3. \A n \in 0 .. B - 1 : add64(n, 0) = n
    <2> TAKE n \in 0 .. B - 1
    <2>1. (n + 0) % B = n
        OBVIOUS
    <2> QED BY <1>1, <2>1 DEF add64
<1>4. Bool(l > l) = 0
    BY DEF Bool
<1>5. Zero128.hi = 0 /\ Zero128.lo = 0
    BY DEF Zero128, Pair
<1>6. add128(y, Zero128) = Pair(add64(add64(h, 0), Bool(l > add64(l, 0))), add64(l, 0))
    BY <1>2, <1>5, Zenon DEF add128
<1>7. add128(y, Zero128) = Pair(h, l)
    BY <1>3, <1>4, <1>6
<1> QED
    BY <1>2, <1>7, Pairs, Zenon DEF W128

LEMMA Negation ==
    ASSUME NEW x \in W256, x # Zero256
    PROVE  neg256(x) # Zero256
<1> SUFFICES ASSUME neg256(x) = Zero256 PROVE FALSE
    OBVIOUS
<1> DEFINE y == not256(x)
<1>1. y \in W256 /\ One256 \in W256
    BY Sums256, Zeros
<1>2. y.hi \in W128 /\ y.lo \in W128
    BY <1>1, Halves256
<1>3. One256.hi = Zero128 /\ One256.lo = Wide128(1) /\ Zero256.hi = Zero128 /\ Zero256.lo = Zero128
    BY DEF One256, Zero256, Pair
<1>4. y.hi = not128(x.hi) /\ y.lo = not128(x.lo)
    BY Pairs, Zenon DEF not256, Halves
<1>5. add256(y, One256) = Zero256
    BY DEF neg256
<1> HIDE DEF y
<1>6. PICK c \in W128 :
          /\ add_with_carry128(y.lo, Wide128(1)).carry => c = Wide128(1)
          /\ Zero256 = Pair(add128(add128(y.hi, Zero128), c), add128(y.lo, Wide128(1)))
    <2>1. PICK c \in W128 :
              /\ add_with_carry128(y.lo, One256.lo).carry => c = Wide128(1)
              /\ add256(y, One256) = Pair(add128(add128(y.hi, One256.hi), c), add128(y.lo, One256.lo))
        BY <1>1, Carries
    <2> QED BY <2>1, <1>3, <1>5, Zenon
<1>7. add128(y.lo, Wide128(1)) = Zero128 /\ add128(add128(y.hi, Zero128), c) = Zero128
    <2>1. \A a, b : Pair(a, b).hi = a /\ Pair(a, b).lo = b
        BY Pairs
    <2> QED BY <1>3, <1>6, <2>1
<1>8. y.lo.hi = Base - 1 /\ y.lo.lo = Base - 1
    BY <1>2, <1>7, Increment
<1>9. add_with_carry128(y.lo, Wide128(1)).carry
    <2>1. add_with_carry128(y.lo, Wide128(1)).carry = less128(Zero128, y.lo)
        BY <1>7 DEF add_with_carry128
    <2>2. Zero128.hi < y.lo.hi
        <3>1. Zero128.hi = 0
            BY DEF Zero128, Pair
        <3>2. PICK B \in Nat : B = Base /\ B >= 4
            BY BaseIs
        <3>3. 0 < B - 1
            BY <3>2
        <3> QED BY <1>8, <3>1, <3>2, <3>3
    <2> QED BY <2>1, <2>2 DEF less128
<1>10. add128(y.hi, Wide128(1)) = Zero128
    BY <1>2, <1>6, <1>7, <1>9, AddNothing
<1>11. y.hi.hi = Base - 1 /\ y.hi.lo = Base - 1
    BY <1>2, <1>10, Increment
<1>12. ASSUME NEW h \in W128, not128(h).hi = Base - 1, not128(h).lo = Base - 1
       PROVE  h = Zero128
    <2>1. h.hi \in Limb /\ h.lo \in Limb /\ h = Pair(h.hi, h.lo)
        BY Pairs DEF W128
    <2>2. not128(h).hi = not64(h.hi) /\ not128(h).lo = not64(h.lo)
        BY DEF not128, Pair
    <2>3. h.hi = 0 /\ h.lo = 0
        BY <1>12, <2>1, <2>2, Complement
    <2> QED BY <2>1, <2>3 DEF Zero128
<1>13. x.hi = Zero128 /\ x.lo = Zero128
    BY <1>4, <1>8, <1>11, <1>12, Halves256
<1> QED
    BY <1>13, Halves256 DEF Zero256

-----------------------------------------------------------------------------
(* Numbers as sequences of machine words.                                  *)

Words(n) == [1 .. n -> Limb]

LEMMA WordsOf ==
    ASSUME NEW x \in W256
    PROVE  /\ words256(x) \in Seq(Limb) /\ Len(words256(x)) = 4 /\ words256(x) \in Words(4)
           /\ x # Zero256 => \E i \in 1 .. 4 : words256(x)[i] # 0
<1> DEFINE a == words128(x.lo)
           b == words128(x.hi)
<1>1. x.hi \in W128 /\ x.lo \in W128 /\ x = Pair(x.hi, x.lo)
    BY Halves256
<1>2. x.hi.hi \in Limb /\ x.hi.lo \in Limb /\ x.lo.hi \in Limb /\ x.lo.lo \in Limb
    BY <1>1, Pairs DEF W128
<1>3. /\ a \in Seq(Limb) /\ Len(a) = 2 /\ a[1] = x.lo.lo /\ a[2] = x.lo.hi
      /\ b \in Seq(Limb) /\ Len(b) = 2 /\ b[1] = x.hi.lo /\ b[2] = x.hi.hi
    BY <1>2 DEF words128
<1>4. words256(x) = a \o b
    BY DEF words256
<1> HIDE DEF a, b
<1>5. /\ a \o b \in Seq(Limb) /\ Len(a \o b) = 4
      /\ \A i \in 1 .. 4 : (a \o b)[i] = IF i <= 2 THEN a[i] ELSE b[i - 2]
    <2>1. /\ a \o b \in Seq(Limb) /\ Len(a \o b) = Len(a) + Len(b)
          /\ \A i \in 1 .. Len(a) + Len(b) : (a \o b)[i] = IF i <= Len(a) THEN a[i] ELSE b[i - Len(a)]
        BY <1>3, ConcatProperties
    <2> QED BY <1>3, <2>1
<1>6. words256(x) \in Words(4)
    <2>1. PICK w \in Seq(Limb) : w = a \o b /\ Len(w) = 4
        BY <1>5
    <2>2. w \in [1 .. 4 -> Limb]
        <3>1. w \in [1 .. Len(w) -> Limb]
            OBVIOUS
        <3> QED BY <2>1, <3>1, Zenon
    <2> QED BY <1>4, <2>1, <2>2 DEF Words
<1>7. ASSUME \A i \in 1 .. 4 : words256(x)[i] = 0
      PROVE  x = Zero256
    <2>1. a[1] = 0 /\ a[2] = 0 /\ b[1] = 0 /\ b[2] = 0
        BY <1>4, <1>5, <1>7
    <2>2. x.hi = Pair(0, 0) /\ x.lo = Pair(0, 0)
        <3>1. x.hi = Pair(x.hi.hi, x.hi.lo) /\ x.lo = Pair(x.lo.hi, x.lo.lo)
            BY <1>1, Pairs DEF W128
        <3>2. x.hi.hi = 0 /\ x.hi.lo = 0 /\ x.lo.hi = 0 /\ x.lo.lo = 0
            BY <1>3, <2>1
        <3> QED BY <3>1, <3>2, Zenon
    <2> QED BY <1>1, <2>2 DEF Zero256, Zero128
<1> QED
    BY <1>4, <1>5, <1>6, <1>7

LEMMA WordsOf512 ==
    ASSUME NEW x \in W512
    PROVE  /\ words512(x) \in Words(8)
           /\ x.lo # Zero256 => \E i \in 1 .. 8 : words512(x)[i] # 0
<1> DEFINE a == words256(x.lo)
           b == words256(x.hi)
<1>1. x.hi \in W256 /\ x.lo \in W256
    BY Pairs DEF W512
<1>2. a \in Seq(Limb) /\ Len(a) = 4 /\ b \in Seq(Limb) /\ Len(b) = 4
    BY <1>1, WordsOf
<1>3. words512(x) = a \o b
    BY DEF words512
<1>4. x.lo # Zero256 => \E i \in 1 .. 4 : a[i] # 0
    BY <1>1, WordsOf
<1> HIDE DEF a, b
<1>5. /\ a \o b \in Seq(Limb) /\ Len(a \o b) = 8
      /\ \A i \in 1 .. 8 : (a \o b)[i] = IF i <= 4 THEN a[i] ELSE b[i - 4]
    <2>1. /\ a \o b \in Seq(Limb) /\ Len(a \o b) = Len(a) + Len(b)
          /\ \A i \in 1 .. Len(a) + Len(b) : (a \o b)[i] = IF i <= Len(a) THEN a[i] ELSE b[i - Len(a)]
        BY <1>2, ConcatProperties
    <2> QED BY <1>2, <2>1
<1>6. words512(x) \in Words(8)
    <2>1. PICK w \in Seq(Limb) : w = a \o b /\ Len(w) = 8
        BY <1>5
    <2>2. w \in [1 .. 8 -> Limb]
        <3>1. w \in [1 .. Len(w) -> Limb]
            OBVIOUS
        <3> QED BY <2>1, <3>1, Zenon
    <2> QED BY <1>3, <2>1, <2>2 DEF Words
<1>7. \A i \in 1 .. 4 : words512(x)[i] = a[i]
    <2> TAKE i \in 1 .. 4
    <2>1. i \in 1 .. 8 /\ i <= 4
        OBVIOUS
    <2>2. (a \o b)[i] = a[i]
        <3> DEFINE w == a \o b
        <3>1. \A k \in 1 .. 8 : w[k] = IF k <= 4 THEN a[k] ELSE b[k - 4]
            BY <1>5
        <3> HIDE DEF w
        <3>2. w[i] = a[i]
            BY <2>1, <3>1
        <3> QED BY <3>2 DEF w
    <2> QED BY <1>3, <2>2
<1> QED
    BY <1>4, <1>6, <1>7

LEMMA NumberOf ==
    ASSUME NEW n \in Nat, n >= 4, NEW w \in Words(n)
    PROVE  number256(w) \in W256
<1>1. At(w, 0) \in Limb /\ At(w, 1) \in Limb /\ At(w, 2) \in Limb /\ At(w, 3) \in Limb
    BY DEF At, Words
<1>2. Pair(At(w, 3), At(w, 2)) \in W128 /\ Pair(At(w, 1), At(w, 0)) \in W128
    BY <1>1, PairsOf
<1> QED
    BY <1>2, PairsOf DEF number256

(* The words that count: the highest of them is not 0.                      *)
LEMMA SignificantIs ==
    ASSUME NEW n \in Nat, NEW w \in Words(n)
    PROVE  /\ Significant(w) \in 0 .. n
           /\ Significant(w) > 0 => At(w, Significant(w) - 1) # 0
           /\ (\E i \in 1 .. n : w[i] # 0) => Significant(w) > 0
<1> DEFINE Good(m) == (m > 0 => At(w, m - 1) # 0) /\ \A i \in m .. Len(w) - 1 : At(w, i) = 0
           Zeroed == {m \in 0 .. n : \A i \in m + 1 .. n : w[i] = 0}
<1>1. Len(w) = n
    BY DEF Words
<1>2. n \in Zeroed /\ Zeroed \in SUBSET Nat
    OBVIOUS
<1>3. PICK m \in Zeroed : \A k \in Zeroed : m <= k
    <2> HIDE DEF Zeroed
    <2> QED BY <1>2, NatLeast
<1>4. m > 0 => w[m] # 0
    <2> SUFFICES ASSUME m > 0, w[m] = 0 PROVE FALSE
        OBVIOUS
    <2>1. m - 1 \in Zeroed
        <3>1. \A i \in (m - 1) + 1 .. n : i = m \/ i \in m + 1 .. n
            OBVIOUS
        <3> QED BY <3>1
    <2> QED BY <1>3, <2>1
<1>5. Good(m) /\ m \in 0 .. Len(w)
    <2>1. m > 0 => At(w, m - 1) # 0
        BY <1>4 DEF At
    <2>2. \A i \in m .. Len(w) - 1 : At(w, i) = 0
        BY <1>1, <1>3 DEF At
    <2> QED BY <1>1, <2>1, <2>2
<1>6. Significant(w) = CHOOSE k \in 0 .. Len(w) : Good(k)
    BY DEF Significant
<1>7. Good(Significant(w)) /\ Significant(w) \in 0 .. Len(w)
    <2> HIDE DEF Good
    <2> QED BY <1>5, <1>6, Zenon
<1>8. Significant(w) = 0 => \A i \in 1 .. n : w[i] = 0
    <2> SUFFICES ASSUME Significant(w) = 0, NEW i \in 1 .. n PROVE w[i] = 0
        OBVIOUS
    <2>1. \A k \in 0 .. n - 1 : At(w, k) = 0
        BY <1>1, <1>7
    <2>2. At(w, i - 1) = 0 /\ (i - 1) + 1 = i
        BY <2>1
    <2> QED BY <2>2 DEF At
<1> QED
    BY <1>1, <1>7, <1>8

-----------------------------------------------------------------------------
(* Digits of a quotient.                                                   *)

Normal(d) == 2 ^ (LimbBits - 1) <= d

LEMMA Reciprocal ==
    ASSUME NEW d \in Limb, Normal(d)
    PROVE  reciprocal_2by1(d) \in Limb
<1>1. PICK p \in Nat \ {0} : p = 2 ^ (LimbBits - 1) /\ Base = p + p
    BY PowerIn, BaseIs
<1>2. PICK B \in Nat \ {0} : B = p + p
    BY <1>1
<1>3. d \in 0 .. B - 1 /\ p <= d /\ d \in Nat \ {0}
    BY <1>1, <1>2 DEF Limb, Normal
<1>4. PICK n \in Nat : n = B * B - 1
    <2>1. B * B >= 1
        BY <1>2
    <2> QED BY <2>1
<1>5. PICK q \in Nat : q = n \div d
    BY <1>3, Quotient
<1>6. PICK r \in 0 .. d - 1 : r = n % d
    <2>1. n % d \in 0 .. d - 1
        BY <1>3, Remainder
    <2> QED BY <2>1
<1>7. n = d * q + r
    BY <1>3, <1>5, <1>6
<1>8. q >= B
    <2> SUFFICES ASSUME q <= B - 1 PROVE FALSE
        OBVIOUS
    <2>1. d * q <= d * (B - 1)
        BY <1>3
    <2>2. d * (B - 1) = d * B - d
        BY <1>3
    <2>3. d * B <= (B - 1) * B
        BY <1>3
    <2>4. (B - 1) * B = B * B - B
        OBVIOUS
    <2> QED BY <1>3, <1>4, <1>6, <1>7, <2>1, <2>2, <2>3, <2>4
<1>9. q <= B + B - 1
    <2> SUFFICES ASSUME q >= B + B PROVE FALSE
        OBVIOUS
    <2>1. d * q >= d * (B + B)
        BY <1>3
    <2>2. d * (B + B) >= p * (B + B)
        BY <1>3
    <2>3. p * (B + B) = B * B
        BY <1>2
    <2> QED BY <1>3, <1>4, <1>6, <1>7, <2>1, <2>2, <2>3
<1>10. q - B \in 0 .. B - 1
    BY <1>8, <1>9
<1>11. reciprocal_2by1(d) = q - B
    BY <1>1, <1>2, <1>4, <1>5 DEF reciprocal_2by1
<1> QED
    BY <1>1, <1>2, <1>10, <1>11 DEF Limb

LEMMA Reciprocal3 ==
    ASSUME NEW d \in W128, Normal(d.hi)
    PROVE  reciprocal_3by2(d) \in Limb
<1> DEFINE v0 == reciprocal_2by1(d.hi)
           p0 == add64(mul64(d.hi, v0), d.lo)
           v1 == IF p0 < d.lo THEN v0 - 1 - Bool(p0 >= d.hi) ELSE v0
           p1 == IF p0 < d.lo THEN sub64(IF p0 >= d.hi THEN p0 - d.hi ELSE p0, d.hi) ELSE p0
           t == umul64(v1 % Base, d.lo)
           p2 == add64(p1, t.hi)
           v2 == IF p2 < t.hi THEN v1 - 1 - Bool(leq128(d, Pair(p2, t.lo))) ELSE v1
<1>1. reciprocal_3by2(d) = v2 % Base
    BY DEF reciprocal_3by2
<1>2. d.hi \in Limb /\ d.lo \in Limb
    BY Pairs DEF W128
<1>3. v0 \in Int
    <2>1. v0 \in Limb
        BY <1>2, Reciprocal
    <2> HIDE DEF v0
    <2> QED BY <2>1, LimbIs
<1>4. \A c : Bool(c) \in Int
    BY LimbIs
<1>5. v1 \in Int
    <2> HIDE DEF v0, p0
    <2> QED BY <1>3, <1>4
<1>6. v2 \in Int
    <2> HIDE DEF v1, p2, t
    <2> QED BY <1>4, <1>5
<1> HIDE DEF v2
<1> QED
    BY <1>1, <1>6, Wraps

LEMMA Division2by1 ==
    ASSUME NEW u \in W128, NEW d \in Limb, NEW v \in Limb
    PROVE  udivrem_2by1(u, d, v).quot \in Limb /\ udivrem_2by1(u, d, v).rem \in Limb
<1> DEFINE q0 == add128(umul64(v, u.hi), u)
           q1 == add64(q0.hi, 1)
           r1 == sub64(u.lo, mul64(q1, d))
           q2 == IF r1 > q0.lo THEN sub64(q1, 1) ELSE q1
           r2 == IF r1 > q0.lo THEN add64(r1, d) ELSE r1
<1>1. udivrem_2by1(u, d, v) = [quot |-> IF r2 >= d THEN add64(q2, 1) ELSE q2, rem |-> IF r2 >= d THEN r2 - d ELSE r2]
    BY DEF udivrem_2by1
<1>2. \A x, y \in Limb : add64(x, y) \in Limb /\ sub64(x, y) \in Limb /\ mul64(x, y) \in Limb
    BY Sums, LimbIs
<1>3. u.hi \in Limb /\ u.lo \in Limb /\ 1 \in Limb
    BY Pairs, LimbIs DEF W128
<1>4. q0 \in W128 /\ q0.hi \in Limb /\ q0.lo \in Limb
    <2>1. umul64(v, u.hi) \in W128
        BY <1>3, Product
    <2>2. q0 \in W128
        BY <2>1, Sums128
    <2> HIDE DEF q0
    <2> QED BY <2>2, Pairs DEF W128
<1> HIDE DEF q0
<1>5. q1 \in Limb
    BY <1>2, <1>3, <1>4
<1> HIDE DEF q1
<1>6. r1 \in Limb
    BY <1>2, <1>3, <1>5
<1> HIDE DEF r1
<1>7. q2 \in Limb /\ r2 \in Limb
    BY <1>2, <1>3, <1>5, <1>6
<1> HIDE DEF q2, r2
<1>8. add64(q2, 1) \in Limb
    BY <1>2, <1>3, <1>7
<1>9. r2 >= d => r2 - d \in Limb
    <2>1. r2 \in Nat /\ d \in Nat /\ \A y \in 0 .. r2 : y \in Limb
        BY <1>7, LimbIs
    <2>2. r2 >= d => r2 - d \in 0 .. r2
        BY <2>1
    <2> QED BY <2>1, <2>2
<1> QED
    BY <1>1, <1>7, <1>8, <1>9

LEMMA Division3by2 ==
    ASSUME NEW u2 \in Limb, NEW u1 \in Limb, NEW u0 \in Limb, NEW d \in W128, NEW v \in Limb
    PROVE  udivrem_3by2(u2, u1, u0, d, v).quot \in Limb /\ udivrem_3by2(u2, u1, u0, d, v).rem \in W128
<1> DEFINE q0 == add128(umul64(v, u2), Pair(u2, u1))
           r0 == sub128(sub128(Pair(sub64(u1, mul64(q0.hi, d.hi)), u0), umul64(d.lo, q0.hi)), d)
           q2 == IF r0.hi >= q0.lo THEN q0.hi ELSE add64(q0.hi, 1)
           r2 == IF r0.hi >= q0.lo THEN add128(r0, d) ELSE r0
<1>1. udivrem_3by2(u2, u1, u0, d, v)
        = [quot |-> IF leq128(d, r2) THEN add64(q2, 1) ELSE q2, rem |-> IF leq128(d, r2) THEN sub128(r2, d) ELSE r2]
    BY DEF udivrem_3by2
<1>2. \A x, y \in Limb : add64(x, y) \in Limb /\ sub64(x, y) \in Limb /\ mul64(x, y) \in Limb
    BY Sums, LimbIs
<1>3. d.hi \in Limb /\ d.lo \in Limb /\ 1 \in Limb
    BY Pairs, LimbIs DEF W128
<1>4. \A x, y \in W128 : add128(x, y) \in W128 /\ sub128(x, y) \in W128
    BY Sums128
<1>5. \A x, y \in Limb : umul64(x, y) \in W128 /\ Pair(x, y) \in W128
    BY Product, PairsOf
<1>6. q0 \in W128 /\ q0.hi \in Limb /\ q0.lo \in Limb
    <2>1. q0 \in W128
        BY <1>4, <1>5
    <2> HIDE DEF q0
    <2> QED BY <2>1, Pairs DEF W128
<1> HIDE DEF q0
<1>7. r0 \in W128
    <2>1. sub64(u1, mul64(q0.hi, d.hi)) \in Limb
        BY <1>2, <1>3, <1>6
    <2>2. Pair(sub64(u1, mul64(q0.hi, d.hi)), u0) \in W128 /\ umul64(d.lo, q0.hi) \in W128
        BY <1>3, <1>5, <1>6, <2>1
    <2> QED BY <1>4, <2>2
<1> HIDE DEF r0
<1>8. q2 \in Limb /\ r2 \in W128
    BY <1>2, <1>3, <1>4, <1>6, <1>7
<1> HIDE DEF q2, r2
<1>9. add64(q2, 1) \in Limb /\ sub128(r2, d) \in W128
    BY <1>2, <1>3, <1>4, <1>8
<1> QED
    BY <1>1, <1>8, <1>9

LEMMA NotBelowZero ==
    ASSUME NEW x \in Limb, NEW y \in Limb, NEW z \in Limb
    PROVE  ~less128(Pair(x, y), umul64(0, z))
<1>1. umul64(0, z) = Pair(0, 0)
    BY ProductOfZero
<1>2. x \in Nat /\ y \in Nat
    BY LimbIs
<1> QED
    BY <1>1, <1>2 DEF less128, Pair

(* An estimated digit is corrected downwards only where it is too large.    *)
LEMMA Estimate ==
    ASSUME NEW K \in Nat, NEW un \in Words(K), NEW n \in Nat, n >= 2, NEW j \in Nat, j + n + 1 <= K,
           NEW divisor \in W128, NEW r \in Limb
    PROVE  qhat(un, j, n, divisor, r) \in Limb
<1> DEFINE u0 == At(un, j + n - 2)
           dividend == Pair(At(un, j + n), At(un, j + n - 1))
           tooLarge(q, rhat) == less128(Pair(rhat.lo, u0), umul64(q, divisor.lo))
           rmax == add128(sub128(dividend, Pair(divisor.hi, 0)), Wide128(divisor.hi))
           res == udivrem_2by1(dividend, divisor.hi, r)
           rnext == add128(Wide128(res.rem), Wide128(divisor.hi))
           top == Base - 1 - Bool(rmax.hi = 0 /\ tooLarge(Base - 1, rmax))
           low == IF tooLarge(res.quot, Wide128(res.rem))
                  THEN res.quot - 1 - Bool(rnext.hi = 0 /\ tooLarge(res.quot - 1, rnext)) ELSE res.quot
<1>1. qhat(un, j, n, divisor, r) = IF dividend.hi >= divisor.hi THEN top ELSE low
    BY DEF qhat
<1>2. u0 \in Limb /\ At(un, j + n) \in Limb /\ At(un, j + n - 1) \in Limb
    BY DEF At, Words
<1>3. dividend \in W128
    BY <1>2, PairsOf
<1>4. divisor.hi \in Limb /\ divisor.lo \in Limb
    BY Pairs DEF W128
<1>5. res.quot \in Limb /\ res.rem \in Limb
    BY <1>3, <1>4, Division2by1
<1>6. \A rhat \in W128 : rhat.lo \in Limb
    BY Pairs DEF W128
<1>7. \A rhat \in W128 : ~tooLarge(0, rhat)
    <2> HIDE DEF u0
    <2> QED BY <1>2, <1>4, <1>6, NotBelowZero
<1>8. Wide128(res.rem) \in W128 /\ Wide128(divisor.hi) \in W128 /\ rnext \in W128
    <2>1. Wide128(res.rem) \in W128 /\ Wide128(divisor.hi) \in W128
        <3> HIDE DEF res
        <3> QED BY <1>4, <1>5, Zeros
    <2> HIDE DEF res
    <2> QED BY <2>1, Sums128
<1>9. PICK B \in Nat : B = Base /\ B >= 4
    BY BaseIs
<1>10. Limb = 0 .. B - 1
    BY <1>9 DEF Limb
<1>11. \A c : Bool(c) \in 0 .. 1 /\ (~c => Bool(c) = 0)
    BY DEF Bool
<1>12. top \in Limb
    <2>1. PICK b \in 0 .. 1 : b = Bool(rmax.hi = 0 /\ tooLarge(Base - 1, rmax))
        <3> HIDE DEF tooLarge, rmax
        <3> QED BY <1>11
    <2>2. top = B - 1 - b
        BY <1>9, <2>1, Zenon
    <2> HIDE DEF top
    <2> QED BY <1>9, <1>10, <2>2
<1> HIDE DEF tooLarge, rnext
<1>13. low \in Limb
    <2>1. PICK q \in 0 .. B - 1 : q = res.quot
        BY <1>5, <1>10
    <2>2. CASE ~tooLarge(res.quot, Wide128(res.rem))
        BY <1>5, <2>2
    <2>3. CASE tooLarge(res.quot, Wide128(res.rem))
        <3>1. q # 0
            <4> HIDE DEF res
            <4> QED BY <1>7, <1>8, <2>1, <2>3
        <3>2. PICK p \in 0 .. B - 1 : p = q - 1
            BY <3>1
        <3>3. PICK b \in 0 .. 1 : b = Bool(rnext.hi = 0 /\ tooLarge(p, rnext)) /\ (p = 0 => b = 0)
            BY <1>7, <1>8, <1>11
        <3>4. low = p - b
            BY <2>1, <2>3, <3>2, <3>3
        <3>5. p - b \in 0 .. B - 1
            BY <3>3
        <3> HIDE DEF low
        <3> QED BY <1>10, <3>4, <3>5
    <2> QED BY <2>2, <2>3
<1> HIDE DEF top, low, dividend
<1> QED
    BY <1>1, <1>12, <1>13

-----------------------------------------------------------------------------
(* Division: what the folds over the digits keep.                          *)

LEMMA Counts ==
    ASSUME NEW n \in Nat
    PROVE  /\ Upto(n) \in Seq(0 .. n - 1) /\ DOMAIN Upto(n) = 1 .. n /\ Len(Upto(n)) = n
           /\ \A m \in Int : m + 1 = n =>
                 Downto0(m) \in Seq(0 .. m) /\ DOMAIN Downto0(m) = 1 .. n /\ Len(Downto0(m)) = n
<1>1. Upto(n) \in Seq(0 .. n - 1) /\ DOMAIN Upto(n) = 1 .. n /\ Len(Upto(n)) = n
    BY DEF Upto
<1>2. ASSUME NEW m \in Int, m + 1 = n
      PROVE  Downto0(m) \in Seq(0 .. m) /\ DOMAIN Downto0(m) = 1 .. n /\ Len(Downto0(m)) = n
    <2>1. Downto0(m) = [i \in 1 .. n |-> n - i]
        BY <1>2 DEF Downto0
    <2>2. \A i \in 1 .. n : n - i \in 0 .. m
        BY <1>2
    <2> QED BY <2>1, <2>2
<1> QED
    BY <1>1, <1>2

LEMMA PutIn ==
    ASSUME NEW n \in Nat, NEW w \in Words(n), NEW i \in Nat, NEW v \in Limb
    PROVE  Put(w, i, v) \in Words(n)
    BY DEF Put, Words

LEMMA AtIn ==
    ASSUME NEW n \in Nat, NEW w \in Words(n), NEW i \in 0 .. n - 1
    PROVE  At(w, i) \in Limb
    BY DEF At, Words

LEMMA ExpIn ==
    ASSUME NEW base \in W256, NEW exponent \in W256
    PROVE  exp(base, exponent) \in W256
<1> DEFINE lowBit(i) == and256(shr256(exponent, i - 1), One256) # Zero256
           L == 4 * LimbBits
           seq == Positions(L)
           A == [result : W256, base : W256]
           B == 1 .. L
           Do(s, j) == [result |-> IF lowBit(j) THEN mul256(s.result, s.base) ELSE s.result,
                        base |-> mul256(s.base, s.base)]
           G == [z \in A \X B |-> Do(z[1], z[2])]
           Rec(f) == [s \in SUBSET DOMAIN seq |-> IF s = {} THEN [result |-> One256, base |-> base] ELSE Do(f[s \ {Max(s)}], seq[Max(s)])]
           it == CHOOSE f : f = Rec(f)
<1>1. seq \in Seq(B) /\ DOMAIN seq = 1 .. L /\ Len(seq) = L /\ L \in Nat
    BY BaseIs, PositionsAre
<1>2. [result |-> One256, base |-> base] \in A
    BY Zeros
<1>3. \A s \in A, j \in B : Do(s, j) \in A
    <2>1. \A a, b \in W256 : mul256(a, b) \in W256
        BY Products256
    <2> HIDE DEF lowBit, L
    <2> QED BY <2>1
<1> HIDE DEF A, B
<1>4. G \in [A \X B -> A]
    <2> HIDE DEF Do
    <2> QED BY <1>3
<1>5. PICK f : Folds(f, A, G, [result |-> One256, base |-> base], seq)
    <2> HIDE DEF G, seq, Do
    <2> QED BY <1>1, <1>2, <1>4, FoldExists
<1>6. f = Rec(f)
    <2>1. f \in [SUBSET (1 .. L) -> A] /\ f[{}] = [result |-> One256, base |-> base]
        <3> HIDE DEF G, seq, Do
        <3> QED BY <1>1, <1>5 DEF Folds
    <2>2. ASSUME NEW s \in SUBSET (1 .. L), s # {}
          PROVE  f[s] = Do(f[s \ {Max(s)}], seq[Max(s)])
        <3>1. /\ f[s] = G[<<f[s \ {Max(s)}], seq[Max(s)]>>]
              /\ f[s \ {Max(s)}] \in A /\ seq[Max(s)] \in B
            <4> HIDE DEF seq, G, Rec, Do
            <4>1. s \in SUBSET (1 .. Len(seq)) /\ s # {} /\ seq \in Seq(B)
                BY <1>1, <2>2
            <4> QED BY <1>5, <4>1, FoldStep
        <3> HIDE DEF Do
        <3> QED BY <3>1
    <2> HIDE DEF seq, Do
    <2> QED BY <1>1, <2>1, <2>2
<1>7. it = Rec(it)
    <2> HIDE DEF Rec
    <2> QED BY <1>6
<1>8. it[1 .. L] \in A
    <2> HIDE DEF it, seq, Do
    <2>1. it[{}] \in A
        BY <1>2, <1>7
    <2>2. ASSUME NEW s \in SUBSET (1 .. L), s # {}, Max(s) \in 1 .. L, it[s \ {Max(s)}] \in A
          PROVE  it[s] \in A
        <3>1. it[s] = Do(it[s \ {Max(s)}], seq[Max(s)])
            BY <1>1, <1>7, <2>2
        <3>2. seq[Max(s)] \in B
            BY <1>1, <2>2
        <3> QED BY <1>3, <2>2, <3>1, <3>2
    <2> QED BY <1>1, <2>1, <2>2, FoldTyped
<1>9. FoldLeft(Do, [result |-> One256, base |-> base], seq) = it[DOMAIN seq]
    BY DEF FoldLeft, MapThenFoldSet
<1>10. FoldLeft(Do, [result |-> One256, base |-> base], seq) \in A
    <2> HIDE DEF it, seq, Do
    <2> QED BY <1>1, <1>8, <1>9
<1>11. exp(base, exponent) = FoldLeft(Do, [result |-> One256, base |-> base], seq).result
    BY DEF exp, Positions
<1> QED
    BY <1>10, <1>11 DEF A

LEMMA Divided1 ==
    ASSUME NEW K \in Nat, NEW u \in Words(K), NEW m \in Nat \ {0}, m + 1 <= K, NEW d \in Limb, Normal(d)
    PROVE  udivrem_by1(u, m, d) \in [quot : Words(K), rem : Limb]
<1> DEFINE v == reciprocal_2by1(d)
           x(s, j) == udivrem_2by1(Pair(s.rem, At(s.quot, j)), d, v)
           seq == Downto0(m - 1)
           A == [quot : Words(K), rem : Limb]
           B == 0 .. m - 1
           Do(s, j) == [quot |-> Put(s.quot, j, x(s, j).quot), rem |-> x(s, j).rem]
           G == [z \in A \X B |-> Do(z[1], z[2])]
           Rec(f) == [s \in SUBSET DOMAIN seq |-> IF s = {} THEN [quot |-> Put(u, m, 0), rem |-> At(u, m)] ELSE Do(f[s \ {Max(s)}], seq[Max(s)])]
           it == CHOOSE f : f = Rec(f)
<1>1. seq \in Seq(B) /\ DOMAIN seq = 1 .. m /\ Len(seq) = m /\ m \in Nat
    <2> m - 1 \in Int /\ m - 1 + 1 = m
        OBVIOUS
    <2> QED BY Counts
<1>2. [quot |-> Put(u, m, 0), rem |-> At(u, m)] \in A
    <2>1. Put(u, m, 0) \in Words(K)
        BY LimbIs, PutIn
    <2>2. At(u, m) \in Limb
        BY AtIn
    <2> QED BY <2>1, <2>2
<1>3. \A s \in A, j \in B : Do(s, j) \in A
    <2>1. TAKE s \in A, j \in B
    <2>2. s.quot \in Words(K) /\ s.rem \in Limb
        OBVIOUS
    <2>3. At(s.quot, j) \in Limb
        BY <2>2, AtIn
    <2>4. Pair(s.rem, At(s.quot, j)) \in W128 /\ v \in Limb
        BY <2>2, <2>3, PairsOf, Reciprocal
    <2>5. x(s, j).quot \in Limb /\ x(s, j).rem \in Limb
        <3> HIDE DEF v
        <3> QED BY <2>4, Division2by1
    <2>6. Put(s.quot, j, x(s, j).quot) \in Words(K)
        <3> HIDE DEF x
        <3> QED BY <2>2, <2>5, PutIn
    <2> HIDE DEF x
    <2> QED BY <2>5, <2>6
<1> HIDE DEF A, B
<1>4. G \in [A \X B -> A]
    <2> HIDE DEF Do
    <2> QED BY <1>3
<1>5. PICK f : Folds(f, A, G, [quot |-> Put(u, m, 0), rem |-> At(u, m)], seq)
    <2> HIDE DEF G, seq, Do
    <2> QED BY <1>1, <1>2, <1>4, FoldExists
<1>6. f = Rec(f)
    <2>1. f \in [SUBSET (1 .. m) -> A] /\ f[{}] = [quot |-> Put(u, m, 0), rem |-> At(u, m)]
        <3> HIDE DEF G, seq, Do
        <3> QED BY <1>1, <1>5 DEF Folds
    <2>2. ASSUME NEW s \in SUBSET (1 .. m), s # {}
          PROVE  f[s] = Do(f[s \ {Max(s)}], seq[Max(s)])
        <3>1. /\ f[s] = G[<<f[s \ {Max(s)}], seq[Max(s)]>>]
              /\ f[s \ {Max(s)}] \in A /\ seq[Max(s)] \in B
            <4> HIDE DEF seq, G, Rec, Do
            <4>1. s \in SUBSET (1 .. Len(seq)) /\ s # {} /\ seq \in Seq(B)
                BY <1>1, <2>2
            <4> QED BY <1>5, <4>1, FoldStep
        <3> HIDE DEF Do
        <3> QED BY <3>1
    <2> HIDE DEF seq, Do
    <2> QED BY <1>1, <2>1, <2>2
<1>7. it = Rec(it)
    <2> HIDE DEF Rec
    <2> QED BY <1>6
<1>8. it[1 .. m] \in A
    <2> HIDE DEF it, seq, Do
    <2>1. it[{}] \in A
        BY <1>2, <1>7
    <2>2. ASSUME NEW s \in SUBSET (1 .. m), s # {}, Max(s) \in 1 .. m, it[s \ {Max(s)}] \in A
          PROVE  it[s] \in A
        <3>1. it[s] = Do(it[s \ {Max(s)}], seq[Max(s)])
            BY <1>1, <1>7, <2>2
        <3>2. seq[Max(s)] \in B
            BY <1>1, <2>2
        <3> QED BY <1>3, <2>2, <3>1, <3>2
    <2> QED BY <1>1, <2>1, <2>2, FoldTyped
<1>9. udivrem_by1(u, m, d) = it[DOMAIN seq]
    BY DEF udivrem_by1, FoldLeft, MapThenFoldSet
<1>10. udivrem_by1(u, m, d) \in A
    <2> HIDE DEF it, seq, Do
    <2> QED BY <1>1, <1>8, <1>9
<1> QED
    BY <1>10 DEF A

LEMMA Divided2 ==
    ASSUME NEW K \in Nat, NEW u \in Words(K), NEW m \in Nat, m >= 2, m + 1 <= K, NEW d \in W128, Normal(d.hi)
    PROVE  udivrem_by2(u, m, d) \in [quot : Words(K), rem : W128]
<1> DEFINE v == reciprocal_3by2(d)
           M == m - 1
           x(s, j) == udivrem_3by2(s.rem.hi, s.rem.lo, At(s.quot, j), d, v)
           seq == Downto0(m - 2)
           A == [quot : Words(K), rem : W128]
           B == 0 .. m - 2
           Do(s, j) == [quot |-> Put(s.quot, j, x(s, j).quot), rem |-> x(s, j).rem]
           G == [z \in A \X B |-> Do(z[1], z[2])]
           Rec(f) == [s \in SUBSET DOMAIN seq |-> IF s = {} THEN [quot |-> Put(Put(u, m, 0), m - 1, 0), rem |-> Pair(At(u, m), At(u, m - 1))] ELSE Do(f[s \ {Max(s)}], seq[Max(s)])]
           it == CHOOSE f : f = Rec(f)
<1>1. seq \in Seq(B) /\ DOMAIN seq = 1 .. M /\ Len(seq) = M /\ M \in Nat
    <2> M \in Nat /\ m - 2 \in Int /\ m - 2 + 1 = M
        OBVIOUS
    <2> HIDE DEF M
    <2> QED BY Counts
<1>2. [quot |-> Put(Put(u, m, 0), m - 1, 0), rem |-> Pair(At(u, m), At(u, m - 1))] \in A
    <2>1. Put(u, m, 0) \in Words(K)
        BY LimbIs, PutIn
    <2>2. Put(Put(u, m, 0), m - 1, 0) \in Words(K)
        BY LimbIs, <2>1, PutIn
    <2>3. At(u, m) \in Limb /\ At(u, m - 1) \in Limb
        BY AtIn
    <2> QED BY <2>2, <2>3, PairsOf
<1>3. \A s \in A, j \in B : Do(s, j) \in A
    <2>1. TAKE s \in A, j \in B
    <2>2. s.quot \in Words(K) /\ s.rem \in W128
        OBVIOUS
    <2>3. At(s.quot, j) \in Limb /\ s.rem.hi \in Limb /\ s.rem.lo \in Limb
        BY <2>2, AtIn, Pairs DEF W128
    <2>4. v \in Limb
        BY Reciprocal3
    <2>5. x(s, j).quot \in Limb /\ x(s, j).rem \in W128
        <3> HIDE DEF v
        <3> QED BY <2>3, <2>4, Division3by2
    <2>6. Put(s.quot, j, x(s, j).quot) \in Words(K)
        <3> HIDE DEF x
        <3> QED BY <2>2, <2>5, PutIn
    <2> HIDE DEF x
    <2> QED BY <2>5, <2>6
<1> HIDE DEF A, B
<1>4. G \in [A \X B -> A]
    <2> HIDE DEF Do
    <2> QED BY <1>3
<1>5. PICK f : Folds(f, A, G, [quot |-> Put(Put(u, m, 0), m - 1, 0), rem |-> Pair(At(u, m), At(u, m - 1))], seq)
    <2> HIDE DEF G, seq, Do
    <2> QED BY <1>1, <1>2, <1>4, FoldExists
<1>6. f = Rec(f)
    <2>1. f \in [SUBSET (1 .. M) -> A] /\ f[{}] = [quot |-> Put(Put(u, m, 0), m - 1, 0), rem |-> Pair(At(u, m), At(u, m - 1))]
        <3> HIDE DEF G, seq, Do
        <3> QED BY <1>1, <1>5 DEF Folds
    <2>2. ASSUME NEW s \in SUBSET (1 .. M), s # {}
          PROVE  f[s] = Do(f[s \ {Max(s)}], seq[Max(s)])
        <3>1. /\ f[s] = G[<<f[s \ {Max(s)}], seq[Max(s)]>>]
              /\ f[s \ {Max(s)}] \in A /\ seq[Max(s)] \in B
            <4> HIDE DEF seq, G, Rec, Do
            <4>1. s \in SUBSET (1 .. Len(seq)) /\ s # {} /\ seq \in Seq(B)
                BY <1>1, <2>2
            <4> QED BY <1>5, <4>1, FoldStep
        <3> HIDE DEF Do
        <3> QED BY <3>1
    <2> HIDE DEF seq, Do
    <2> QED BY <1>1, <2>1, <2>2
<1>7. it = Rec(it)
    <2> HIDE DEF Rec
    <2> QED BY <1>6
<1>8. it[1 .. M] \in A
    <2> HIDE DEF it, seq, Do
    <2>1. it[{}] \in A
        BY <1>2, <1>7
    <2>2. ASSUME NEW s \in SUBSET (1 .. M), s # {}, Max(s) \in 1 .. M, it[s \ {Max(s)}] \in A
          PROVE  it[s] \in A
        <3>1. it[s] = Do(it[s \ {Max(s)}], seq[Max(s)])
            BY <1>1, <1>7, <2>2
        <3>2. seq[Max(s)] \in B
            BY <1>1, <2>2
        <3> QED BY <1>3, <2>2, <3>1, <3>2
    <2> QED BY <1>1, <2>1, <2>2, FoldTyped
<1>9. udivrem_by2(u, m, d) = it[DOMAIN seq]
    BY DEF udivrem_by2, FoldLeft, MapThenFoldSet
<1>10. udivrem_by2(u, m, d) \in A
    <2> HIDE DEF it, seq, Do
    <2> QED BY <1>1, <1>8, <1>9
<1> QED
    BY <1>10 DEF A

(* Nothing times the divisor borrows nothing.                              *)
LEMMA NothingBorrowed ==
    ASSUME NEW x \in Limb, NEW z \in Limb
    PROVE  LET p == umul64(0, z)
               d == sub128(sub128(Wide128(x), Wide128(0)), Wide128(p.lo))
           IN sub64(p.hi, d.hi) = 0
<1>1. PICK M \in Nat : M = Base /\ M >= 4
    BY BaseIs
<1>2. x \in 0 .. M - 1
    BY <1>1 DEF Limb
<1>3. umul64(0, z) = Pair(0, 0)
    BY ProductOfZero
<1>4. umul64(0, z).hi = 0 /\ umul64(0, z).lo = 0
    BY <1>3 DEF Pair
<1>5. x % M = x /\ 0 % M = 0
    BY <1>1, <1>2
<1>6. sub64(x, 0) = x /\ sub64(0, 0) = 0
    BY <1>1, <1>2, <1>5 DEF sub64
<1>7. sub128(Wide128(x), Wide128(0)) = Wide128(x)
    <2>1. sub128(Wide128(x), Wide128(0)) = Pair(sub64(sub64(0, 0), Bool(x < sub64(x, 0))), sub64(x, 0))
        BY DEF sub128, Wide128, Pair
    <2>2. Bool(x < x) = 0
        BY <1>2 DEF Bool
    <2> QED BY <1>6, <2>1, <2>2 DEF Wide128
<1>8. Wide128(x).hi = 0
    BY DEF Wide128, Pair
<1> QED
    BY <1>4, <1>6, <1>7, <1>8

LEMMA SubtractedIn ==
    ASSUME NEW K \in Nat, NEW un \in Words(K), NEW J \in Nat, NEW L \in Nat, NEW vn \in Words(L),
           NEW n \in Nat, n <= L, J + n <= K, NEW q \in Limb
    PROVE  /\ subtracted(un, J, vn, n, q) \in [un : Words(K), borrow : Limb]
           /\ q = 0 => subtracted(un, J, vn, n, q).borrow = 0
<1> DEFINE Borrow == IF q = 0 THEN {0} ELSE Limb
           p(i) == umul64(q, At(vn, i))
           d(s, i) == sub128(sub128(Wide128(At(s.un, i + J)), Wide128(s.borrow)), Wide128(p(i).lo))
           seq == Upto(n)
           A == [un : Words(K), borrow : Borrow]
           B == 0 .. n - 1
           Do(s, j) == [un |-> Put(s.un, j + J, d(s, j).lo), borrow |-> sub64(p(j).hi, d(s, j).hi)]
           G == [z \in A \X B |-> Do(z[1], z[2])]
           Rec(f) == [s \in SUBSET DOMAIN seq |-> IF s = {} THEN [un |-> un, borrow |-> 0] ELSE Do(f[s \ {Max(s)}], seq[Max(s)])]
           it == CHOOSE f : f = Rec(f)
<1>1. seq \in Seq(B) /\ DOMAIN seq = 1 .. n /\ Len(seq) = n /\ n \in Nat
    BY Counts
<1>2. [un |-> un, borrow |-> 0] \in A
    BY LimbIs
<1>3. \A s \in A, j \in B : Do(s, j) \in A
    <2>1. TAKE s \in A, j \in B
    <2>2. s.un \in Words(K) /\ s.borrow \in Limb /\ s.borrow \in Borrow
        BY LimbIs
    <2>3. At(s.un, j + J) \in Limb /\ At(vn, j) \in Limb
        BY <2>2, AtIn
    <2>4. p(j) \in W128
        BY <2>3, Product
    <2>5. p(j).hi \in Limb /\ p(j).lo \in Limb
        <3> HIDE DEF p
        <3> QED BY <2>4, Pairs DEF W128
    <2>6. d(s, j) \in W128
        <3> HIDE DEF p
        <3>1. /\ Wide128(At(s.un, j + J)) \in W128 /\ Wide128(s.borrow) \in W128
              /\ Wide128(p(j).lo) \in W128
            BY <2>2, <2>3, <2>5, Zeros
        <3> QED BY <3>1, Sums128
    <2>7. d(s, j).hi \in Limb /\ d(s, j).lo \in Limb
        <3> HIDE DEF d
        <3> QED BY <2>6, Pairs DEF W128
    <2>8. Put(s.un, j + J, d(s, j).lo) \in Words(K)
        <3> HIDE DEF d
        <3> QED BY <2>2, <2>7, PutIn
    <2>9. sub64(p(j).hi, d(s, j).hi) \in Borrow
        <3>1. CASE q = 0
            <4>1. s.borrow = 0
                BY <2>2, <3>1
            <4> HIDE DEF A
            <4>2. sub64(p(j).hi, d(s, j).hi) = 0
                BY <2>3, <3>1, <4>1, NothingBorrowed
            <4> HIDE DEF p, d
            <4> QED BY <3>1, <4>2
        <3>2. CASE q # 0
            <4>1. p(j).hi \in Int /\ d(s, j).hi \in Int
                <5>1. \A z \in Limb : z \in Int
                    BY LimbIs
                <5> HIDE DEF p, d
                <5> QED BY <2>5, <2>7, <5>1, Zenon
            <4> HIDE DEF p, d
            <4> QED BY <3>2, <4>1, Sums
        <3> QED BY <3>1, <3>2
    <2> HIDE DEF d, p, Borrow
    <2> QED BY <2>8, <2>9
<1> HIDE DEF A, B
<1>4. G \in [A \X B -> A]
    <2> HIDE DEF Do
    <2> QED BY <1>3
<1>5. PICK f : Folds(f, A, G, [un |-> un, borrow |-> 0], seq)
    <2> HIDE DEF G, seq, Do
    <2> QED BY <1>1, <1>2, <1>4, FoldExists
<1>6. f = Rec(f)
    <2>1. f \in [SUBSET (1 .. n) -> A] /\ f[{}] = [un |-> un, borrow |-> 0]
        <3> HIDE DEF G, seq, Do
        <3> QED BY <1>1, <1>5 DEF Folds
    <2>2. ASSUME NEW s \in SUBSET (1 .. n), s # {}
          PROVE  f[s] = Do(f[s \ {Max(s)}], seq[Max(s)])
        <3>1. /\ f[s] = G[<<f[s \ {Max(s)}], seq[Max(s)]>>]
              /\ f[s \ {Max(s)}] \in A /\ seq[Max(s)] \in B
            <4> HIDE DEF seq, G, Rec, Do
            <4>1. s \in SUBSET (1 .. Len(seq)) /\ s # {} /\ seq \in Seq(B)
                BY <1>1, <2>2
            <4> QED BY <1>5, <4>1, FoldStep
        <3> HIDE DEF Do
        <3> QED BY <3>1
    <2> HIDE DEF seq, Do
    <2> QED BY <1>1, <2>1, <2>2
<1>7. it = Rec(it)
    <2> HIDE DEF Rec
    <2> QED BY <1>6
<1>8. it[1 .. n] \in A
    <2> HIDE DEF it, seq, Do
    <2>1. it[{}] \in A
        BY <1>2, <1>7
    <2>2. ASSUME NEW s \in SUBSET (1 .. n), s # {}, Max(s) \in 1 .. n, it[s \ {Max(s)}] \in A
          PROVE  it[s] \in A
        <3>1. it[s] = Do(it[s \ {Max(s)}], seq[Max(s)])
            BY <1>1, <1>7, <2>2
        <3>2. seq[Max(s)] \in B
            BY <1>1, <2>2
        <3> QED BY <1>3, <2>2, <3>1, <3>2
    <2> QED BY <1>1, <2>1, <2>2, FoldTyped
<1>9. subtracted(un, J, vn, n, q) = it[DOMAIN seq]
    BY DEF subtracted, FoldLeft, MapThenFoldSet
<1>10. subtracted(un, J, vn, n, q) \in A
    <2> HIDE DEF it, seq, Do
    <2> QED BY <1>1, <1>8, <1>9
<1>11. Borrow \subseteq Limb /\ (q = 0 => Borrow = {0})
    BY LimbIs
<1> HIDE DEF Borrow
<1> QED
    BY <1>10, <1>11 DEF A

LEMMA AddedBackIn ==
    ASSUME NEW K \in Nat, NEW un \in Words(K), NEW J \in Nat, NEW L \in Nat, NEW vn \in Words(L),
           NEW n \in Nat, n <= L, J + n + 1 <= K
    PROVE  added_back(un, J, vn, n) \in Words(K)
<1> DEFINE d(s, i) == add128(add128(Wide128(At(s.un, i + J)), Wide128(At(vn, i))), Wide128(s.carry))
           seq == Upto(n)
           A == [un : Words(K), carry : Limb]
           B == 0 .. n - 1
           Do(s, j) == [un |-> Put(s.un, j + J, d(s, j).lo), carry |-> d(s, j).hi]
           G == [z \in A \X B |-> Do(z[1], z[2])]
           Rec(f) == [s \in SUBSET DOMAIN seq |-> IF s = {} THEN [un |-> un, carry |-> 0] ELSE Do(f[s \ {Max(s)}], seq[Max(s)])]
           it == CHOOSE f : f = Rec(f)
<1>1. seq \in Seq(B) /\ DOMAIN seq = 1 .. n /\ Len(seq) = n /\ n \in Nat
    BY Counts
<1>2. [un |-> un, carry |-> 0] \in A
    BY LimbIs
<1>3. \A s \in A, j \in B : Do(s, j) \in A
    <2>1. TAKE s \in A, j \in B
    <2>2. s.un \in Words(K) /\ s.carry \in Limb
        OBVIOUS
    <2>3. At(s.un, j + J) \in Limb /\ At(vn, j) \in Limb
        BY <2>2, AtIn
    <2>4. d(s, j) \in W128
        <3>1. /\ Wide128(At(s.un, j + J)) \in W128 /\ Wide128(s.carry) \in W128
              /\ Wide128(At(vn, j)) \in W128
            BY <2>2, <2>3, Zeros
        <3> QED BY <3>1, Sums128
    <2>5. d(s, j).hi \in Limb /\ d(s, j).lo \in Limb
        <3> HIDE DEF d
        <3> QED BY <2>4, Pairs DEF W128
    <2>6. Put(s.un, j + J, d(s, j).lo) \in Words(K)
        <3> HIDE DEF d
        <3> QED BY <2>2, <2>5, PutIn
    <2> HIDE DEF d
    <2> QED BY <2>5, <2>6
<1> HIDE DEF A, B
<1>4. G \in [A \X B -> A]
    <2> HIDE DEF Do
    <2> QED BY <1>3
<1>5. PICK f : Folds(f, A, G, [un |-> un, carry |-> 0], seq)
    <2> HIDE DEF G, seq, Do
    <2> QED BY <1>1, <1>2, <1>4, FoldExists
<1>6. f = Rec(f)
    <2>1. f \in [SUBSET (1 .. n) -> A] /\ f[{}] = [un |-> un, carry |-> 0]
        <3> HIDE DEF G, seq, Do
        <3> QED BY <1>1, <1>5 DEF Folds
    <2>2. ASSUME NEW s \in SUBSET (1 .. n), s # {}
          PROVE  f[s] = Do(f[s \ {Max(s)}], seq[Max(s)])
        <3>1. /\ f[s] = G[<<f[s \ {Max(s)}], seq[Max(s)]>>]
              /\ f[s \ {Max(s)}] \in A /\ seq[Max(s)] \in B
            <4> HIDE DEF seq, G, Rec, Do
            <4>1. s \in SUBSET (1 .. Len(seq)) /\ s # {} /\ seq \in Seq(B)
                BY <1>1, <2>2
            <4> QED BY <1>5, <4>1, FoldStep
        <3> HIDE DEF Do
        <3> QED BY <3>1
    <2> HIDE DEF seq, Do
    <2> QED BY <1>1, <2>1, <2>2
<1>7. it = Rec(it)
    <2> HIDE DEF Rec
    <2> QED BY <1>6
<1>8. it[1 .. n] \in A
    <2> HIDE DEF it, seq, Do
    <2>1. it[{}] \in A
        BY <1>2, <1>7
    <2>2. ASSUME NEW s \in SUBSET (1 .. n), s # {}, Max(s) \in 1 .. n, it[s \ {Max(s)}] \in A
          PROVE  it[s] \in A
        <3>1. it[s] = Do(it[s \ {Max(s)}], seq[Max(s)])
            BY <1>1, <1>7, <2>2
        <3>2. seq[Max(s)] \in B
            BY <1>1, <2>2
        <3> QED BY <1>3, <2>2, <3>1, <3>2
    <2> QED BY <1>1, <2>1, <2>2, FoldTyped
<1>9. FoldLeft(Do, [un |-> un, carry |-> 0], seq) = it[DOMAIN seq]
    BY DEF FoldLeft, MapThenFoldSet
<1>10. FoldLeft(Do, [un |-> un, carry |-> 0], seq) \in A
    <2> HIDE DEF it, seq, Do
    <2> QED BY <1>1, <1>8, <1>9
<1> DEFINE a == FoldLeft(Do, [un |-> un, carry |-> 0], seq)
<1>11. added_back(un, J, vn, n) = Put(a.un, J + n, add64(At(a.un, J + n), a.carry))
    BY DEF added_back
<1> HIDE DEF a
<1>12. a.un \in Words(K) /\ a.carry \in Limb
    BY <1>10 DEF A, a
<1>13. At(a.un, J + n) \in Limb
    BY <1>12, AtIn
<1>14. add64(At(a.un, J + n), a.carry) \in Limb
    <2>1. \A y, z \in Limb : add64(y, z) \in Limb
        BY LimbIs, Sums
    <2> QED BY <1>12, <1>13, <2>1, Zenon
<1> QED
    BY <1>11, <1>12, <1>14, PutIn

LEMMA KnuthIn ==
    ASSUME NEW K \in Nat, NEW un \in Words(K), NEW m \in Nat, m + 1 <= K, NEW L \in Nat, NEW vn \in Words(L),
           NEW n \in Nat, n >= 2, n <= L, n <= m, Normal(At(vn, n - 1))
    PROVE  udivrem_knuth(un, m, vn, n) \in [un : Words(K), q : Words(K)]
<1> DEFINE divisor == Pair(At(vn, n - 1), At(vn, n - 2))
           reciprocal == reciprocal_2by1(divisor.hi)
           M == m - n + 1
           est(s, i) == qhat(s.un, i, n, divisor, reciprocal)
           sub(s, i) == subtracted(s.un, i, vn, n, est(s, i))
           over(s, i) == At(s.un, i + n) < sub(s, i).borrow
           rest(s, i) == Put(sub(s, i).un, i + n, sub64(At(s.un, i + n), sub(s, i).borrow))
           seq == Downto0(m - n)
           A == [un : Words(K), q : Words(K)]
           B == 0 .. m - n
           Do(s, j) == [un |-> IF over(s, j) THEN added_back(rest(s, j), j, vn, n) ELSE rest(s, j),
                        q |-> Put(s.q, j, IF over(s, j) THEN est(s, j) - 1 ELSE est(s, j))]
           G == [z \in A \X B |-> Do(z[1], z[2])]
           Rec(f) == [s \in SUBSET DOMAIN seq |-> IF s = {} THEN [un |-> un, q |-> [k \in DOMAIN un |-> 0]] ELSE Do(f[s \ {Max(s)}], seq[Max(s)])]
           it == CHOOSE f : f = Rec(f)
<1>1. seq \in Seq(B) /\ DOMAIN seq = 1 .. M /\ Len(seq) = M /\ M \in Nat
    <2> M \in Nat /\ m - n \in Int /\ m - n + 1 = M
        OBVIOUS
    <2> HIDE DEF M
    <2> QED BY Counts
<1>2. [un |-> un, q |-> [k \in DOMAIN un |-> 0]] \in A
    BY LimbIs DEF Words
<1>3. \A s \in A, j \in B : Do(s, j) \in A
    <2>1. TAKE s \in A, j \in B
    <2>2. s.un \in Words(K) /\ s.q \in Words(K) /\ j \in Nat /\ j + n + 1 <= K /\ j + n \in 0 .. K - 1
        OBVIOUS
    <2>3. At(vn, n - 1) \in Limb /\ At(vn, n - 2) \in Limb
        BY AtIn
    <2>4. divisor \in W128 /\ divisor.hi = At(vn, n - 1)
        BY <2>3, Pairs DEF W128
    <2>5. reciprocal \in Limb
        <3> HIDE DEF divisor
        <3> QED BY <2>3, <2>4, Reciprocal
    <2>6. est(s, j) \in Limb
        <3> HIDE DEF divisor, reciprocal, A, B
        <3> QED BY <2>2, <2>4, <2>5, Estimate
    <2>7. sub(s, j) \in [un : Words(K), borrow : Limb] /\ (est(s, j) = 0 => sub(s, j).borrow = 0)
        <3> HIDE DEF est, A, B
        <3>1. j \in Nat /\ j + n <= K
            BY <2>2
        <3>2. \A w \in Words(K), q \in Limb :
                  /\ subtracted(w, j, vn, n, q) \in [un : Words(K), borrow : Limb]
                  /\ q = 0 => subtracted(w, j, vn, n, q).borrow = 0
            BY <3>1, SubtractedIn
        <3> QED BY <2>2, <2>6, <3>2, Zenon
    <2>8. sub(s, j).un \in Words(K) /\ sub(s, j).borrow \in Limb
        <3> HIDE DEF sub
        <3> QED BY <2>7
    <2>9. At(s.un, j + n) \in Limb
        <3> HIDE DEF A, B
        <3> QED BY <2>2, AtIn
    <2>10. rest(s, j) \in Words(K)
        <3> HIDE DEF sub, A, B
        <3>1. sub64(At(s.un, j + n), sub(s, j).borrow) \in Limb
            <4>1. \A y, z \in Limb : sub64(y, z) \in Limb
                BY LimbIs, Sums
            <4> QED BY <2>8, <2>9, <4>1, Zenon
        <3> QED BY <2>2, <2>8, <3>1, PutIn
    <2>11. added_back(rest(s, j), j, vn, n) \in Words(K)
        <3> HIDE DEF rest, A, B
        <3> QED BY <2>2, <2>10, AddedBackIn
    <2>12. (IF over(s, j) THEN est(s, j) - 1 ELSE est(s, j)) \in Limb
        <3>1. over(s, j) => est(s, j) # 0
            <4>1. At(s.un, j + n) \in Nat
                BY <2>9, LimbIs
            <4> HIDE DEF sub, est, A, B
            <4> QED BY <2>7, <4>1
        <3>2. \A x \in Limb : x # 0 => x - 1 \in Limb
            BY BaseIs DEF Limb
        <3> HIDE DEF over, est
        <3> QED BY <2>6, <3>1, <3>2
    <2>13. Put(s.q, j, IF over(s, j) THEN est(s, j) - 1 ELSE est(s, j)) \in Words(K)
        <3> HIDE DEF over, est, A, B
        <3> QED BY <2>2, <2>12, PutIn
    <2> HIDE DEF over, est, rest
    <2> QED BY <2>10, <2>11, <2>13
<1> HIDE DEF A, B
<1>4. G \in [A \X B -> A]
    <2> HIDE DEF Do
    <2> QED BY <1>3
<1>5. PICK f : Folds(f, A, G, [un |-> un, q |-> [k \in DOMAIN un |-> 0]], seq)
    <2> HIDE DEF G, seq, Do
    <2> QED BY <1>1, <1>2, <1>4, FoldExists
<1>6. f = Rec(f)
    <2>1. f \in [SUBSET (1 .. M) -> A] /\ f[{}] = [un |-> un, q |-> [k \in DOMAIN un |-> 0]]
        <3> HIDE DEF G, seq, Do
        <3> QED BY <1>1, <1>5 DEF Folds
    <2>2. ASSUME NEW s \in SUBSET (1 .. M), s # {}
          PROVE  f[s] = Do(f[s \ {Max(s)}], seq[Max(s)])
        <3>1. /\ f[s] = G[<<f[s \ {Max(s)}], seq[Max(s)]>>]
              /\ f[s \ {Max(s)}] \in A /\ seq[Max(s)] \in B
            <4> HIDE DEF seq, G, Rec, Do
            <4>1. s \in SUBSET (1 .. Len(seq)) /\ s # {} /\ seq \in Seq(B)
                BY <1>1, <2>2
            <4> QED BY <1>5, <4>1, FoldStep
        <3> HIDE DEF Do
        <3> QED BY <3>1
    <2> HIDE DEF seq, Do
    <2> QED BY <1>1, <2>1, <2>2
<1>7. it = Rec(it)
    <2> HIDE DEF Rec
    <2> QED BY <1>6
<1>8. it[1 .. M] \in A
    <2> HIDE DEF it, seq, Do
    <2>1. it[{}] \in A
        BY <1>2, <1>7
    <2>2. ASSUME NEW s \in SUBSET (1 .. M), s # {}, Max(s) \in 1 .. M, it[s \ {Max(s)}] \in A
          PROVE  it[s] \in A
        <3>1. it[s] = Do(it[s \ {Max(s)}], seq[Max(s)])
            BY <1>1, <1>7, <2>2
        <3>2. seq[Max(s)] \in B
            BY <1>1, <2>2
        <3> QED BY <1>3, <2>2, <3>1, <3>2
    <2> QED BY <1>1, <2>1, <2>2, FoldTyped
<1>9. udivrem_knuth(un, m, vn, n) = it[DOMAIN seq]
    BY DEF udivrem_knuth, FoldLeft, MapThenFoldSet
<1>10. udivrem_knuth(un, m, vn, n) \in A
    <2> HIDE DEF it, seq, Do
    <2> QED BY <1>1, <1>8, <1>9
<1> QED
    BY <1>10 DEF A

-----------------------------------------------------------------------------
(* Division of numbers of several words.                                   *)

LEMMA ShiftedIn ==
    ASSUME NEW n \in Nat, NEW w \in Words(n), NEW s \in 0 .. LimbBits - 1
    PROVE  /\ Shifted(w, s) \in Words(n + 1)
           /\ \A k \in 1 .. n : \E b \in Limb : Shifted(w, s)[k] = or64(shl64(w[k], s), b)
<1> DEFINE below(k) == IF k = 1 \/ s = 0 THEN 0 ELSE shr64(w[k - 1], LimbBits - s)
           word(k) == IF k = n + 1 THEN below(k) ELSE or64(shl64(w[k], s), below(k))
<1>1. DOMAIN w = 1 .. n /\ Len(w) = n /\ \A k \in 1 .. n : w[k] \in Limb
    BY DEF Words
<1>2. Shifted(w, s) = [k \in 1 .. n + 1 |-> word(k)]
    BY <1>1 DEF Shifted
<1>3. s \in Nat /\ (s # 0 => LimbBits - s \in Nat)
    BY BaseIs
<1>4. \A k \in 1 .. n + 1 : below(k) \in Limb
    <2>1. TAKE k \in 1 .. n + 1
    <2>2. CASE k = 1 \/ s = 0
        BY <2>2, LimbIs
    <2>3. CASE ~(k = 1 \/ s = 0)
        <3>1. k - 1 \in 1 .. n
            BY <2>3
        <3> QED BY <1>1, <1>3, <2>3, <3>1, Shifts
    <2> QED BY <2>2, <2>3
<1> HIDE DEF below
<1>5. \A k \in 1 .. n : shl64(w[k], s) \in Limb
    BY <1>1, <1>3, Shifts
<1>6. \A x, y \in Limb : or64(x, y) \in Limb
    BY BitsIn
<1>7. \A k \in 1 .. n + 1 : word(k) \in Limb
    <2>1. TAKE k \in 1 .. n + 1
    <2>2. CASE k = n + 1
        BY <1>4, <2>2
    <2>3. CASE k # n + 1
        <3>1. k \in 1 .. n
            BY <2>3
        <3> QED BY <1>4, <1>5, <1>6, <2>3, <3>1, Zenon
    <2> QED BY <2>2, <2>3
<1>8. \A k \in 1 .. n : k \in 1 .. n + 1 /\ word(k) = or64(shl64(w[k], s), below(k))
    OBVIOUS
<1>9. Shifted(w, s) \in Words(n + 1)
    <2> HIDE DEF word
    <2> QED BY <1>2, <1>7 DEF Words
<1>10. ASSUME NEW k \in 1 .. n
       PROVE  \E b \in Limb : Shifted(w, s)[k] = or64(shl64(w[k], s), b)
    <2>1. Shifted(w, s)[k] = or64(shl64(w[k], s), below(k))
        <3> HIDE DEF word
        <3> QED BY <1>2, <1>8
    <2> QED BY <1>4, <1>8, <2>1
<1> QED
    BY <1>9, <1>10

(* normalize() shifts the highest word of the denominator up.              *)
LEMMA NormalizedIn ==
    ASSUME NEW K \in Nat, NEW u \in Words(K), NEW L \in Nat, NEW v \in Words(L), \E i \in 1 .. L : v[i] # 0
    PROVE  /\ normalize(u, v).den \in Words(L + 1) /\ normalize(u, v).num \in Words(K + 1)
           /\ normalize(u, v).n \in 1 .. L /\ normalize(u, v).m \in 0 .. K
           /\ normalize(u, v).shift \in 0 .. LimbBits - 1
           /\ At(normalize(u, v).den, normalize(u, v).n - 1) \in Limb
           /\ Normal(At(normalize(u, v).den, normalize(u, v).n - 1))
<1> DEFINE n == Significant(v)
           x == At(v, n - 1)
           s == clz64(x)
<1>1. normalize(u, v) = [den |-> Shifted(v, s), num |-> Shifted(u, s), n |-> n, m |-> Significant(u), shift |-> s]
    BY DEF normalize
<1>2. n \in 1 .. L /\ x # 0
    BY SignificantIs
<1>3. x \in Limb /\ x = v[n]
    BY <1>2 DEF Words, At
<1>4. Significant(u) \in 0 .. K
    BY SignificantIs
<1>5. s \in 0 .. LimbBits - 1 /\ 2 ^ (LimbBits - 1) <= shl64(x, s) /\ shl64(x, s) \in Limb
    <2> HIDE DEF x
    <2>1. s \in 0 .. LimbBits - 1 /\ 2 ^ (LimbBits - 1) <= shl64(x, s)
        BY <1>2, <1>3, Normalised
    <2>2. s \in Nat
        BY <2>1
    <2> HIDE DEF s
    <2> QED BY <1>3, <2>1, <2>2, Shifts
<1> HIDE DEF s
<1>6. Shifted(v, s) \in Words(L + 1) /\ Shifted(u, s) \in Words(K + 1)
    BY <1>5, ShiftedIn
<1>7. PICK b \in Limb : Shifted(v, s)[n] = or64(shl64(x, s), b)
    <2> HIDE DEF n
    <2> QED BY <1>2, <1>3, <1>5, ShiftedIn
<1> HIDE DEF x
<1>8. 2 ^ (LimbBits - 1) <= or64(shl64(x, s), b) /\ or64(shl64(x, s), b) \in Limb
    BY <1>5, BitsIn, HighBit
<1>9. At(Shifted(v, s), n - 1) = Shifted(v, s)[n]
    BY <1>2 DEF At
<1>10. At(Shifted(v, s), n - 1) \in Limb /\ Normal(At(Shifted(v, s), n - 1))
    BY <1>7, <1>8, <1>9 DEF Normal
<1> HIDE DEF n
<1> QED
    BY <1>1, <1>2, <1>4, <1>5, <1>6, <1>10

LEMMA DivisionIn ==
    ASSUME NEW K \in Nat, K >= 4, NEW u \in Words(K), NEW L \in Nat, NEW v \in Words(L), \E i \in 1 .. L : v[i] # 0
    PROVE  /\ udivrem(u, v).quot \in Words(K) \cup Words(K + 1)
           /\ udivrem(u, v).rem \in Words(K)
<1> DEFINE zeros == [k \in DOMAIN u |-> 0]
           na == normalize(u, v)
           r1 == udivrem_by1(na.num, na.m, At(na.den, 0))
           r2 == udivrem_by2(na.num, na.m, Pair(At(na.den, 1), At(na.den, 0)))
           r3 == udivrem_knuth(na.num, na.m, na.den, na.n)
           rem1 == Put(zeros, 0, shr64(r1.rem, na.shift))
           x2 == shr128(r2.rem, na.shift)
           rem2 == Put(Put(zeros, 0, x2.lo), 1, x2.hi)
           word(i) == IF na.shift = 0 THEN At(r3.un, i)
                      ELSE or64(shr64(At(r3.un, i), na.shift), shl64(At(r3.un, i + 1), LimbBits - na.shift))
           rem3 == [k \in DOMAIN u |-> IF k > na.n THEN 0 ELSE word(k - 1)]
<1>1. udivrem(u, v) = IF na.n > na.m THEN [quot |-> zeros, rem |-> u]
                      ELSE IF na.n = 1 THEN [quot |-> r1.quot, rem |-> rem1]
                      ELSE IF na.n = 2 THEN [quot |-> r2.quot, rem |-> rem2]
                      ELSE [quot |-> r3.q, rem |-> rem3]
    BY DEF udivrem
<1>2. /\ na.den \in Words(L + 1) /\ na.num \in Words(K + 1) /\ na.n \in 1 .. L /\ na.m \in 0 .. K
      /\ na.shift \in 0 .. LimbBits - 1
      /\ At(na.den, na.n - 1) \in Limb /\ Normal(At(na.den, na.n - 1))
    BY NormalizedIn
<1> HIDE DEF na
<1>3. DOMAIN u = 1 .. K /\ zeros \in Words(K)
    BY LimbIs DEF Words
<1> HIDE DEF zeros
<1>4. na.shift \in Nat /\ (na.shift # 0 => LimbBits - na.shift \in Nat)
    BY <1>2, BaseIs
<1>5. CASE na.n > na.m
    BY <1>1, <1>3, <1>5
<1>6. CASE na.n <= na.m /\ na.n = 1
    <2>1. At(na.den, 0) \in Limb /\ Normal(At(na.den, 0))
        BY <1>2, <1>6
    <2>2. na.m \in Nat \ {0} /\ na.m + 1 <= K + 1 /\ K + 1 \in Nat
        BY <1>2, <1>6
    <2>3. r1 \in [quot : Words(K + 1), rem : Limb]
        BY <1>2, <2>1, <2>2, Divided1
    <2> HIDE DEF r1
    <2>4. shr64(r1.rem, na.shift) \in Limb
        BY <1>4, <2>3, Shifts
    <2>5. rem1 \in Words(K)
        BY <1>3, <2>4, PutIn
    <2> HIDE DEF rem1
    <2>6. udivrem(u, v) = [quot |-> r1.quot, rem |-> rem1]
        BY <1>1, <1>2, <1>6
    <2> QED BY <2>3, <2>5, <2>6
<1>7. CASE na.n <= na.m /\ na.n = 2
    <2>1. At(na.den, 1) \in Limb /\ Normal(At(na.den, 1))
        BY <1>2, <1>7
    <2>2. na.m \in Nat /\ na.m >= 2 /\ na.m + 1 <= K + 1 /\ K + 1 \in Nat
        BY <1>2, <1>7
    <2>3. At(na.den, 0) \in Limb
        BY <1>2, <1>7, AtIn
    <2>4. Pair(At(na.den, 1), At(na.den, 0)) \in W128 /\ Pair(At(na.den, 1), At(na.den, 0)).hi = At(na.den, 1)
        BY <2>1, <2>3, PairsOf, Pairs
    <2>5. r2 \in [quot : Words(K + 1), rem : W128]
        BY <1>2, <2>1, <2>2, <2>4, Divided2
    <2> HIDE DEF r2
    <2>6. x2 \in W128
        BY <1>4, <2>5, Shifts128
    <2> HIDE DEF x2
    <2>7. x2.hi \in Limb /\ x2.lo \in Limb
        BY <2>6, Pairs DEF W128
    <2>8. Put(zeros, 0, x2.lo) \in Words(K)
        BY <1>3, <2>7, PutIn
    <2>9. rem2 \in Words(K)
        BY <2>7, <2>8, PutIn
    <2> HIDE DEF rem2
    <2>10. udivrem(u, v) = [quot |-> r2.quot, rem |-> rem2]
        BY <1>1, <1>2, <1>7
    <2> QED BY <2>5, <2>9, <2>10
<1>8. CASE na.n <= na.m /\ na.n > 2
    <2>1. /\ na.m \in Nat /\ na.m + 1 <= K + 1 /\ K + 1 \in Nat /\ L + 1 \in Nat /\ na.n \in Nat /\ na.n >= 2
          /\ na.n <= L + 1
        BY <1>2, <1>8
    <2>2. r3 \in [un : Words(K + 1), q : Words(K + 1)]
        BY <1>2, <1>8, <2>1, KnuthIn
    <2> HIDE DEF r3
    <2>3. ASSUME NEW k \in 1 .. K, k <= na.n
          PROVE  word(k - 1) \in Limb
        <3>1. k - 1 \in 0 .. K + 1 - 1 /\ k - 1 + 1 \in 0 .. K + 1 - 1 /\ K + 1 \in Nat
            BY <1>2, <1>8, <2>3
        <3>2. At(r3.un, k - 1) \in Limb /\ At(r3.un, k - 1 + 1) \in Limb
            BY <2>2, <3>1, AtIn
        <3>3. CASE na.shift = 0
            BY <3>2, <3>3
        <3>4. CASE na.shift # 0
            <4>1. /\ shr64(At(r3.un, k - 1), na.shift) \in Limb
                  /\ shl64(At(r3.un, k - 1 + 1), LimbBits - na.shift) \in Limb
                BY <1>4, <3>2, <3>4, Shifts
            <4>2. or64(shr64(At(r3.un, k - 1), na.shift), shl64(At(r3.un, k - 1 + 1), LimbBits - na.shift)) \in Limb
                BY <4>1, BitsIn
            <4> QED BY <3>4, <4>2
        <3> HIDE DEF word
        <3> QED BY <3>3, <3>4
    <2> HIDE DEF word
    <2>4. rem3 \in Words(K)
        BY <1>2, <1>3, <2>3, LimbIs DEF Words
    <2> HIDE DEF rem3
    <2>5. udivrem(u, v) = [quot |-> r3.q, rem |-> rem3]
        BY <1>1, <1>2, <1>8
    <2> QED BY <2>2, <2>4, <2>5
<1> QED
    BY <1>2, <1>5, <1>6, <1>7, <1>8

LEMMA Division256 ==
    ASSUME NEW x \in W256, NEW y \in W256, y # Zero256
    PROVE  div256(x, y) \in W256 /\ mod256(x, y) \in W256
<1>1. words256(x) \in Words(4) /\ words256(y) \in Words(4) /\ \E i \in 1 .. 4 : words256(y)[i] # 0
    BY WordsOf
<1> DEFINE d == udivrem(words256(x), words256(y))
<1>2. d.quot \in Words(4) \cup Words(5) /\ d.rem \in Words(4)
    <2>1. 4 \in Nat /\ 4 >= 4 /\ 4 + 1 = 5
        OBVIOUS
    <2> QED BY <1>1, <2>1, DivisionIn
<1>3. div256(x, y) = number256(d.quot) /\ mod256(x, y) = number256(d.rem)
    BY DEF div256, mod256
<1> HIDE DEF d
<1> QED
    BY <1>2, <1>3, NumberOf

LEMMA Remainder512 ==
    ASSUME NEW x \in W512, NEW y \in W256, y # Zero256
    PROVE  mod512(x, y) \in W256
<1>1. Pair(Zero256, y) \in W512 /\ Pair(Zero256, y).lo = y
    BY Zeros, PairsOf, Pairs
<1>2. /\ words512(x) \in Words(8) /\ words512(Pair(Zero256, y)) \in Words(8)
      /\ \E i \in 1 .. 8 : words512(Pair(Zero256, y))[i] # 0
    BY <1>1, WordsOf512
<1> DEFINE d == udivrem(words512(x), words512(Pair(Zero256, y)))
<1>3. d.rem \in Words(8)
    <2>1. 8 \in Nat /\ 8 >= 4
        OBVIOUS
    <2> QED BY <1>2, <2>1, DivisionIn
<1>4. mod512(x, y) = number256(d.rem)
    BY DEF mod512
<1> HIDE DEF d
<1> QED
    BY <1>3, <1>4, NumberOf

LEMMA SignedDivision ==
    ASSUME NEW u \in W256, NEW v \in W256, v # Zero256
    PROVE  sdivrem(u, v).quot \in W256 /\ sdivrem(u, v).rem \in W256
<1> DEFINE signed(x, minus) == IF minus THEN neg256(x) ELSE x
           abs(x) == signed(x, negative(x))
<1>1. sdivrem(u, v) = [quot |-> signed(div256(abs(u), abs(v)), negative(u) # negative(v)),
                       rem |-> signed(mod256(abs(u), abs(v)), negative(u))]
    BY DEF sdivrem
<1>2. \A x \in W256 : neg256(x) \in W256 /\ (x # Zero256 => neg256(x) # Zero256)
    BY Sums256, Negation
<1>3. \A c : \A x \in W256 : signed(x, c) \in W256 /\ (x # Zero256 => signed(x, c) # Zero256)
    BY <1>2
<1>4. abs(u) \in W256 /\ abs(v) \in W256 /\ abs(v) # Zero256
    <2> HIDE DEF signed
    <2> QED BY <1>3
<1> HIDE DEF abs
<1>5. div256(abs(u), abs(v)) \in W256 /\ mod256(abs(u), abs(v)) \in W256
    BY <1>4, Division256
<1>6. signed(div256(abs(u), abs(v)), negative(u) # negative(v)) \in W256 /\ signed(mod256(abs(u), abs(v)), negative(u)) \in W256
    <2> HIDE DEF signed
    <2> QED BY <1>3, <1>5
<1> HIDE DEF signed
<1> QED
    BY <1>1, <1>6

LEMMA Modulo ==
    ASSUME NEW x \in W256, NEW y \in W256, NEW mod \in W256, mod # Zero256
    PROVE  addmod(x, y, mod) \in W256 /\ mulmod(x, y, mod) \in W256
<1> DEFINE s == add_with_carry256(x, y)
           c == IF s.carry THEN One256 ELSE Zero256
<1>1. addmod(x, y, mod) = mod512(Pair(c, s.value), mod)
    BY DEF addmod
<1>2. s.value \in W256
    BY Carries
<1> HIDE DEF s
<1>3. c \in W256
    BY Zeros
<1> HIDE DEF c
<1>4. Pair(c, s.value) \in W512
    BY <1>2, <1>3, PairsOf
<1>5. addmod(x, y, mod) \in W256
    BY <1>1, <1>4, Remainder512
<1>6. mulmod(x, y, mod) \in W256
    BY Products256, Remainder512 DEF mulmod
<1> QED
    BY <1>5, <1>6

LEMMA SignificantWords ==
    ASSUME NEW x \in W256
    PROVE  count_significant_words(x) \in Nat
<1> DEFINE C(y) == IF Bool(y.hi # 0) # 0 THEN Bool(y.hi # 0) + 2 \div 2 ELSE Bool(y.lo # 0)
<1>1. count_significant_words(x) = IF C(x.hi) # 0 THEN C(x.hi) + 4 \div 2 ELSE C(x.lo)
    BY DEF count_significant_words
<1>2. \A y : C(y) \in Nat
    BY DEF Bool
<1> HIDE DEF C
<1> QED
    BY <1>1, <1>2

-----------------------------------------------------------------------------
(* What a row may say.                                                     *)

LEMMA NumbersOf ==
    ASSUME NEW b \in Bytes
    PROVE  /\ Instruction[b] \in {"DUP", "SWAP"} => Number[b] \in 1 .. 16
           /\ Instruction[b] = "LOG" => Number[b] \in 0 .. 4
<1> DEFINE n == Instruction[b]
<1>1. SUFFICES ASSUME n \in {"DUP", "SWAP", "LOG"}
               PROVE  Number[b] \in IF n = "LOG" THEN 0 .. 4 ELSE 1 .. 16
    OBVIOUS
<1>2. n \notin LowNames \cup SyntheticNames \cup ExtensionNames \cup {None}
    BY <1>1 DEF LowNames, SyntheticNames, ExtensionNames, None
<1>3. b \in 128 .. 255 /\ b \notin 172 .. 175
    <2>1. ~(b < 128)
        <3>1. b < 128 => n \in LowNames \cup {None}
            BY Names
        <3> QED BY <1>2, <3>1
    <2>2. b \in 172 .. 175 => b \in {172, 173, 174, 175}
        BY DEF Bytes
    <2>3. b \in {172, 173, 174, 175} => n \in {"PUSHC", "JUMPC", "JUMPCI", "UNDEFINED"}
        BY Names
    <2>4. b \notin 172 .. 175
        BY <1>2, <2>2, <2>3 DEF SyntheticNames
    <2> QED
        BY <2>1, <2>4 DEF Bytes
<1>4. b \notin ExtensionBytes
    BY <1>2, Names
<1>5. \A c \in DOMAIN Calls : Calls[c] \notin {"DUP", "SWAP", "LOG"} /\ c \notin 0 .. 235 /\ c \notin ExtensionBytes
    <2>1. \A c \in DOMAIN Calls : Calls[c] \notin {"DUP", "SWAP", "LOG"}
        BY DEF Calls, Row, ++
    <2>2. \A c \in DOMAIN Calls : c \notin 0 .. 235
        BY HighRows
    <2> QED
        BY <2>1, <2>2 DEF ExtensionBytes
<1>6. b \notin DOMAIN Calls
    <2>1. b \in DOMAIN Calls => n = Calls[b]
        BY <1>5, InstructionRows
    <2> QED
        BY <1>1, <1>5, <2>1
<1>7. b \in 128 .. 164
    <2>1. b \notin 96 .. 164 => n = None
        BY <1>3, <1>4, <1>6, InstructionRows
    <2> QED
        BY <1>2, <1>3, <2>1
<1>8. n = IF b < 144 THEN "DUP" ELSE IF b < 160 THEN "SWAP" ELSE "LOG"
    BY <1>7, InstructionRows, HighRows
<1>9. Number[b] = IF n = "DUP" THEN b - 127 ELSE IF n = "SWAP" THEN b - 143 ELSE b - 160
    BY <1>1 DEF Number
<1> HIDE DEF n
<1> QED
    BY <1>7, <1>8, <1>9

Shaped(m) ==
    /\ m.gas \in Nat /\ m.required \in Nat /\ m.change \in Int
    /\ m.change <= 1 /\ m.required + m.change >= 0

LEMMA Shapes ==
    /\ Shaped(Undefined)
    /\ \A cost \in Nat, required \in Nat, change \in Int :
          change <= 1 /\ required + change >= 0 => Shaped(Metric(cost, required, change))
    /\ \A cost, required, change : Metric(cost, required, change).gas = cost
    BY DEF Shaped, Undefined, Metric

(* Only STOP, what is refused and SSTORE have no price in the lower half.    *)
LEMMA LowShapes ==
    ASSUME NEW rev \in Revisions, NEW b \in Bytes, b < 128
    PROVE  LET n == Instruction[b]
               m == LowOf(rev)[b]
           IN  /\ Shaped(m)
               /\ m.gas = 0 => m = Undefined \/ n = "SSTORE"
               /\ n = "SLOAD" => m.gas > 0
<1> DEFINE n == Instruction[b]
           m == LowOf(rev)[b]
<1>1. n \in LowNames \cup {None}
    BY Names
<1>2. \/ m = LowMetric(n)
      \/ m \in {Undefined, Metric(20, 1, 0), Metric(20, 4, -4), Metric(50, 1, 0), Metric(700, 1, 0),
                Metric(800, 1, 0), Metric(2, 0, 1), Metric(5, 0, 1)}
    <2>1. rev \in Int /\ Homestead \in Int /\ Byzantium \in Int /\ Constantinople \in Int /\ Istanbul \in Int
        BY DEF Revisions, Frontier, Berlin, Homestead, Byzantium, Constantinople, Istanbul
    <2>2. /\ rev <= Homestead \/ rev > Homestead
          /\ rev < Byzantium \/ rev >= Byzantium
          /\ rev < Constantinople \/ rev >= Constantinople
          /\ rev < Istanbul \/ rev >= Istanbul
        BY <2>1
    <2> HIDE DEF n, m
    <2> QED
        BY <2>2, LowRow DEF n, m
<1>3. LowMetric(None) = Undefined
    BY DEF LowMetric, None
<1>4. n \in LowNames =>
          LowMetric(n) \in {Undefined, Metric(700, 4, -4), Metric(8, 3, -2), Metric(3, 3, -3), Metric(3, 2, -1),
                            Metric(3, 2, -2), Metric(5, 2, -1), Metric(10, 2, -1), Metric(10, 2, -2),
                            Metric(30, 2, -1), Metric(0, 2, -2), Metric(3, 1, 0), Metric(2, 1, -1), Metric(8, 1, -1),
                            Metric(20, 1, 0), Metric(200, 1, 0), Metric(400, 1, 0), Metric(700, 1, 0),
                            Metric(2, 0, 1), Metric(1, 0, 0), Metric(3, 0, 1)}
    <2> HIDE DEF n
    <2> QED
        BY LowMetrics
<1>5. m \in {Undefined, Metric(700, 4, -4), Metric(8, 3, -2), Metric(3, 3, -3), Metric(3, 2, -1),
             Metric(3, 2, -2), Metric(5, 2, -1), Metric(10, 2, -1), Metric(10, 2, -2),
             Metric(30, 2, -1), Metric(0, 2, -2), Metric(3, 1, 0), Metric(2, 1, -1), Metric(8, 1, -1),
             Metric(20, 1, 0), Metric(200, 1, 0), Metric(400, 1, 0), Metric(700, 1, 0),
             Metric(2, 0, 1), Metric(1, 0, 0), Metric(3, 0, 1), Metric(20, 4, -4), Metric(50, 1, 0),
             Metric(800, 1, 0), Metric(5, 0, 1)}
    <2> HIDE DEF n, m
    <2> QED
        BY <1>1, <1>2, <1>3, <1>4
<1>6. LowMetric(n) = Metric(0, 2, -2) => n = "SSTORE"
    BY DEF LowMetric, Metric, Undefined
<1>7. m = Metric(0, 2, -2) => m = LowMetric(n)
    <2> HIDE DEF n, m
    <2> QED
        BY <1>2 DEF Metric, Undefined
<1>8. Shaped(m)
    <2> HIDE DEF m
    <2> QED
        BY <1>5 DEF Shaped, Metric, Undefined
<1>9. m.gas = 0 => m = Undefined \/ m = Metric(0, 2, -2)
    <2> HIDE DEF m
    <2> QED
        BY <1>5 DEF Metric
<1>10. n = "SLOAD" => m.gas > 0
    <2>1. n = "SLOAD" => LowMetric(n) = Metric(200, 1, 0)
        BY DEF LowMetric
    <2>2. n = "SLOAD" => m \in {LowMetric(n), Metric(50, 1, 0), Metric(800, 1, 0)}
        <3>1. rev \in Int /\ Homestead \in Int /\ Istanbul \in Int
            BY DEF Revisions, Frontier, Berlin, Homestead, Istanbul
        <3>2. (rev <= Homestead \/ rev > Homestead) /\ (rev < Istanbul \/ rev >= Istanbul)
            BY <3>1
        <3> HIDE DEF n, m
        <3> QED
            BY <3>2, LowRow DEF n, m
    <2> HIDE DEF n, m
    <2> QED
        BY <2>1, <2>2 DEF Metric
<1> QED
    BY <1>6, <1>7, <1>8, <1>9, <1>10

LEMMA HighShapes ==
    ASSUME NEW rev \in Revisions, NEW b \in Bytes, b >= 128
    PROVE  LET n == Instruction[b]
               m == HighOf(rev)[b]
           IN  /\ Shaped(m)
               /\ m.gas = 0 => m = Undefined \/ n \in {"RETURN", "REVERT", "SELFDESTRUCT"}
<1> DEFINE n == Instruction[b]
           m == HighOf(rev)[b]
           k == Number[b]
<1>1. \/ m = HighMetric(n, k)
      \/ m \in {Undefined, Metric(40, 7, -6), Metric(40, 6, -5)}
      \/ m = Metric(0, 1, -1) /\ n = "SELFDESTRUCT"
    <2> HIDE DEF n, m, k
    <2> QED
        BY HighRow DEF n, m, k
<1>2. /\ n \in {"DUP", "SWAP"} => k \in 1 .. 16
      /\ n = "LOG" => k \in 0 .. 4
    BY NumbersOf
<1> HIDE DEF k
<1>3. /\ Shaped(HighMetric(n, k))
      /\ HighMetric(n, k).gas = 0 => HighMetric(n, k) = Undefined \/ n \in {"RETURN", "REVERT"}
    <2> HIDE DEF n
    <2>1. CASE n = "DUP"
        <3>1. HighMetric(n, k) = Metric(3, k, 1)
            BY <2>1, HighMetrics
        <3>2. k \in Nat /\ 3 \in Nat /\ 1 \in Int /\ 1 <= 1 /\ k + 1 >= 0
            BY <1>2, <2>1
        <3>3. Shaped(Metric(3, k, 1)) /\ Metric(3, k, 1).gas = 3
            BY <3>2, Shapes
        <3> QED
            BY <3>1, <3>3
    <2>2. CASE n = "SWAP"
        <3>1. HighMetric(n, k) = Metric(3, k + 1, 0)
            BY <2>2, HighMetrics
        <3>2. k + 1 \in Nat /\ 3 \in Nat /\ 0 \in Int /\ 0 <= 1 /\ (k + 1) + 0 >= 0
            BY <1>2, <2>2
        <3>3. Shaped(Metric(3, k + 1, 0)) /\ Metric(3, k + 1, 0).gas = 3
            BY <3>2, Shapes
        <3> QED
            BY <3>1, <3>3
    <2>3. CASE n = "LOG"
        <3>1. HighMetric(n, k) = Metric((k + 1) * 375, k + 2, -(k + 2))
            BY <2>3, HighMetrics
        <3>2. (k + 1) * 375 \in Nat \ {0} /\ k + 2 \in Nat /\ -(k + 2) \in Int /\ -(k + 2) <= 1 /\ (k + 2) + -(k + 2) >= 0
            BY <1>2, <2>3
        <3>3. HighMetric(n, k).gas = (k + 1) * 375
            BY <3>1, Shapes
        <3>4. Shaped(Metric((k + 1) * 375, k + 2, -(k + 2)))
            BY <3>2, Shapes
        <3> QED
            BY <3>1, <3>2, <3>3, <3>4
    <2>4. CASE n \in {"CREATE", "CREATE2", "CALL", "CALLCODE", "DELEGATECALL", "STATICCALL", "RETURN", "REVERT", "SELFDESTRUCT"}
        <3>1. \/ HighMetric(n, k) \in {Metric(32000, 3, -2), Metric(32000, 4, -3), Metric(700, 7, -6), Metric(700, 6, -5),
                                       Metric(5000, 1, -1)}
              \/ HighMetric(n, k) = Metric(0, 2, -2) /\ n \in {"RETURN", "REVERT"}
            BY <2>4, HighMetrics
        <3> QED
            BY <3>1, Shapes
    <2>5. CASE n \notin HighNames \ {"INVALID"}
        <3>1. HighMetric(n, k) = Undefined
            BY <2>5, HighMetrics
        <3> QED
            BY <3>1, Shapes
    <2> QED
        BY <2>1, <2>2, <2>3, <2>4, <2>5 DEF HighNames
<1> HIDE DEF n, m
<1>4. CASE m = HighMetric(n, k)
    BY <1>3, <1>4 DEF n, m
<1>5. CASE m \in {Undefined, Metric(40, 7, -6), Metric(40, 6, -5)}
    BY <1>5, Shapes DEF n, m
<1>6. CASE m = Metric(0, 1, -1) /\ n = "SELFDESTRUCT"
    BY <1>6, Shapes DEF n, m
<1> QED
    BY <1>1, <1>4, <1>5, <1>6

Free == {"STOP", "RETURN", "REVERT", "SSTORE", "SELFDESTRUCT"}

LEMMA RowsShaped ==
    ASSUME NEW rev \in Revisions, NEW b \in Bytes \ Own
    PROVE  /\ Shaped(s_metrics[rev][b])
           /\ ~Refused(jumpTable[b], rev) /\ jumpTable[b] \notin Free => s_metrics[rev][b].gas > 0
           /\ s_metrics[rev][Byte("SLOAD")].gas \in Nat \ {0}
<1>1. ASSUME NEW c \in Bytes \ Own
      PROVE  /\ Shaped(s_metrics[rev][c])
             /\ s_metrics[rev][c].gas = 0 => s_metrics[rev][c] = Undefined \/ Instruction[c] \in Free
             /\ Instruction[c] = "SLOAD" /\ c < 128 => s_metrics[rev][c].gas > 0
    <2>1. CASE c < 128
        <3>1. s_metrics[rev][c] = LowOf(rev)[c]
            BY <2>1, MetricsAt DEF Own
        <3>2. LET n == Instruction[c]
                  m == LowOf(rev)[c]
              IN  /\ Shaped(m)
                  /\ m.gas = 0 => m = Undefined \/ n = "SSTORE"
                  /\ n = "SLOAD" => m.gas > 0
            BY <2>1, LowShapes
        <3> QED
            BY <3>1, <3>2 DEF Free
    <2>2. CASE c >= 128
        <3>1. s_metrics[rev][c] = HighOf(rev)[c]
            BY <2>2, MetricsAt DEF Own, Bytes
        <3>2. LET n == Instruction[c]
                  m == HighOf(rev)[c]
              IN  /\ Shaped(m)
                  /\ m.gas = 0 => m = Undefined \/ n \in {"RETURN", "REVERT", "SELFDESTRUCT"}
            BY <2>2, HighShapes
        <3>3. ~(c < 128)
            BY <2>2 DEF Bytes
        <3> QED
            BY <3>1, <3>2, <3>3 DEF Free
    <2> QED
        BY <2>1, <2>2 DEF Bytes
<1>2. ASSUME ~Refused(jumpTable[b], rev), jumpTable[b] \notin Free
      PROVE  s_metrics[rev][b].gas > 0
    <2>1. s_metrics[rev][b] # Undefined
        BY <1>2, AllAgree DEF Own, Agree, Free
    <2>2. jumpTable[b] = Instruction[b]
        BY <1>2, Labels DEF Refused
    <2>3. s_metrics[rev][b].gas \in Nat
        BY <1>1 DEF Shaped
    <2> QED
        BY <1>1, <1>2, <2>1, <2>2, <2>3
<1>3. Byte("SLOAD") \in Bytes \ Own /\ Instruction[Byte("SLOAD")] = "SLOAD" /\ Byte("SLOAD") < 128
    <2>1. Control[84] = "SLOAD"
        BY DEF Control, Row
    <2>2. 84 \in Bytes
        BY DEF Bytes
    <2>3. Instruction[84] = "SLOAD"
        BY <2>1, <2>2, InstructionRows
    <2>4. Byte("SLOAD") \in Bytes /\ Instruction[Byte("SLOAD")] = "SLOAD"
        BY <2>2, <2>3 DEF Byte
    <2>5. "SLOAD" \notin HighNames \cup SyntheticNames \cup ExtensionNames \cup {None}
        BY DEF HighNames, SyntheticNames, ExtensionNames, None
    <2>6. Byte("SLOAD") < 128
        <3> DEFINE sload == Byte("SLOAD")
        <3>1. sload >= 128 => "SLOAD" \in HighNames \cup SyntheticNames \cup ExtensionNames \cup {None}
            BY <2>4, Names
        <3>2. sload \in Int
            BY <2>4 DEF Bytes
        <3> HIDE DEF sload
        <3>3. sload < 128
            BY <2>5, <3>1, <3>2
        <3> QED BY <3>3 DEF sload
    <2> QED
        BY <2>4, <2>6 DEF Own
<1>4. s_metrics[rev][Byte("SLOAD")].gas \in Nat \ {0}
    BY <1>1, <1>3 DEF Shaped
<1> QED
    BY <1>1, <1>2, <1>4

-----------------------------------------------------------------------------
(* The words of the stack.                                                 *)

StackWords == 0 .. WordMod - 1

LEMMA WordModIs ==
    /\ WordMod \in Nat /\ WordMod >= 4
    /\ WordMod = (Base * Base) * (Base * Base)
    /\ WordBits \in Nat
<1>1. LimbBits \in Nat /\ Base \in Nat \ {0} /\ Base >= 4
    BY BaseIs
<1>2. 2 ^ (LimbBits + LimbBits) = Base * Base
    BY <1>1, PowerSum DEF Base
<1>3. 2 ^ ((LimbBits + LimbBits) + (LimbBits + LimbBits)) = (Base * Base) * (Base * Base)
    <2>1. PICK h \in Nat : h = LimbBits + LimbBits
        BY <1>1
    <2>2. 2 ^ (h + h) = 2 ^ h * 2 ^ h
        BY PowerSum
    <2> QED BY <1>2, <2>1, <2>2
<1>4. WordBits = (LimbBits + LimbBits) + (LimbBits + LimbBits) /\ WordBits \in Nat
    BY <1>1 DEF WordBits
<1>5. WordMod = (Base * Base) * (Base * Base)
    BY <1>3, <1>4 DEF WordMod
<1>6. PICK B \in Nat : B = Base /\ B >= 4
    BY <1>1
<1>7. PICK C \in Nat : C = B * B /\ C >= 4
    BY <1>6
<1>8. C * C \in Nat /\ C * C >= 4
    BY <1>7
<1> QED
    BY <1>4, <1>5, <1>6, <1>7, <1>8

(* A digit and what stands above it.                                       *)
LEMMA TwoDigits ==
    ASSUME NEW B \in Nat \ {0}, NEW C \in Nat \ {0}, NEW x \in 0 .. B - 1, NEW y \in 0 .. C - 1
    PROVE  x + B * y \in 0 .. B * C - 1
<1>1. B * y \in Nat
    OBVIOUS
<1>2. B * y <= B * (C - 1)
    <2>1. PICK d \in Nat : C - 1 = y + d
        <3>1. C - 1 - y \in Nat /\ C - 1 = y + (C - 1 - y)
            OBVIOUS
        <3> QED BY <3>1
    <2>2. B * (C - 1) = B * y + B * d /\ B * d \in Nat
        BY <2>1
    <2> QED BY <1>1, <2>2
<1>3. B * (C - 1) = B * C - B /\ B * C \in Nat
    OBVIOUS
<1> QED BY <1>1, <1>2, <1>3

LEMMA NumberIn ==
    ASSUME NEW w \in W256
    PROVE  Number256(w) \in StackWords
<1>1. PICK B \in Nat \ {0} : B = Base
    BY BaseIs
<1>2. w.lo \in W128 /\ w.hi \in W128
    BY Halves256
<1>3. w.lo.lo \in Limb /\ w.lo.hi \in Limb /\ w.hi.lo \in Limb /\ w.hi.hi \in Limb
    BY <1>2, Pairs DEF W128
<1>4. PICK a \in 0 .. B - 1 : a = w.lo.lo
    BY <1>1, <1>3 DEF Limb
<1>5. PICK b \in 0 .. B - 1 : b = w.lo.hi
    BY <1>1, <1>3 DEF Limb
<1>6. PICK c \in 0 .. B - 1 : c = w.hi.lo
    BY <1>1, <1>3 DEF Limb
<1>7. PICK d \in 0 .. B - 1 : d = w.hi.hi
    BY <1>1, <1>3 DEF Limb
<1>8. Number256(w) = a + B * (b + B * (c + B * d))
    BY <1>1, <1>4, <1>5, <1>6, <1>7 DEF Number256
<1>9. PICK B2 \in Nat \ {0} : B2 = B * B
    OBVIOUS
<1>10. PICK e \in 0 .. B2 - 1 : e = c + B * d
    BY <1>9, TwoDigits
<1>11. PICK B3 \in Nat \ {0} : B3 = B * B2
    OBVIOUS
<1>12. PICK f \in 0 .. B3 - 1 : f = b + B * e
    BY <1>11, TwoDigits
<1>13. a + B * f \in 0 .. B * B3 - 1
    BY TwoDigits
<1>14. WordMod = B * B3
    <2>1. WordMod = (B * B) * (B * B)
        BY <1>1, WordModIs
    <2>2. (B * B) * (B * B) = B * (B * (B * B))
        OBVIOUS
    <2> QED BY <1>9, <1>11, <2>1, <2>2
<1> QED BY <1>8, <1>10, <1>12, <1>13, <1>14 DEF StackWords

LEMMA WordIn ==
    ASSUME NEW n \in Nat
    PROVE  ToWord(n) \in W256
<1> DEFINE limb(i) == (n \div 2 ^ (i * LimbBits)) % Base
<1>1. ASSUME NEW i \in 0 .. 3
      PROVE  limb(i) \in Limb
    <2>1. i * LimbBits \in Nat
        BY BaseIs
    <2>2. PICK p \in Nat \ {0} : p = 2 ^ (i * LimbBits)
        BY <2>1, PowerIn
    <2>3. n \div p \in Int
        OBVIOUS
    <2> QED BY <2>2, <2>3, Wraps
<1>2. ToWord(n) = Pair(Pair(limb(3), limb(2)), Pair(limb(1), limb(0)))
    BY DEF ToWord
<1>3. limb(0) \in Limb /\ limb(1) \in Limb /\ limb(2) \in Limb /\ limb(3) \in Limb
    BY <1>1
<1> HIDE DEF limb
<1> QED BY <1>2, <1>3, PairsOf

LEMMA ArithmeticIn ==
    ASSUME NEW op \in {"ADD", "SUB", "MUL", "EXP", "DIV", "MOD", "SDIV", "SMOD"}, NEW a \in W256, NEW b \in W256
    PROVE  Arithmetics(op, a, b) \in W256
<1>1. add256(a, b) \in W256 /\ sub256(a, b) \in W256
    BY Sums256
<1>2. mul256(a, b) \in W256
    BY Products256
<1>3. exp(a, b) \in W256
    BY ExpIn
<1>4. Zero256 \in W256
    BY Zeros
<1>5. ~Zero(b) => div256(a, b) \in W256 /\ mod256(a, b) \in W256
    BY Division256 DEF Zero
<1>6. ~Zero(b) => sdivrem(a, b).quot \in W256 /\ sdivrem(a, b).rem \in W256
    BY SignedDivision DEF Zero
<1> QED
    BY <1>1, <1>2, <1>3, <1>4, <1>5, <1>6 DEF Arithmetics

LEMMA ShiftIn ==
    ASSUME NEW op \in {"BYTE", "SHL", "SHR", "SAR", "SIGNEXTEND"}, NEW n \in Nat, NEW w \in W256
    PROVE  Shift(op, n, w) \in W256
<1>1. Zero256 \in W256 /\ One256 \in W256 /\ AllBits \in W256
    BY Zeros, Sums256 DEF AllBits
<1>2. LimbBits \in Nat /\ LimbBits >= 2 /\ WordBits \in Nat
    BY BaseIs, WordModIs
<1>3. op = "BYTE" => Shift(op, n, w) \in W256
    <2>1. ASSUME n < WordBytes
          PROVE  and256(shr256(w, ByteBits * (WordBytes - 1 - n)), ToWord(2 ^ ByteBits - 1)) \in W256
        <3>1. PICK k \in Nat : k = ByteBits * (WordBytes - 1 - n)
            <4>1. PICK j \in Nat : j = WordBytes - 1 - n
                BY <2>1 DEF WordBytes
            <4> QED BY <1>2, <4>1 DEF ByteBits
        <3>2. shr256(w, k) \in W256
            BY Shifts256
        <3>3. 2 ^ ByteBits - 1 \in Nat
            <4>1. PICK p \in Nat \ {0} : p = 2 ^ LimbBits
                BY <1>2, PowerIn
            <4> QED BY <4>1 DEF ByteBits
        <3> QED BY <3>1, <3>2, <3>3, WordIn, Bitwise256
    <2> QED BY <1>1, <2>1 DEF Shift
<1>4. op = "SHL" => Shift(op, n, w) \in W256
    BY <1>1, Shifts256 DEF Shift
<1>5. op = "SHR" => Shift(op, n, w) \in W256
    BY <1>1, Shifts256 DEF Shift
<1>6. shiftedRight(n, w) \in W256
    <2> DEFINE high == ~Zero(and256(w, shl256(One256, WordBits - 1)))
    <2>1. shiftedRight(n, w) = IF n >= WordBits THEN IF high THEN AllBits ELSE Zero256
                               ELSE IF high THEN or256(shr256(w, n), shl256(AllBits, WordBits - n)) ELSE shr256(w, n)
        BY DEF shiftedRight
    <2> HIDE DEF high
    <2>2. n < WordBits => WordBits - n \in Nat
        BY <1>2
    <2>3. shr256(w, n) \in W256
        BY Shifts256
    <2>4. n < WordBits => or256(shr256(w, n), shl256(AllBits, WordBits - n)) \in W256
        <3>1. n < WordBits => shl256(AllBits, WordBits - n) \in W256
            BY <1>1, <2>2, Shifts256
        <3> QED BY <2>3, <3>1, Bitwise256
    <2> QED BY <1>1, <1>2, <2>1, <2>3, <2>4
<1>7. signExtended(n, w) \in W256
    <2> DEFINE testBit == shl256(One256, n * ByteBits + ByteBits - 1)
               mask == sub256(testBit, One256)
    <2>1. signExtended(n, w) = IF n >= WordBytes - 1 THEN w
                               ELSE IF ~Zero(and256(w, testBit)) THEN or256(w, not256(mask)) ELSE and256(w, mask)
        BY DEF signExtended
    <2>2. PICK k \in Nat : k = n * ByteBits + ByteBits - 1
        <3>1. PICK j \in Nat : j = n * LimbBits
            BY <1>2
        <3> QED BY <1>2, <3>1 DEF ByteBits
    <2>3. testBit \in W256
        BY <1>1, <2>2, Shifts256
    <2> HIDE DEF testBit
    <2>4. mask \in W256
        BY <1>1, <2>3, Sums256
    <2> HIDE DEF mask
    <2>5. not256(mask) \in W256
        BY <2>4, Sums256
    <2>6. or256(w, not256(mask)) \in W256 /\ and256(w, mask) \in W256
        BY <2>4, <2>5, Bitwise256
    <2> QED BY <2>1, <2>6
<1>8. op = "SAR" => Shift(op, n, w) = shiftedRight(n, w)
    BY DEF Shift
<1>9. op = "SIGNEXTEND" => Shift(op, n, w) = signExtended(n, w)
    BY DEF Shift
<1> QED
    BY <1>3, <1>4, <1>5, <1>6, <1>7, <1>8, <1>9

(* The words an instruction that computes takes from the stack.            *)
LEMMA ComputedIn ==
    ASSUME Op \in Computes, Arg(0) \in Nat,
           Op \notin {"ISZERO", "NOT"} => Arg(1) \in Nat,
           Op \in {"ADDMOD", "MULMOD"} => Arg(2) \in Nat
    PROVE  Computed \in W256
<1>1. /\ Word(0) \in W256
      /\ Op \notin {"ISZERO", "NOT"} => Word(1) \in W256
      /\ Op \in {"ADDMOD", "MULMOD"} => Word(2) \in W256
    BY WordIn DEF Word
<1>2. Zero256 \in W256 /\ One256 \in W256
    BY Zeros
<1>3. CASE Op \in {"ISZERO", "LT", "GT", "SLT", "SGT", "EQ"}
    <2>1. Computed = If(Compared(Op, Word(0), IF Op = "ISZERO" THEN Zero256 ELSE Word(1)))
        BY <1>3 DEF Computed
    <2> QED BY <1>2, <2>1 DEF If
<1>4. CASE Op \in {"NOT", "AND", "OR", "XOR"}
    <2>1. Computed = Bitwise(Op, Word(0), IF Op = "NOT" THEN Zero256 ELSE Word(1))
        BY <1>4 DEF Computed
    <2>2. \A a, b \in W256 : Bitwise(Op, a, b) \in W256
        BY <1>4, Bitwise256, Sums256 DEF Bitwise
    <2>3. (IF Op = "NOT" THEN Zero256 ELSE Word(1)) \in W256
        BY <1>1, <1>2, <1>4
    <2> QED BY <1>1, <2>1, <2>2, <2>3, Zenon
<1>5. CASE Op \in {"BYTE", "SHL", "SHR", "SAR", "SIGNEXTEND"}
    <2>1. Computed = Shift(Op, Arg(0), Word(1))
        BY <1>5 DEF Computed
    <2> QED BY <1>1, <1>5, <2>1, ShiftIn
<1>6. CASE Op \in {"ADDMOD", "MULMOD"}
    <2>1. Computed = Modular(Op, Word(0), Word(1), Word(2))
        BY <1>6 DEF Computed
    <2>2. \A a, b, c \in W256 : Modular(Op, a, b, c) \in W256
        BY <1>2, Modulo DEF Modular, Zero
    <2>3. Word(1) \in W256 /\ Word(2) \in W256
        BY <1>1, <1>6
    <2> QED BY <1>1, <2>1, <2>2, <2>3
<1>7. CASE Op \in {"ADD", "SUB", "MUL", "EXP", "DIV", "MOD", "SDIV", "SMOD"}
    <2>1. Computed = Arithmetics(Op, Word(0), Word(1))
        BY <1>7 DEF Computed
    <2>2. Word(1) \in W256
        BY <1>1, <1>7
    <2> QED BY <1>1, <1>7, <2>1, <2>2, ArithmeticIn
<1>8. Computes = {"ISZERO", "LT", "GT", "SLT", "SGT", "EQ"} \cup {"NOT", "AND", "OR", "XOR"}
                 \cup {"BYTE", "SHL", "SHR", "SAR", "SIGNEXTEND"} \cup {"ADDMOD", "MULMOD"}
                 \cup {"ADD", "SUB", "MUL", "EXP", "DIV", "MOD", "SDIV", "SMOD"}
    BY DEF Computes, Binary
<1> QED
    BY <1>3, <1>4, <1>5, <1>6, <1>7, <1>8

-----------------------------------------------------------------------------
(* What holds of the stack, the gas and the memory between instructions.   *)

Whole(size) == \E w \in Nat : size = 32 * w

VmInv ==
    /\ CodeInv
    /\ TypeOK
    /\ Whole(mem)
    /\ status \in {"entry", "run"} => left = 0

(* An instruction that finds its words on the stack.                       *)
Ready == VmInv /\ status = "run" /\ ~Underflows /\ ~Refused(Op, Revision) /\ EvmVmAssumption

LEMMA ReadyRow ==
    ASSUME Ready
    PROVE  /\ Shaped(row) /\ row.required <= Len(stack) /\ Len(stack) \in Nat
           /\ row.sload \in Nat \ {0}
           /\ Op \notin Free => row.gas > 0
           /\ Reads(Here) <= row.required /\ Here \in Bytes \ Own /\ Op = jumpTable[Here] /\ N = Number[Here]
<1>1. Here \in Bytes \ Own /\ Op = jumpTable[Here] /\ N = Number[Here]
    BY Standing DEF Ready, VmInv
<1>2. row = Entry(Here, s_metrics[Revision])
    BY DEF Ready, VmInv, CodeInv
<1>3. Revision \in Revisions
    BY DEF Ready, EvmVmAssumption, Revisions, Frontier, Istanbul, Berlin
<1> DEFINE m == s_metrics[Revision][Here]
<1>4. /\ row.gas = m.gas /\ row.required = m.required /\ row.change = m.change
      /\ row.sload = s_metrics[Revision][Byte("SLOAD")].gas
    BY <1>2 DEF Entry
<1>5. Shaped(m) /\ (~Refused(jumpTable[Here], Revision) /\ jumpTable[Here] \notin Free => m.gas > 0)
    BY <1>1, <1>3, RowsShaped
<1>6. row.sload \in Nat \ {0}
    BY <1>1, <1>3, <1>4, RowsShaped
<1>7. Agree(m, Here, Revision)
    BY <1>1, <1>3, AllAgree DEF Own
<1> HIDE DEF m
<1>8. Shaped(row)
    BY <1>4, <1>5 DEF Shaped
<1>9. Len(stack) \in Nat
    BY DEF Ready, VmInv, TypeOK
<1>10. row.required <= Len(stack)
    BY <1>8, <1>9 DEF Ready, Underflows, Shaped
<1>11. ~Refused(jumpTable[Here], Revision)
    BY <1>1 DEF Ready
<1> QED
    BY <1>1, <1>4, <1>5, <1>6, <1>7, <1>8, <1>9, <1>10, <1>11 DEF Agree

(* The words an instruction reads are on the stack.                        *)
LEMMA ArgsIn ==
    ASSUME Ready
    PROVE  /\ HasValue => \A i \in 0 .. 6 : Arg(i) \in StackWords
           /\ Op \in {"DELEGATECALL", "STATICCALL"} => \A i \in 0 .. 5 : Arg(i) \in StackWords
           /\ Op \in Reads4 => \A i \in 0 .. 3 : Arg(i) \in StackWords
           /\ Op \in Reads3 => \A i \in 0 .. 2 : Arg(i) \in StackWords
           /\ Op \in Reads2 \cup {"LOG"} => Arg(0) \in StackWords /\ Arg(1) \in StackWords
           /\ Op \in Reads1 => Arg(0) \in StackWords
           /\ Op = "DUP" => N \in 1 .. 16 /\ Arg(N - 1) \in StackWords
           /\ Op = "SWAP" => N \in 1 .. 16 /\ Arg(0) \in StackWords /\ Arg(N) \in StackWords
           /\ Op = "LOG" => N \in 0 .. 4
<1>1. /\ row.required \in Nat /\ row.required <= Len(stack) /\ Len(stack) \in Nat
      /\ Reads(Here) <= row.required /\ Here \in Bytes /\ Op = jumpTable[Here] /\ N = Number[Here]
    BY ReadyRow DEF Shaped
<1>2. stack \in Seq(StackWords)
    BY DEF Ready, VmInv, TypeOK, StackWords
<1>3. ASSUME NEW k \in Int, k <= Len(stack), NEW i \in 0 .. k - 1
      PROVE  Arg(i) \in StackWords
    <2>1. i + 1 \in 1 .. Len(stack)
        BY <1>1, <1>3
    <2> QED BY <1>2, <2>1 DEF Arg
<1>4. Op \notin BadLabels
    BY DEF Ready, Refused
<1>5. Op = Instruction[Here]
    BY <1>1, <1>4, Labels
<1>6. HasValue => \A i \in 0 .. 6 : Arg(i) \in StackWords
    <2>1. HasValue => Reads(Here) = 7
        BY <1>1 DEF HasValue, Reads
    <2> QED BY <1>1, <1>3, <2>1
<1>7. Op \in {"DELEGATECALL", "STATICCALL"} => \A i \in 0 .. 5 : Arg(i) \in StackWords
    <2>1. Op \in {"DELEGATECALL", "STATICCALL"} => Reads(Here) = 6
        BY <1>1, HighReads
    <2> QED BY <1>1, <1>3, <2>1
<1>8. Op \in Reads4 => \A i \in 0 .. 3 : Arg(i) \in StackWords
    <2>1. Op \in Reads4 => Reads(Here) = 4
        BY <1>1 DEF Reads, Reads4
    <2> QED BY <1>1, <1>3, <2>1
<1>9. Op \in Reads3 => \A i \in 0 .. 2 : Arg(i) \in StackWords
    <2>1. Op \in Reads3 => Reads(Here) = 3
        BY <1>1 DEF Reads, Reads3
    <2> QED BY <1>1, <1>3, <2>1
<1>10. Op \in Reads2 => Arg(0) \in StackWords /\ Arg(1) \in StackWords
    <2>1. Op \in Reads2 => Reads(Here) = 2
        BY <1>1 DEF Reads, Reads2
    <2> QED BY <1>1, <1>3, <2>1
<1>11. Op \in Reads1 => Arg(0) \in StackWords
    <2>1. Op \in Reads1 => Reads(Here) = 1
        BY <1>1 DEF Reads, Reads1
    <2> QED BY <1>1, <1>3, <2>1
<1>12. Op = "DUP" => N \in 1 .. 16 /\ Arg(N - 1) \in StackWords
    <2>1. Op = "DUP" => Reads(Here) = N /\ N \in 1 .. 16
        BY <1>1, <1>5, HighReads, NumbersOf
    <2> HIDE DEF N
    <2>2. N \in 1 .. 16 /\ N <= Len(stack) => Arg(N - 1) \in StackWords
        <3>1. N \in 1 .. 16 => N \in Int /\ N - 1 \in 0 .. N - 1
            OBVIOUS
        <3> QED BY <1>3, <3>1
    <2>3. Op = "DUP" => N <= row.required
        BY <1>1, <2>1
    <2>4. N \in 1 .. 16 /\ N <= row.required => N <= Len(stack)
        BY <1>1
    <2> QED BY <2>1, <2>2, <2>3, <2>4
<1>13. Op = "SWAP" => N \in 1 .. 16 /\ Arg(0) \in StackWords /\ Arg(N) \in StackWords
    <2>1. Op = "SWAP" => Reads(Here) = N + 1 /\ N \in 1 .. 16
        BY <1>1, <1>5, HighReads, NumbersOf
    <2> HIDE DEF N
    <2>2. N \in 1 .. 16 /\ N + 1 <= Len(stack) => Arg(0) \in StackWords /\ Arg(N) \in StackWords
        <3>1. N \in 1 .. 16 => N + 1 \in Int /\ N \in 0 .. (N + 1) - 1 /\ 0 \in 0 .. (N + 1) - 1
            OBVIOUS
        <3> QED BY <1>3, <3>1
    <2>3. Op = "SWAP" => N + 1 <= row.required
        BY <1>1, <2>1
    <2>4. N \in 1 .. 16 /\ N + 1 <= row.required => N + 1 <= Len(stack)
        BY <1>1
    <2> QED BY <2>1, <2>2, <2>3, <2>4
<1>14. Op = "LOG" => N \in 0 .. 4 /\ Arg(0) \in StackWords /\ Arg(1) \in StackWords
    <2>1. Op = "LOG" => Reads(Here) = N + 2 /\ N \in 0 .. 4
        BY <1>1, <1>5, HighReads, NumbersOf
    <2> HIDE DEF N
    <2>2. N \in 0 .. 4 /\ N + 2 <= Len(stack) => Arg(0) \in StackWords /\ Arg(1) \in StackWords
        <3>1. N \in 0 .. 4 => N + 2 \in Int /\ 1 \in 0 .. (N + 2) - 1 /\ 0 \in 0 .. (N + 2) - 1
            OBVIOUS
        <3> QED BY <1>3, <3>1
    <2>3. Op = "LOG" => N + 2 <= row.required
        BY <1>1, <2>1
    <2>4. N \in 0 .. 4 /\ N + 2 <= row.required => N + 2 <= Len(stack)
        BY <1>1
    <2> QED BY <2>1, <2>2, <2>3, <2>4
<1> QED
    BY <1>6, <1>7, <1>8, <1>9, <1>10, <1>11, <1>12, <1>13, <1>14

-----------------------------------------------------------------------------
(* What an instruction costs.                                              *)

LEMMA QuotientGrows ==
    ASSUME NEW d \in Nat \ {0}, NEW a \in Nat, NEW b \in Nat, a <= b
    PROVE  a \div d \in Nat /\ b \div d \in Nat /\ a \div d <= b \div d
<1>1. PICK p \in Nat : p = a \div d
    BY Quotient
<1>2. PICK q \in Nat : q = b \div d
    BY Quotient
<1>3. a = d * p + (a % d) /\ a % d \in 0 .. d - 1
    BY <1>1, Remainder
<1>4. b = d * q + (b % d) /\ b % d \in 0 .. d - 1
    BY <1>2, Remainder
<1>5. PICK r \in 0 .. d - 1 : r = a % d /\ a = d * p + r
    BY <1>3
<1>6. PICK s \in 0 .. d - 1 : s = b % d /\ b = d * q + s
    BY <1>4
<1>7. ASSUME p > q
      PROVE  FALSE
    <2>1. PICK e \in Nat : p = q + 1 + e
        <3>1. p - q - 1 \in Nat /\ p = q + 1 + (p - q - 1)
            BY <1>7
        <3> QED BY <3>1
    <2>2. d * p = d * q + d + d * e /\ d * e \in Nat /\ d * q \in Nat
        BY <2>1
    <2> QED BY <1>5, <1>6, <2>2
<1> QED BY <1>1, <1>2, <1>7

LEMMA MemoryPrice ==
    ASSUME NEW m \in Nat, NEW n \in Nat, m <= n, QuadCoeffDiv \in Nat \ {0}
    PROVE  gasForMem(m) \in Nat /\ gasForMem(n) \in Nat /\ gasForMem(m) <= gasForMem(n)
<1>1. PICK a \in Nat : a = m \div 32
    BY QuotientGrows
<1>2. PICK b \in Nat : b = n \div 32 /\ a <= b
    BY <1>1, QuotientGrows
<1>3. a * a \in Nat /\ b * b \in Nat /\ a * a <= b * b
    <2>1. PICK e \in Nat : b = a + e
        <3>1. b - a \in Nat /\ b = a + (b - a)
            BY <1>2
        <3> QED BY <3>1
    <2>2. b * b = a * a + 2 * (a * e) + e * e /\ a * e \in Nat /\ e * e \in Nat /\ a * a \in Nat
        BY <2>1
    <2> QED BY <2>2
<1>4. PICK c \in Nat : c = (a * a) \div QuadCoeffDiv
    BY <1>3, QuotientGrows
<1>5. PICK d \in Nat : d = (b * b) \div QuadCoeffDiv /\ c <= d
    BY <1>3, <1>4, QuotientGrows
<1>6. gasForMem(m) = 3 * a + c /\ gasForMem(n) = 3 * b + d
    BY <1>1, <1>2, <1>4, <1>5 DEF gasForMem
<1> QED BY <1>2, <1>5, <1>6

LEMMA WordsIn ==
    ASSUME NEW n \in Nat
    PROVE  CeilWords(n) \in Nat /\ Whole(CeilWords(n) * 32) /\ CeilWords(n) * 32 >= n
<1>1. CeilWords(n) \in Nat /\ CeilWords(n) * 32 >= n
    BY DEF CeilWords
<1> QED BY <1>1 DEF Whole

LEMMA Needs ==
    /\ Op \in {"MLOAD", "MSTORE"} => need = Arg(0) + 32
    /\ Op = "MSTORE8" => need = Arg(0) + 1
    /\ Op \in {"SHA3", "RETURN", "REVERT", "LOG"} => need = memNeed(Arg(0), Arg(1))
    /\ Op = "EXTCODECOPY" => need = memNeed(Arg(1), Arg(3))
    /\ Op \in Copies \ {"EXTCODECOPY"} => need = memNeed(Arg(0), Arg(2))
    /\ Op \in {"CREATE", "CREATE2"} => need = memNeed(Arg(1), Arg(2))
    /\ Op \in Calls4 =>
          need = Larger(memNeed(Arg(Sizes), Arg(Sizes + 1)), memNeed(Arg(Sizes + 2), Arg(Sizes + 3)))
    /\ Op \notin {"MLOAD", "MSTORE", "MSTORE8", "SHA3", "RETURN", "REVERT", "LOG", "CREATE", "CREATE2"}
                 \cup Copies \cup Calls4 => need = 0
<1>1. Op \in {"MLOAD", "MSTORE"} => need = Arg(0) + 32
    BY DEF need, Copies, Calls4
<1>2. Op = "MSTORE8" => need = Arg(0) + 1
    BY DEF need, Copies, Calls4
<1>3. Op \in {"SHA3", "RETURN", "REVERT", "LOG"} => need = memNeed(Arg(0), Arg(1))
    BY DEF need, Copies, Calls4
<1>4. Op = "EXTCODECOPY" => need = memNeed(Arg(1), Arg(3))
    BY DEF need, Copies, Calls4
<1>5. Op \in Copies \ {"EXTCODECOPY"} => need = memNeed(Arg(0), Arg(2))
    BY DEF need, Copies, Calls4
<1>6. Op \in {"CREATE", "CREATE2"} => need = memNeed(Arg(1), Arg(2))
    BY DEF need, Copies, Calls4
<1>7. Op \in Calls4 =>
          need = Larger(memNeed(Arg(Sizes), Arg(Sizes + 1)), memNeed(Arg(Sizes + 2), Arg(Sizes + 3)))
    BY DEF need, Copies, Calls4
<1>8. Op \notin {"MLOAD", "MSTORE", "MSTORE8", "SHA3", "RETURN", "REVERT", "LOG", "CREATE", "CREATE2"}
                \cup Copies \cup Calls4 => need = 0
    BY DEF need, Copies, Calls4
<1> QED BY <1>1, <1>2, <1>3, <1>4, <1>5, <1>6, <1>7, <1>8

LEMMA NeedIn ==
    ASSUME Ready
    PROVE  need \in Nat /\ m_copyMemSize \in Nat
<1>1. StackWords \subseteq Nat
    BY WordModIs DEF StackWords
<1>2. \A o, s \in StackWords : memNeed(o, s) \in Nat
    BY <1>1 DEF memNeed
<1>3. \A m, n \in Nat : Larger(m, n) \in Nat
    BY DEF Larger
<1>4. Op \in Calls4 => Larger(memNeed(Arg(Sizes), Arg(Sizes + 1)), memNeed(Arg(Sizes + 2), Arg(Sizes + 3))) \in Nat
    <2>1. HasValue => Sizes = 3 /\ \A i \in 3 .. 6 : Arg(i) \in StackWords
        BY ArgsIn DEF Sizes
    <2>2. Op \in {"DELEGATECALL", "STATICCALL"} => Sizes = 2 /\ \A i \in 2 .. 5 : Arg(i) \in StackWords
        BY ArgsIn DEF Sizes, HasValue
    <2>3. Op \in Calls4 => HasValue \/ Op \in {"DELEGATECALL", "STATICCALL"}
        BY DEF Calls4, HasValue
    <2>4. Op \in Calls4 => /\ Arg(Sizes) \in StackWords /\ Arg(Sizes + 1) \in StackWords
                           /\ Arg(Sizes + 2) \in StackWords /\ Arg(Sizes + 3) \in StackWords
        BY <2>1, <2>2, <2>3
    <2> QED BY <1>2, <1>3, <2>4
<1>5. Op \in {"MLOAD", "MSTORE", "MSTORE8"} => Arg(0) \in StackWords
    BY ArgsIn DEF Reads1, Reads2
<1>6. Op \in {"SHA3", "RETURN", "REVERT", "LOG"} => Arg(0) \in StackWords /\ Arg(1) \in StackWords
    BY ArgsIn DEF Reads2
<1>7. Op = "EXTCODECOPY" => Arg(1) \in StackWords /\ Arg(3) \in StackWords
    BY ArgsIn DEF Reads4
<1>8. Op \in Copies \ {"EXTCODECOPY"} => Arg(0) \in StackWords /\ Arg(2) \in StackWords
    BY ArgsIn DEF Reads3, Copies
<1>9. Op \in {"CREATE", "CREATE2"} => Arg(1) \in StackWords /\ Arg(2) \in StackWords
    BY ArgsIn DEF Reads3, Reads4
<1>10. need \in Nat
    <2>1. CASE Op \in {"MLOAD", "MSTORE", "MSTORE8"}
        <3>1. PICK a \in Nat : a = Arg(0)
            BY <1>1, <1>5, <2>1
        <3> QED BY <2>1, <3>1, Needs
    <2>2. CASE Op \in {"SHA3", "RETURN", "REVERT", "LOG"}
        BY <1>2, <1>6, <2>2, Needs
    <2>3. CASE Op = "EXTCODECOPY"
        BY <1>2, <1>7, <2>3, Needs
    <2>4. CASE Op \in Copies \ {"EXTCODECOPY"}
        BY <1>2, <1>8, <2>4, Needs
    <2>5. CASE Op \in {"CREATE", "CREATE2"}
        BY <1>2, <1>9, <2>5, Needs
    <2>6. CASE Op \in Calls4
        BY <1>4, <2>6, Needs
    <2>7. CASE Op \notin {"MLOAD", "MSTORE", "MSTORE8", "SHA3", "RETURN", "REVERT", "LOG", "CREATE", "CREATE2"}
                         \cup Copies \cup Calls4
        BY <2>7, Needs
    <2> QED BY <2>1, <2>2, <2>3, <2>4, <2>5, <2>6, <2>7
<1>11. m_copyMemSize \in Nat
    BY <1>1, <1>7, <1>8 DEF m_copyMemSize
<1> QED BY <1>10, <1>11

(* What is paid: something, unless the message ends.                       *)
LEMMA PriceIn ==
    ASSUME Ready, NEW host \in Answers
    PROVE  /\ runGas(host) \in Nat
           /\ Op \notin Free \ {"SSTORE"} => runGas(host) > 0
           /\ HasValue /\ Arg(2) > 0 => runGas(host) >= 9000
<1>1. StackWords \subseteq Nat
    BY WordModIs DEF StackWords
<1>2. row.gas \in Nat /\ row.sload \in Nat \ {0} /\ (Op \notin Free => row.gas > 0)
    BY ReadyRow DEF Shaped
<1>3. CASE Op = "EXP"
    <2>1. PICK c \in Nat : c = count_significant_words(ToWord(Arg(1)))
        <3>1. Arg(1) \in Nat
            BY <1>1, <1>3, ArgsIn DEF Reads2
        <3> QED BY <3>1, WordIn, SignificantWords
    <2>2. runGas(host) = 10 + (IF Revision >= SpuriousDragon THEN 50 ELSE 10) * c
        BY <1>3, <2>1 DEF runGas, expGas, Calls4
    <2>3. 50 * c \in Nat /\ 10 * c \in Nat
        OBVIOUS
    <2> QED BY <1>3, <2>2, <2>3 DEF HasValue
<1>4. CASE Op = "SHA3"
    <2>1. PICK c \in Nat : c = CeilWords(Arg(1))
        BY <1>1, <1>4, ArgsIn, WordsIn DEF Reads2
    <2>2. runGas(host) = 30 + 6 * c
        BY <1>4, <2>1 DEF runGas, sha3Gas, Calls4
    <2> QED BY <1>4, <2>2 DEF HasValue
<1>5. CASE Op = "LOG"
    <2>1. PICK a \in Nat : a = Arg(1)
        BY <1>1, <1>5, ArgsIn
    <2>2. PICK n \in Nat : n = N
        BY <1>5, ArgsIn
    <2>3. runGas(host) = 375 + 375 * n + 8 * a
        BY <1>5, <2>1, <2>2 DEF runGas, logGas, Calls4
    <2> QED BY <1>5, <2>3 DEF HasValue
<1>6. CASE Op \in {"CREATE", "CREATE2"}
    <2>1. Op = "CREATE2" => Arg(2) \in Nat
        <3>1. Op = "CREATE2" => \A i \in 0 .. 3 : Arg(i) \in StackWords
            BY ArgsIn DEF Reads4
        <3>2. 2 \in 0 .. 3
            OBVIOUS
        <3> QED BY <1>1, <3>1, <3>2, Zenon
    <2>2. \A k \in Nat : CeilWords(k) \in Nat
        BY WordsIn
    <2>3. runGas(host) = 32000 + (IF Op = "CREATE2" THEN 6 * CeilWords(Arg(2)) ELSE 0)
        BY <1>6 DEF runGas, createGas, Calls4
    <2>4. PICK k \in Nat : Op = "CREATE2" => k = CeilWords(Arg(2))
        <3>1. CASE Op = "CREATE2"
            BY <2>1, <2>2, <3>1
        <3>2. CASE Op # "CREATE2"
            BY <3>2
        <3> QED BY <3>1, <3>2
    <2> QED BY <1>6, <2>3, <2>4 DEF HasValue
<1>7. CASE Op \in Calls4
    <2>1. PICK g \in Nat : g = row.gas /\ g > 0
        BY <1>2, <1>7 DEF Calls4, Free
    <2>2. PICK e \in {0, 25000} :
              e = IF Op = "CALL" /\ (Arg(2) > 0 \/ Revision < SpuriousDragon) /\ ~host.exists THEN 25000 ELSE 0
        OBVIOUS
    <2>3. PICK f \in {0, 9000} :
              f = (IF HasValue /\ Arg(2) > 0 THEN 9000 ELSE 0) /\ (HasValue /\ Arg(2) > 0 => f = 9000)
        OBVIOUS
    <2>4. runGas(host) = g + e + f
        <3>1. runGas(host) = callGas(host)
            BY <1>7 DEF runGas, Calls4
        <3> QED BY <2>1, <2>2, <2>3, <3>1 DEF callGas
    <2> QED BY <2>1, <2>3, <2>4
<1>8. CASE Op = "SELFDESTRUCT"
    <2>1. runGas(host) = selfdestructGas(host)
        BY <1>8 DEF runGas, Calls4
    <2>2. selfdestructGas(host) \in {row.gas + 25000, row.gas + 0}
        BY DEF selfdestructGas
    <2> QED BY <1>2, <1>8, <2>1, <2>2 DEF HasValue, Free
<1>9. CASE Op = "SSTORE"
    <2>1. runGas(host) = sstoreGas(host)
        BY <1>9 DEF runGas, Calls4
    <2>2. sstoreGas(host) \in {row.sload, 5000}
        BY DEF sstoreGas
    <2> QED BY <1>2, <1>9, <2>1, <2>2 DEF HasValue
<1>10. CASE Op \notin {"EXP", "SHA3", "LOG", "CREATE", "CREATE2", "SELFDESTRUCT", "SSTORE"} \cup Calls4
    <2>1. runGas(host) = row.gas
        BY <1>10 DEF runGas, Calls4
    <2> QED BY <1>2, <1>10, <2>1 DEF HasValue, Calls4, Free
<1> QED BY <1>3, <1>4, <1>5, <1>6, <1>7, <1>8, <1>9, <1>10

LEMMA TotalIn ==
    ASSUME Ready, NEW host \in Answers
    PROVE  /\ total(host) \in Nat
           /\ Op \notin Free \ {"SSTORE"} => total(host) > 0
           /\ HasValue /\ Arg(2) > 0 => total(host) >= 9000
           /\ m_newMemSize \in Nat /\ Whole(m_newMemSize) /\ m_newMemSize >= need
<1>1. PICK r \in Nat : /\ r = runGas(host)
                       /\ Op \notin Free \ {"SSTORE"} => r > 0
                       /\ HasValue /\ Arg(2) > 0 => r >= 9000
    BY PriceIn
<1>2. PICK c \in Nat : c = CeilWords(m_copyMemSize)
    BY NeedIn, WordsIn
<1>3. m_newMemSize \in Nat /\ Whole(m_newMemSize) /\ m_newMemSize >= need
    <2>1. CeilWords(need) \in Nat /\ Whole(CeilWords(need) * 32) /\ CeilWords(need) * 32 >= need
        BY NeedIn, WordsIn
    <2> QED BY <2>1 DEF m_newMemSize
<1>4. mem \in Nat /\ QuadCoeffDiv \in Nat \ {0}
    BY DEF Ready, VmInv, TypeOK, EvmVmAssumption
<1>5. PICK g \in Nat : g = IF m_newMemSize > mem THEN gasForMem(m_newMemSize) - gasForMem(mem) ELSE 0
    <2>1. CASE m_newMemSize > mem
        <3>1. mem <= m_newMemSize
            BY <1>3, <1>4, <2>1
        <3>2. gasForMem(mem) \in Nat /\ gasForMem(m_newMemSize) \in Nat /\ gasForMem(mem) <= gasForMem(m_newMemSize)
            BY <1>3, <1>4, <3>1, MemoryPrice
        <3> QED BY <2>1, <3>2
    <2>2. CASE ~(m_newMemSize > mem)
        BY <2>2
    <2> QED BY <2>1, <2>2
<1>6. total(host) = r + 3 * c + g
    BY <1>1, <1>2, <1>5 DEF total
<1> QED BY <1>1, <1>3, <1>6

LEMMA GrownIn ==
    ASSUME Ready
    PROVE  LET grown == Larger(mem, m_newMemSize)
           IN  grown \in Nat /\ Whole(grown) /\ grown >= mem /\ grown >= need
<1>1. CeilWords(need) \in Nat /\ Whole(CeilWords(need) * 32) /\ CeilWords(need) * 32 >= need /\ need \in Nat
    BY NeedIn, WordsIn
<1>2. m_newMemSize \in Nat /\ Whole(m_newMemSize) /\ m_newMemSize >= need
    BY <1>1 DEF m_newMemSize
<1>3. mem \in Nat /\ Whole(mem)
    BY DEF Ready, VmInv, TypeOK
<1> QED BY <1>1, <1>2, <1>3 DEF Larger

LEMMA PaidIn ==
    ASSUME Ready, NEW host \in Answers, Affordable(host)
    PROVE  /\ total(host) \in 0 .. gas /\ gas - total(host) \in 0 .. gas
           /\ Op \notin Free \ {"SSTORE"} => gas - total(host) < gas
<1>1. PICK t \in Nat : t = total(host) /\ (Op \notin Free \ {"SSTORE"} => t > 0)
    BY TotalIn
<1>2. gas \in Nat /\ t <= gas
    <2>1. gas \in 0 .. msg.gas /\ msg \in Messages
        BY DEF Ready, VmInv, TypeOK
    <2>2. msg.gas \in Nat
        BY <2>1, EvmVmAssumption
    <2> QED BY <1>1, <2>1, <2>2 DEF Affordable
<1> QED BY <1>1, <1>2

-----------------------------------------------------------------------------
(* What an instruction leaves on the stack.                                *)

(* The bytes behind a PUSH, as a word.                                     *)
LEMMA PushedIn ==
    ASSUME N \in Nat, pc \in Nat, \A i \in 1 .. N : code[pc + 1 + i] \in Nat
    PROVE  FoldLeft(LAMBDA v, i : (v * 256 + code[pc + 1 + i]) % WordMod, 0, [i \in 1 .. N |-> i]) \in StackWords
<1> DEFINE seq == Positions(N)
           A == StackWords
           B == 1 .. N
           Do(s, j) == (s * 256 + code[pc + 1 + j]) % WordMod
           G == [z \in A \X B |-> Do(z[1], z[2])]
           Rec(f) == [s \in SUBSET DOMAIN seq |-> IF s = {} THEN 0 ELSE Do(f[s \ {Max(s)}], seq[Max(s)])]
           it == CHOOSE f : f = Rec(f)
<1>1. seq \in Seq(B) /\ DOMAIN seq = 1 .. N /\ Len(seq) = N /\ N \in Nat
    BY PositionsAre
<1>2. 0 \in A
    BY WordModIs DEF StackWords
<1>3. \A s \in A, j \in B : Do(s, j) \in A
    <2>1. TAKE s \in A, j \in B
    <2>2. PICK M \in Nat : M = WordMod /\ M >= 4
        BY WordModIs
    <2>3. PICK x \in Nat : x = code[pc + 1 + j]
        OBVIOUS
    <2>4. s * 256 + x \in Nat
        BY <2>2 DEF StackWords
    <2>5. (s * 256 + x) % M \in 0 .. M - 1
        BY <2>2, <2>4
    <2> QED BY <2>2, <2>3, <2>5 DEF StackWords
<1> HIDE DEF A, B
<1>4. G \in [A \X B -> A]
    <2> HIDE DEF Do
    <2> QED BY <1>3
<1>5. PICK f : Folds(f, A, G, 0, seq)
    <2> HIDE DEF G, seq, Do
    <2> QED BY <1>1, <1>2, <1>4, FoldExists
<1>6. f = Rec(f)
    <2>1. f \in [SUBSET (1 .. N) -> A] /\ f[{}] = 0
        <3> HIDE DEF G, seq, Do
        <3> QED BY <1>1, <1>5 DEF Folds
    <2>2. ASSUME NEW s \in SUBSET (1 .. N), s # {}
          PROVE  f[s] = Do(f[s \ {Max(s)}], seq[Max(s)])
        <3>1. /\ f[s] = G[<<f[s \ {Max(s)}], seq[Max(s)]>>]
              /\ f[s \ {Max(s)}] \in A /\ seq[Max(s)] \in B
            <4> HIDE DEF seq, G, Rec, Do
            <4>1. s \in SUBSET (1 .. Len(seq)) /\ s # {} /\ seq \in Seq(B)
                BY <1>1, <2>2
            <4> QED BY <1>5, <4>1, FoldStep
        <3> HIDE DEF Do
        <3> QED BY <3>1
    <2> HIDE DEF seq, Do
    <2> QED BY <1>1, <2>1, <2>2
<1>7. it = Rec(it)
    <2> HIDE DEF Rec
    <2> QED BY <1>6
<1>8. it[1 .. N] \in A
    <2> HIDE DEF it, seq, Do
    <2>1. it[{}] \in A
        BY <1>2, <1>7
    <2>2. ASSUME NEW s \in SUBSET (1 .. N), s # {}, Max(s) \in 1 .. N, it[s \ {Max(s)}] \in A
          PROVE  it[s] \in A
        <3>1. it[s] = Do(it[s \ {Max(s)}], seq[Max(s)])
            BY <1>1, <1>7, <2>2
        <3>2. seq[Max(s)] \in B
            BY <1>1, <2>2
        <3> QED BY <1>3, <2>2, <3>1, <3>2
    <2> QED BY <1>1, <2>1, <2>2, FoldTyped
<1>9. FoldLeft(LAMBDA v, i : (v * 256 + code[pc + 1 + i]) % WordMod, 0, [i \in 1 .. N |-> i]) = it[DOMAIN seq]
    BY DEF Positions, FoldLeft, MapThenFoldSet
<1>10. FoldLeft(LAMBDA v, i : (v * 256 + code[pc + 1 + i]) % WordMod, 0, [i \in 1 .. N |-> i]) \in A
    <2> HIDE DEF it, seq, Do
    <2> QED BY <1>1, <1>8, <1>9
<1> QED
    BY <1>10 DEF A

Stacks == {s \in Seq(StackWords) : Len(s) <= StackLimit}

LEMMA AdjustedIn ==
    ASSUME Ready, ~Overflows
    PROVE  Adjusted \in Stacks
<1>1. /\ row.required \in Nat /\ row.required <= Len(stack) /\ row.change \in Int /\ row.change <= 1
      /\ row.required + row.change >= 0 /\ Len(stack) \in Nat
    BY ReadyRow DEF Shaped
<1>2. Len(stack) + row.change <= StackLimit
    BY <1>1 DEF Overflows, Ready, EvmVmAssumption
<1>3. stack \in Seq(StackWords)
    BY DEF Ready, VmInv, TypeOK, StackWords
<1>4. CASE row.change > 0
    <2>1. row.change = 1
        BY <1>1, <1>4
    <2>2. <<0>> \in Seq(StackWords) /\ Len(<<0>>) = 1
        BY WordModIs DEF StackWords
    <2>3. <<0>> \o stack \in Seq(StackWords) /\ Len(<<0>> \o stack) = 1 + Len(stack)
        BY <1>3, <2>2, ConcatProperties
    <2> QED BY <1>1, <1>2, <1>4, <2>1, <2>3 DEF Adjusted, Stacks
<1>5. CASE ~(row.change > 0)
    <2> DEFINE m == 1 - row.change
               l == Len(stack)
    <2>1. m \in 1 .. l + 1 /\ l \in Nat /\ l - m + 1 = l + row.change
        BY <1>1, <1>5
    <2>2. SubSeq(stack, m, l) \in Seq(StackWords) /\ Len(SubSeq(stack, m, l)) = l - m + 1
        <3> HIDE DEF m
        <3>1. CASE m <= l
            <4>1. \A i \in m .. l : stack[i] \in StackWords
                BY <1>3, <2>1
            <4> QED BY <2>1, <3>1, <4>1, SubSeqProperties
        <3>2. CASE m = l + 1
            BY <2>1, <3>2, SubSeqProperties
        <3> QED BY <2>1, <3>1, <3>2
    <2>3. Adjusted = SubSeq(stack, m, l)
        BY <1>5 DEF Adjusted
    <2> HIDE DEF m, l
    <2> QED BY <1>2, <2>1, <2>2, <2>3 DEF Stacks, l
<1> QED BY <1>4, <1>5

LEMMA ReplacedIn ==
    ASSUME NEW s \in Stacks, NEW i, NEW v \in StackWords
    PROVE  [s EXCEPT ![i] = v] \in Stacks
<1>1. s \in Seq(StackWords) /\ Len(s) \in Nat /\ Len(s) <= StackLimit /\ s \in [1 .. Len(s) -> StackWords]
    BY DEF Stacks
<1> DEFINE t == [s EXCEPT ![i] = v]
<1>2. t \in [1 .. Len(s) -> StackWords]
    BY <1>1
<1> HIDE DEF t
<1>3. t \in Seq(StackWords) /\ Len(t) = Len(s)
    BY <1>1, <1>2
<1> QED BY <1>1, <1>3 DEF Stacks, t

LEMMA YieldsIn ==
    ASSUME Ready, ~Overflows, NEW v \in StackWords, Yields(v)
    PROVE  stack' \in Stacks
    BY AdjustedIn, ReplacedIn DEF Yields

-----------------------------------------------------------------------------
(* An instruction that does not end the message.                           *)

Carried ==
    /\ stack' \in Stacks
    /\ gas' \in Nat /\ gas' < gas
    /\ mem' = Larger(mem, m_newMemSize)
    /\ ret' \in Nat
    /\ UNCHANGED <<msg, code, jumpDests, status, left>>

LEMMA Readied ==
    ASSUME VmInv, NEW names, Starts(names)
    PROVE  /\ Ready /\ ~Overflows /\ Op \in names
           /\ ret \in Nat /\ mem \in Nat /\ gas \in Nat /\ gas <= msg.gas /\ pc \in Nat /\ msg \in Messages
<1>1. Ready /\ ~Overflows /\ Op \in names
    BY EvmVmAssumption DEF Ready, Starts
<1>2. ret \in Nat /\ mem \in Nat /\ pc \in Nat /\ msg \in Messages /\ gas \in 0 .. msg.gas
    BY DEF VmInv, TypeOK
<1>3. msg.gas \in Nat
    BY <1>2, EvmVmAssumption
<1> QED
    BY <1>1, <1>2, <1>3

LEMMA Continues ==
    ASSUME Ready, Op \notin Free \ {"SSTORE"}, \E host \in Answers : Pays(host),
           stack' \in Stacks, ret' \in Nat, UNCHANGED <<msg, code, jumpDests, status, left>>
    PROVE  Carried
<1>1. PICK host \in Answers : Pays(host)
    OBVIOUS
<1>2. Affordable(host) /\ gas' = gas - total(host) /\ mem' = Larger(mem, m_newMemSize)
    BY <1>1 DEF Pays
<1>3. gas - total(host) \in 0 .. gas /\ gas - total(host) < gas
    BY <1>2, PaidIn
<1>4. gas' \in Nat /\ gas' < gas
    BY <1>2, <1>3
<1> QED
    BY <1>2, <1>4 DEF Carried

LEMMA ComputeCarries ==
    ASSUME VmInv, Compute
    PROVE  Carried
<1>1. Starts(Computes)
    BY DEF Compute
<1>2. Ready /\ ~Overflows /\ Op \in Computes /\ ret \in Nat
    BY <1>1, Readied
<1>3. StackWords \subseteq Nat
    BY WordModIs DEF StackWords
<1>4. Arg(0) \in StackWords
    BY <1>2, ArgsIn DEF Computes, Binary, Reads1, Reads2, Reads3
<1>5. Op \notin {"ISZERO", "NOT"} => Arg(1) \in StackWords
    BY <1>2, ArgsIn DEF Computes, Binary, Reads2, Reads3
<1>6. Op \in {"ADDMOD", "MULMOD"} => Arg(2) \in StackWords
    BY <1>2, ArgsIn DEF Reads3
<1>7. Number256(Computed) \in StackWords
    <2>1. Computed \in W256
        BY <1>2, <1>3, <1>4, <1>5, <1>6, ComputedIn
    <2> QED BY <2>1, NumberIn
<1>8. stack' \in Stacks
    BY <1>2, <1>7, YieldsIn DEF Compute
<1>9. Op \notin Free \ {"SSTORE"}
    BY <1>2 DEF Computes, Binary, Free
<1>10. (\E host \in Answers : Pays(host)) /\ ret' = ret /\ UNCHANGED <<msg, code, jumpDests, status, left>>
    BY DEF Compute, Goes
<1> QED
    BY <1>2, <1>8, <1>9, <1>10, Continues

LEMMA QueryCarries ==
    ASSUME VmInv, Query
    PROVE  Carried
<1>1. Starts(Queries)
    BY DEF Query
<1>2. Ready /\ ~Overflows /\ Op \in Queries /\ ret \in Nat
    BY <1>1, Readied
<1>3. 0 \in StackWords /\ Inputs \subseteq StackWords
    BY WordModIs, EvmVmAssumption DEF StackWords
<1>4. PICK v \in Inputs : Yields(IF Op = "CALLDATALOAD" /\ Arg(0) >= msg.data THEN 0 ELSE v)
    BY DEF Query
<1>5. PICK w \in StackWords : Yields(w)
    <2>1. (IF Op = "CALLDATALOAD" /\ Arg(0) >= msg.data THEN 0 ELSE v) \in StackWords
        BY <1>3
    <2> QED BY <1>4, <2>1
<1>6. stack' \in Stacks
    BY <1>2, <1>5, YieldsIn
<1>7. Op \notin Free \ {"SSTORE"}
    BY <1>2 DEF Queries, MessageWords, BlockWords, Free
<1>10. (\E host \in Answers : Pays(host)) /\ ret' = ret /\ UNCHANGED <<msg, code, jumpDests, status, left>>
    BY DEF Query, Goes
<1> QED
    BY <1>2, <1>6, <1>7, <1>10, Continues

LEMMA TellCarries ==
    ASSUME VmInv, Tell
    PROVE  Carried
<1> DEFINE told(host) == CASE Op = "CALLDATASIZE" -> msg.data
                           [] Op = "CODESIZE" -> Len(msg.code)
                           [] Op = "RETURNDATASIZE" -> ret
                           [] Op = "PC" -> pc
                           [] Op = "MSIZE" -> mem
                           [] Op = "GAS" -> gas - total(host)
           names == SizeWords \cup {"PC", "MSIZE", "GAS"}
<1>1. Starts(names)
    BY DEF Tell
<1>2. Ready /\ ~Overflows /\ Op \in names /\ ret \in Nat /\ mem \in Nat /\ pc \in Nat /\ msg \in Messages
    BY <1>1, Readied
<1>3. msg.data \in Nat /\ Len(msg.code) \in Nat
    BY <1>2, EvmVmAssumption
<1>4. PICK host \in Answers : Pays(host) /\ Yields(told(host) % WordMod)
    BY DEF Tell
<1>5. gas - total(host) \in Nat
    <2>1. Affordable(host) /\ gas \in Nat
        BY <1>1, <1>4, Readied DEF Pays
    <2>2. gas - total(host) \in 0 .. gas
        BY <1>2, <2>1, PaidIn
    <2> QED BY <2>1, <2>2
<1>6. PICK t \in Nat : t = told(host)
    <2>1. Op \in {"CALLDATASIZE", "CODESIZE", "RETURNDATASIZE", "PC", "MSIZE", "GAS"}
        BY <1>2 DEF SizeWords
    <2>2. PICK g \in Nat : g = gas - total(host)
        BY <1>5
    <2>3. told(host) \in {msg.data, Len(msg.code), ret, pc, mem, g}
        BY <2>1, <2>2
    <2> HIDE DEF told
    <2> QED BY <1>2, <1>3, <2>2, <2>3
<1>7. t % WordMod \in StackWords
    <2>1. PICK M \in Nat : M = WordMod /\ M >= 4
        BY WordModIs
    <2>2. t % M \in 0 .. M - 1
        BY <2>1
    <2> QED BY <2>1, <2>2 DEF StackWords
<1>8. stack' \in Stacks
    <2> HIDE DEF told
    <2> QED BY <1>2, <1>4, <1>6, <1>7, YieldsIn
<1>9. Op \notin Free \ {"SSTORE"}
    BY <1>2 DEF SizeWords, Free
<1>10. (\E h \in Answers : Pays(h)) /\ ret' = ret /\ UNCHANGED <<msg, code, jumpDests, status, left>>
    BY DEF Tell, Goes
<1> HIDE DEF told
<1> QED
    BY <1>2, <1>8, <1>9, <1>10, Continues

LEMMA PushCarries ==
    ASSUME VmInv, Push
    PROVE  Carried
<1> DEFINE word == FoldLeft(LAMBDA v, i : (v * 256 + code[pc + 1 + i]) % WordMod, 0, [i \in 1 .. N |-> i])
<1>1. Starts({"PUSH"}) /\ Yields(word)
    BY DEF Push
<1> HIDE DEF word
<1>2. Ready /\ ~Overflows /\ Op = "PUSH" /\ ret \in Nat /\ pc \in Nat
    BY <1>1, Readied
<1>3. CodeInv /\ status = "run"
    BY <1>2 DEF Ready, VmInv
<1>4. Pushed(Here) = N /\ Here \in Bytes /\ pc + 1 + Pushed(Here) <= Len(code)
    BY <1>2, <1>3, EvmVmAssumption, Standing
<1>5. PICK k \in 0 .. 32 : k = N
    BY <1>4, PushedBytes
<1>6. code \in Seq(Bytes)
    BY <1>2 DEF Ready, VmInv, TypeOK
<1>7. k \in Nat /\ \A i \in 1 .. k : code[pc + 1 + i] \in Nat
    <2> SUFFICES ASSUME NEW i \in 1 .. k
                 PROVE  code[pc + 1 + i] \in Nat
        OBVIOUS
    <2>1. pc + 1 + k <= Len(code) /\ Len(code) \in Nat
        BY <1>4, <1>5, <1>6
    <2>2. pc + 1 + i \in 1 .. Len(code)
        BY <1>2, <2>1
    <2>3. code[pc + 1 + i] \in Bytes
        BY <1>6, <2>2
    <2> QED BY <2>3 DEF Bytes
<1>8. word \in StackWords
    <2>1. N \in Nat /\ \A i \in 1 .. N : code[pc + 1 + i] \in Nat
        BY <1>5, <1>7
    <2> QED BY <1>2, <2>1, PushedIn DEF word
<1>9. stack' \in Stacks
    BY <1>1, <1>2, <1>8, YieldsIn
<1>10. Op \notin Free \ {"SSTORE"}
    BY <1>2 DEF Free
<1>11. (\E host \in Answers : Pays(host)) /\ ret' = ret /\ UNCHANGED <<msg, code, jumpDests, status, left>>
    BY DEF Push
<1> QED
    BY <1>2, <1>9, <1>10, <1>11, Continues

LEMMA ShuffleCarries ==
    ASSUME VmInv, Dup \/ Swap \/ Drop \/ Jump
    PROVE  Carried
<1>1. CASE Dup
    <2>1. Starts({"DUP"}) /\ Yields(Arg(N - 1))
        BY <1>1 DEF Dup
    <2>2. Ready /\ ~Overflows /\ Op = "DUP" /\ ret \in Nat
        BY <2>1, Readied
    <2>3. stack' \in Stacks
        BY <2>1, <2>2, ArgsIn, YieldsIn
    <2>4. (\E host \in Answers : Pays(host)) /\ ret' = ret /\ UNCHANGED <<msg, code, jumpDests, status, left>>
        BY <1>1 DEF Dup, Goes
    <2> QED BY <2>2, <2>3, <2>4, Continues DEF Free
<1>2. CASE Swap
    <2>1. Starts({"SWAP"}) /\ stack' = [stack EXCEPT ![1] = Arg(N), ![N + 1] = Arg(0)]
        BY <1>2 DEF Swap
    <2>2. Ready /\ ~Overflows /\ Op = "SWAP" /\ ret \in Nat
        BY <2>1, Readied
    <2>3. Arg(N) \in StackWords /\ Arg(0) \in StackWords
        BY <2>2, ArgsIn
    <2>4. stack \in Stacks
        BY <2>2 DEF Ready, VmInv, TypeOK, Stacks, StackWords
    <2>5. PICK s \in Stacks : s = [stack EXCEPT ![1] = Arg(N)]
        BY <2>3, <2>4, ReplacedIn
    <2>6. stack' = [s EXCEPT ![N + 1] = Arg(0)]
        BY <2>1, <2>5
    <2>7. stack' \in Stacks
        BY <2>3, <2>6, ReplacedIn
    <2>8. (\E host \in Answers : Pays(host)) /\ ret' = ret /\ UNCHANGED <<msg, code, jumpDests, status, left>>
        BY <1>2 DEF Swap, Goes
    <2> QED BY <2>2, <2>7, <2>8, Continues DEF Free
<1>3. CASE Drop
    <2>1. Starts(Drops) /\ stack' = Adjusted
        BY <1>3 DEF Drop
    <2>2. Ready /\ ~Overflows /\ Op \in Drops /\ ret \in Nat
        BY <2>1, Readied
    <2>3. stack' \in Stacks
        BY <2>1, <2>2, AdjustedIn
    <2>4. Op \notin Free \ {"SSTORE"}
        BY <2>2 DEF Drops, Copies, Free
    <2>5. (\E host \in Answers : Pays(host)) /\ ret' = ret /\ UNCHANGED <<msg, code, jumpDests, status, left>>
        BY <1>3 DEF Drop, Goes
    <2> QED BY <2>2, <2>3, <2>4, <2>5, Continues
<1>4. CASE Jump
    <2>1. Starts({"JUMP", "JUMPI"}) /\ stack' = Adjusted
        BY <1>4 DEF Jump
    <2>2. Ready /\ ~Overflows /\ Op \in {"JUMP", "JUMPI"} /\ ret \in Nat
        BY <2>1, Readied
    <2>3. stack' \in Stacks
        BY <2>1, <2>2, AdjustedIn
    <2>4. (\E host \in Answers : Pays(host)) /\ ret' = ret /\ UNCHANGED <<msg, code, jumpDests, status, left>>
        BY <1>4 DEF Jump
    <2> QED BY <2>2, <2>3, <2>4, Continues DEF Free
<1> QED
    BY <1>1, <1>2, <1>3, <1>4

(* What the callee may leave of the gas it is given.                       *)
LEMMA LeftoversIn ==
    ASSUME Ready, NEW given \in Nat, given <= gas + 2300, NEW r \in Leftovers(given)
    PROVE  r \in Nat /\ r <= given
<1>1. msg \in Messages /\ msg.gas \in Nat /\ gas \in Nat /\ gas <= msg.gas
    BY EvmVmAssumption DEF Ready, VmInv, TypeOK
<1>2. given \in 0 .. msg.gas + 2300
    BY <1>1
<1>3. given \in UNION {0 .. m.gas + 2300 : m \in Messages}
    BY <1>1, <1>2
<1>4. Leftovers(given) \subseteq 0 .. given
    BY <1>3, EvmVmAssumption DEF Ready
<1> QED BY <1>4

LEMMA SixtyfourthIn ==
    ASSUME NEW g \in Nat
    PROVE  Sixtyfourth(g) \in Nat /\ Sixtyfourth(g) <= g
<1>1. g \div 64 \in Nat /\ g \div 64 <= g
    OBVIOUS
<1> QED BY <1>1 DEF Sixtyfourth

LEMMA OutputsIn ==
    ASSUME NEW r, r \in Outputs \/ r = 0
    PROVE  r \in Nat
<1>1. \A x \in Outputs : x \in Nat
    BY EvmVmAssumption
<1>2. CASE r \in Outputs
    BY <1>1, <1>2
<1>3. CASE r = 0
    BY <1>3
<1> QED BY <1>2, <1>3

LEMMA CreateCarries ==
    ASSUME VmInv, Create
    PROVE  Carried
<1>1. Starts({"CREATE", "CREATE2"})
    BY DEF Create
<1>2. Ready /\ ~Overflows /\ Op \in {"CREATE", "CREATE2"} /\ gas \in Nat
    BY <1>1, Readied
<1>3. PICK host \in Answers :
          LET paid == gas - total(host)
              given == Sixtyfourth(paid)
          IN /\ Affordable(host)
             /\ \/ /\ \E r \in Leftovers(given) : gas' = paid - (given - r)
                   /\ \E v \in Inputs \cup {0} : Yields(v)
                   /\ ret' \in Outputs
                \/ gas' = paid /\ Yields(0) /\ ret' = 0
    BY DEF Create
<1>4. PICK paid \in Nat : paid = gas - total(host) /\ paid < gas
    <2>1. Op \notin Free \ {"SSTORE"}
        BY <1>2 DEF Free
    <2>2. gas - total(host) \in 0 .. gas /\ gas - total(host) < gas
        BY <1>2, <1>3, <2>1, PaidIn
    <2> QED BY <1>2, <2>2
<1>5. PICK given \in Nat : given = Sixtyfourth(paid) /\ given <= paid
    BY SixtyfourthIn
<1>6. gas' \in Nat /\ gas' < gas
    <2>1. ASSUME NEW r \in Leftovers(given), gas' = paid - (given - r)
          PROVE  gas' \in Nat /\ gas' < gas
        <3>1. r \in Nat /\ r <= given
            BY <1>2, <1>4, <1>5, LeftoversIn
        <3> QED BY <1>2, <1>4, <1>5, <2>1, <3>1
    <2> QED BY <1>3, <1>4, <1>5, <2>1
<1>7. \E v \in Inputs \cup {0} : Yields(v)
    BY <1>3
<1>8. stack' \in Stacks
    <2>1. Inputs \cup {0} \subseteq StackWords
        BY WordModIs, EvmVmAssumption DEF StackWords
    <2> QED BY <1>2, <1>7, <2>1, YieldsIn
<1>9. ret' \in Nat
    <2>1. ret' \in Outputs \/ ret' = 0
        BY <1>3
    <2> QED BY <2>1, OutputsIn
<1>10. mem' = Larger(mem, m_newMemSize) /\ UNCHANGED <<msg, code, jumpDests, status, left>>
    BY DEF Create, Goes
<1> QED
    BY <1>6, <1>8, <1>9, <1>10 DEF Carried

LEMMA CallCarries ==
    ASSUME VmInv, Call
    PROVE  Carried
<1>1. Starts(Calls4)
    BY DEF Call
<1>2. Ready /\ ~Overflows /\ Op \in Calls4 /\ gas \in Nat
    BY <1>1, Readied
<1> DEFINE valued == HasValue /\ Arg(2) > 0
<1>3. PICK host \in Answers :
          LET paid == gas - total(host)
              share == IF Revision >= TangerineWhistle THEN Smaller(Arg(0), Sixtyfourth(paid)) ELSE Arg(0)
              given == share + (IF valued THEN 2300 ELSE 0)
          IN /\ Affordable(host) /\ share <= paid
             /\ \/ /\ \E r \in Leftovers(given) : gas' = paid - share + r
                   /\ \E v \in {0, 1} : Yields(v)
                   /\ ret' \in Outputs
                \/ valued /\ gas' = paid - share + given /\ Yields(0) /\ ret' = 0
    BY DEF Call
<1> HIDE DEF valued
<1>4. PICK paid \in Nat : paid = gas - total(host) /\ paid < gas /\ (valued => paid + 9000 <= gas)
    <2>1. Op \notin Free \ {"SSTORE"}
        BY <1>2 DEF Free, Calls4
    <2>2. gas - total(host) \in 0 .. gas /\ gas - total(host) < gas /\ total(host) \in 0 .. gas
        BY <1>2, <1>3, <2>1, PaidIn
    <2>3. valued => total(host) >= 9000
        BY <1>2, TotalIn DEF valued
    <2>4. PICK t \in Nat : t = total(host)
        BY <1>2, <2>2
    <2> QED BY <1>2, <2>2, <2>3, <2>4
<1>5. Arg(0) \in Nat
    <2>1. \A w \in StackWords : w \in Nat
        BY WordModIs DEF StackWords
    <2>2. HasValue \/ Op \in {"DELEGATECALL", "STATICCALL"}
        BY <1>2 DEF Calls4, HasValue
    <2>3. 0 \in 0 .. 6 /\ 0 \in 0 .. 5
        OBVIOUS
    <2>4. Arg(0) \in StackWords
        BY <1>2, <2>2, <2>3, ArgsIn, Zenon
    <2> QED BY <2>1, <2>4
<1>6. PICK share \in Nat :
          share = IF Revision >= TangerineWhistle THEN Smaller(Arg(0), Sixtyfourth(paid)) ELSE Arg(0)
    BY <1>5, SixtyfourthIn DEF Smaller
<1>7. PICK stipend \in {0, 2300} : stipend = (IF valued THEN 2300 ELSE 0) /\ (stipend = 2300 => valued)
    OBVIOUS
<1>8. PICK given \in Nat : given = share + stipend
    OBVIOUS
<1>9. /\ share <= paid
      /\ \/ /\ \E r \in Leftovers(given) : gas' = paid - share + r
            /\ \E v \in {0, 1} : Yields(v)
            /\ ret' \in Outputs
         \/ gas' = paid - share + given /\ Yields(0) /\ ret' = 0
    BY <1>3, <1>4, <1>6, <1>7, <1>8
<1>10. gas' \in Nat /\ gas' < gas
    <2>1. paid + stipend < gas /\ share <= paid
        BY <1>2, <1>4, <1>7, <1>9
    <2>2. ASSUME NEW r \in Nat, r <= given, gas' = paid - share + r
          PROVE  gas' \in Nat /\ gas' < gas
        BY <1>2, <1>7, <1>8, <2>1, <2>2
    <2>3. CASE gas' = paid - share + given
        BY <2>2, <2>3
    <2>4. CASE \E r \in Leftovers(given) : gas' = paid - share + r
        <3>1. PICK r \in Leftovers(given) : gas' = paid - share + r
            BY <2>4
        <3>2. given <= gas + 2300
            BY <1>2, <1>4, <1>7, <1>8, <1>9
        <3>3. r \in Nat /\ r <= given
            BY <1>2, <3>2, LeftoversIn
        <3> QED BY <2>2, <3>1, <3>3
    <2> QED BY <1>9, <2>3, <2>4
<1>11. stack' \in Stacks
    <2>1. 0 \in StackWords /\ 1 \in StackWords
        BY WordModIs DEF StackWords
    <2>2. \E v \in {0, 1} : Yields(v)
        BY <1>9
    <2> QED BY <1>2, <2>1, <2>2, YieldsIn
<1>12. ret' \in Nat
    <2>1. ret' \in Outputs \/ ret' = 0
        BY <1>9
    <2> QED BY <2>1, OutputsIn
<1>13. mem' = Larger(mem, m_newMemSize) /\ UNCHANGED <<msg, code, jumpDests, status, left>>
    BY DEF Call, Goes
<1> QED
    BY <1>10, <1>11, <1>12, <1>13 DEF Carried

-----------------------------------------------------------------------------
(* The memory an instruction reaches.                                      *)

LEMMA AreasAre ==
    /\ Op \in {"MLOAD", "MSTORE"} => Areas = {<<Arg(0), 32>>}
    /\ Op = "MSTORE8" => Areas = {<<Arg(0), 1>>}
    /\ Op \in {"SHA3", "LOG", "RETURN", "REVERT"} => Areas = {<<Arg(0), Arg(1)>>}
    /\ Op \in {"CALLDATACOPY", "CODECOPY", "RETURNDATACOPY"} => Areas = {<<Arg(0), Arg(2)>>}
    /\ Op = "EXTCODECOPY" => Areas = {<<Arg(1), Arg(3)>>}
    /\ Op \in {"CREATE", "CREATE2"} => Areas = {<<Arg(1), Arg(2)>>}
    /\ Op \in {"CALL", "CALLCODE"} => Areas = {<<Arg(3), Arg(4)>>, <<Arg(5), Arg(6)>>}
    /\ Op \in {"DELEGATECALL", "STATICCALL"} => Areas = {<<Arg(2), Arg(3)>>, <<Arg(4), Arg(5)>>}
    /\ Op \notin {"MLOAD", "MSTORE", "MSTORE8", "SHA3", "LOG", "RETURN", "REVERT", "CALLDATACOPY", "CODECOPY",
                  "RETURNDATACOPY", "EXTCODECOPY", "CREATE", "CREATE2", "CALL", "CALLCODE", "DELEGATECALL", "STATICCALL"}
          => Areas = {}
<1>1. Op \in {"MLOAD", "MSTORE"} => Areas = {<<Arg(0), 32>>}
    BY DEF Areas
<1>2. Op = "MSTORE8" => Areas = {<<Arg(0), 1>>}
    BY DEF Areas
<1>3. Op \in {"SHA3", "LOG", "RETURN", "REVERT"} => Areas = {<<Arg(0), Arg(1)>>}
    BY DEF Areas
<1>4. Op \in {"CALLDATACOPY", "CODECOPY", "RETURNDATACOPY"} => Areas = {<<Arg(0), Arg(2)>>}
    BY DEF Areas
<1>5. Op = "EXTCODECOPY" => Areas = {<<Arg(1), Arg(3)>>}
    BY DEF Areas
<1>6. Op \in {"CREATE", "CREATE2"} => Areas = {<<Arg(1), Arg(2)>>}
    BY DEF Areas
<1>7. Op \in {"CALL", "CALLCODE"} => Areas = {<<Arg(3), Arg(4)>>, <<Arg(5), Arg(6)>>}
    BY DEF Areas
<1>8. Op \in {"DELEGATECALL", "STATICCALL"} => Areas = {<<Arg(2), Arg(3)>>, <<Arg(4), Arg(5)>>}
    BY DEF Areas
<1>9. Op \notin {"MLOAD", "MSTORE", "MSTORE8", "SHA3", "LOG", "RETURN", "REVERT", "CALLDATACOPY", "CODECOPY",
                 "RETURNDATACOPY", "EXTCODECOPY", "CREATE", "CREATE2", "CALL", "CALLCODE", "DELEGATECALL", "STATICCALL"}
          => Areas = {}
    BY DEF Areas
<1> QED BY <1>1, <1>2, <1>3, <1>4, <1>5, <1>6, <1>7, <1>8, <1>9

(* An area lies below what the instruction says it needs.                  *)
Below(area, end) == area[1] \in Nat /\ area[2] \in Nat /\ (area[2] > 0 => area[1] + area[2] <= end)

LEMMA AreasIn ==
    ASSUME Ready, NEW area \in Areas
    PROVE  Below(area, need)
<1>1. \A w \in StackWords : w \in Nat
    BY WordModIs DEF StackWords
<1>2. \A o, s \in StackWords : Below(<<o, s>>, memNeed(o, s)) /\ memNeed(o, s) \in Nat
    BY <1>1 DEF Below, memNeed
<1>3. CASE Op \in {"MLOAD", "MSTORE"}
    <2>1. Arg(0) \in Nat
        BY <1>1, <1>3, ArgsIn DEF Reads1, Reads2
    <2>2. area = <<Arg(0), 32>> /\ need = Arg(0) + 32
        BY <1>3, AreasAre, Needs
    <2> QED BY <2>1, <2>2 DEF Below
<1>4. CASE Op = "MSTORE8"
    <2>1. Arg(0) \in Nat
        BY <1>1, <1>4, ArgsIn DEF Reads2
    <2>2. area = <<Arg(0), 1>> /\ need = Arg(0) + 1
        BY <1>4, AreasAre, Needs
    <2> QED BY <2>1, <2>2 DEF Below
<1>5. CASE Op \in {"SHA3", "LOG", "RETURN", "REVERT"}
    <2>1. Arg(0) \in StackWords /\ Arg(1) \in StackWords
        BY <1>5, ArgsIn DEF Reads2
    <2>2. area = <<Arg(0), Arg(1)>> /\ need = memNeed(Arg(0), Arg(1))
        BY <1>5, AreasAre, Needs
    <2> QED BY <1>2, <2>1, <2>2
<1>6. CASE Op \in {"CALLDATACOPY", "CODECOPY", "RETURNDATACOPY"}
    <2>1. Arg(0) \in StackWords /\ Arg(2) \in StackWords
        BY <1>6, ArgsIn DEF Reads3
    <2>2. area = <<Arg(0), Arg(2)>> /\ need = memNeed(Arg(0), Arg(2))
        BY <1>6, AreasAre, Needs DEF Copies
    <2> QED BY <1>2, <2>1, <2>2
<1>7. CASE Op = "EXTCODECOPY"
    <2>1. Arg(1) \in StackWords /\ Arg(3) \in StackWords
        BY <1>7, ArgsIn DEF Reads4
    <2>2. area = <<Arg(1), Arg(3)>> /\ need = memNeed(Arg(1), Arg(3))
        BY <1>7, AreasAre, Needs
    <2> QED BY <1>2, <2>1, <2>2
<1>8. CASE Op \in {"CREATE", "CREATE2"}
    <2>1. Arg(1) \in StackWords /\ Arg(2) \in StackWords
        BY <1>8, ArgsIn DEF Reads3, Reads4
    <2>2. area = <<Arg(1), Arg(2)>> /\ need = memNeed(Arg(1), Arg(2))
        BY <1>8, AreasAre, Needs
    <2> QED BY <1>2, <2>1, <2>2
<1>9. \A o, s, p, t \in StackWords :
          LET n == Larger(memNeed(o, s), memNeed(p, t))
          IN  Below(<<o, s>>, n) /\ Below(<<p, t>>, n)
    <2> TAKE o, s, p, t \in StackWords
    <2>1. PICK m \in Nat : m = memNeed(o, s) /\ Below(<<o, s>>, m)
        BY <1>2
    <2>2. PICK n \in Nat : n = memNeed(p, t) /\ Below(<<p, t>>, n)
        BY <1>2
    <2>3. PICK l \in Nat : l = Larger(m, n) /\ l >= m /\ l >= n
        BY DEF Larger
    <2>4. o \in Nat /\ s \in Nat /\ p \in Nat /\ t \in Nat
        BY <1>1
    <2>5. Below(<<o, s>>, l) /\ Below(<<p, t>>, l)
        BY <2>1, <2>2, <2>3, <2>4 DEF Below
    <2> QED BY <2>1, <2>2, <2>3, <2>5
<1>10. CASE Op \in {"CALL", "CALLCODE"}
    <2>1. Sizes = 3 /\ HasValue /\ Op \in Calls4
        BY <1>10 DEF Sizes, HasValue, Calls4
    <2>2. \A i \in 0 .. 6 : Arg(i) \in StackWords
        BY <2>1, ArgsIn
    <2>3. need = Larger(memNeed(Arg(3), Arg(4)), memNeed(Arg(5), Arg(6)))
        <3>1. need = Larger(memNeed(Arg(Sizes), Arg(Sizes + 1)), memNeed(Arg(Sizes + 2), Arg(Sizes + 3)))
            BY <2>1, Needs
        <3>2. Sizes + 1 = 4 /\ Sizes + 2 = 5 /\ Sizes + 3 = 6
            BY <2>1
        <3> QED BY <2>1, <3>1, <3>2
    <2>4. area \in {<<Arg(3), Arg(4)>>, <<Arg(5), Arg(6)>>}
        BY <1>10, AreasAre
    <2>5. Arg(3) \in StackWords /\ Arg(4) \in StackWords /\ Arg(5) \in StackWords /\ Arg(6) \in StackWords
        <3>1. 3 \in 0 .. 6 /\ 4 \in 0 .. 6 /\ 5 \in 0 .. 6 /\ 6 \in 0 .. 6
            OBVIOUS
        <3> QED BY <2>2, <3>1, Zenon
    <2> QED BY <1>9, <2>3, <2>4, <2>5, Zenon
<1>11. CASE Op \in {"DELEGATECALL", "STATICCALL"}
    <2>1. Sizes = 2 /\ Op \in Calls4
        BY <1>11 DEF Sizes, HasValue, Calls4
    <2>2. \A i \in 0 .. 5 : Arg(i) \in StackWords
        BY <1>11, ArgsIn
    <2>3. need = Larger(memNeed(Arg(2), Arg(3)), memNeed(Arg(4), Arg(5)))
        <3>1. need = Larger(memNeed(Arg(Sizes), Arg(Sizes + 1)), memNeed(Arg(Sizes + 2), Arg(Sizes + 3)))
            BY <2>1, Needs
        <3>2. Sizes + 1 = 3 /\ Sizes + 2 = 4 /\ Sizes + 3 = 5
            BY <2>1
        <3> QED BY <2>1, <3>1, <3>2
    <2>4. area \in {<<Arg(2), Arg(3)>>, <<Arg(4), Arg(5)>>}
        BY <1>11, AreasAre
    <2>5. Arg(2) \in StackWords /\ Arg(3) \in StackWords /\ Arg(4) \in StackWords /\ Arg(5) \in StackWords
        <3>1. 2 \in 0 .. 5 /\ 3 \in 0 .. 5 /\ 4 \in 0 .. 5 /\ 5 \in 0 .. 5
            OBVIOUS
        <3> QED BY <2>2, <3>1, Zenon
    <2> QED BY <1>9, <2>3, <2>4, <2>5, Zenon
<1> QED
    BY <1>3, <1>4, <1>5, <1>6, <1>7, <1>8, <1>10, <1>11, AreasAre

LEMMA CopiedIn ==
    ASSUME Ready, Op \in Copies \ {"EXTCODECOPY"}
    PROVE  LET copied == sizeToBeCopied(Arg(1), Arg(2), Source)
           IN  copied \in 0 .. Arg(2) /\ (copied > 0 => Arg(1) + copied <= Source)
<1>1. PICK index \in Nat : index = Arg(1)
    <2>1. Arg(1) \in StackWords
        BY ArgsIn DEF Copies, Reads3
    <2> QED BY <2>1, WordModIs DEF StackWords
<1>2. PICK size \in Nat : size = Arg(2)
    <2>1. Arg(2) \in StackWords
        BY ArgsIn DEF Copies, Reads3
    <2> QED BY <2>1, WordModIs DEF StackWords
<1>3. PICK source \in Nat : source = Source
    <2>1. msg \in Messages /\ ret \in Nat
        BY DEF Ready, VmInv, TypeOK
    <2>2. msg.data \in Nat /\ Len(msg.code) \in Nat
        BY <2>1, EvmVmAssumption
    <2> QED BY <2>1, <2>2 DEF Source
<1>4. sizeToBeCopied(index, size, source) \in 0 .. size
    BY DEF sizeToBeCopied
<1>5. sizeToBeCopied(index, size, source) > 0 => index + sizeToBeCopied(index, size, source) <= source
    BY DEF sizeToBeCopied
<1> QED
    BY <1>1, <1>2, <1>3, <1>4, <1>5

-----------------------------------------------------------------------------
(* The steps of the interpreter.                                           *)

Failures == Ends \ {"success", "revert"}

(* A step enters the message, fails it, carries on or ends it.              *)
LEMMA StepsOf ==
    ASSUME VmInv, Next
    PROVE  \/ initEntry
           \/ status = "run" /\ \E reason \in Failures : Fails(reason)
           \/ Ready /\ Carried
           \/ Halt
<1>1. CASE throwBadStack
    BY <1>1 DEF throwBadStack, Failures, Ends
<1>2. CASE throwBadInstruction
    BY <1>2 DEF throwBadInstruction, Failures, Ends
<1>3. CASE throwBufferOverrun
    BY <1>3 DEF throwBufferOverrun, Starts, Failures, Ends
<1>4. CASE throwOutOfGas
    BY <1>4 DEF throwOutOfGas, Starts, Failures, Ends
<1>5. CASE throwBadJumpDestination
    BY <1>5 DEF throwBadJumpDestination, Starts, Failures, Ends
<1>6. ASSUME NEW names, Starts(names)
      PROVE  Ready
    BY <1>6, Readied
<1>7. CASE Compute
    BY <1>6, <1>7, ComputeCarries DEF Compute
<1>8. CASE Query
    BY <1>6, <1>8, QueryCarries DEF Query
<1>9. CASE Tell
    BY <1>6, <1>9, TellCarries DEF Tell
<1>10. CASE Push
    BY <1>6, <1>10, PushCarries DEF Push
<1>11. CASE Dup
    BY <1>6, <1>11, ShuffleCarries DEF Dup
<1>12. CASE Swap
    BY <1>6, <1>12, ShuffleCarries DEF Swap
<1>13. CASE Drop
    BY <1>6, <1>13, ShuffleCarries DEF Drop
<1>14. CASE Jump
    BY <1>6, <1>14, ShuffleCarries DEF Jump
<1>15. CASE Create
    BY <1>6, <1>15, CreateCarries DEF Create
<1>16. CASE Call
    BY <1>6, <1>16, CallCarries DEF Call
<1> QED
    BY <1>1, <1>2, <1>3, <1>4, <1>5, <1>7, <1>8, <1>9, <1>10, <1>11, <1>12, <1>13, <1>14, <1>15, <1>16 DEF Next

LEMMA HaltIn ==
    ASSUME VmInv, Halt
    PROVE  /\ Ready /\ mem' = Larger(mem, m_newMemSize)
           /\ gas' \in Nat /\ gas' <= gas /\ left' = gas' /\ status' \in {"success", "revert"}
           /\ UNCHANGED <<msg, code, jumpDests, pc, row, stack, ret>>
<1>1. Starts({"STOP", "RETURN", "REVERT", "SELFDESTRUCT"})
    BY DEF Halt
<1>2. Ready /\ gas \in Nat
    BY <1>1, Readied
<1>3. PICK host \in Answers : Pays(host)
    BY DEF Halt
<1>4. Affordable(host) /\ gas' = gas - total(host) /\ mem' = Larger(mem, m_newMemSize)
    BY <1>3 DEF Pays
<1>5. gas - total(host) \in 0 .. gas
    BY <1>2, <1>4, PaidIn
<1>6. gas' \in Nat /\ gas' <= gas
    BY <1>2, <1>4, <1>5
<1>7. left' = gas' /\ status' \in {"success", "revert"} /\ UNCHANGED <<msg, code, jumpDests, pc, row, stack, ret>>
    BY DEF Halt
<1> QED
    BY <1>2, <1>4, <1>6, <1>7

LEMMA VmInvStep ==
    ASSUME VmInv, [Next]_vars
    PROVE  VmInv'
<1>1. CodeInv'
    BY EvmVmAssumption, CodeInvStep DEF VmInv
<1>2. /\ msg \in Messages /\ code \in Seq(Bytes) /\ jumpDests \subseteq Nat
      /\ pc \in Nat /\ mem \in Nat /\ ret \in Nat
      /\ stack \in Seq(0 .. WordMod - 1) /\ Len(stack) <= StackLimit
      /\ gas \in 0 .. msg.gas /\ left \in 0 .. gas
      /\ status \in {"entry", "run"} \cup Ends
      /\ Whole(mem) /\ (status \in {"entry", "run"} => left = 0)
    BY DEF VmInv, TypeOK
<1>3. msg.gas \in Nat /\ msg.code \in Seq(Bytes) /\ gas \in Nat
    <2>1. msg.gas \in Nat /\ msg.code \in Seq(Bytes)
        BY <1>2, EvmVmAssumption
    <2> QED BY <1>2, <2>1
<1>4. CASE initEntry
    <2>1. /\ code' = optimize(msg.code).code /\ jumpDests' = optimize(msg.code).dests /\ status' = "run"
          /\ status = "entry" /\ UNCHANGED <<msg, pc, stack, gas, mem, ret, left>>
        BY <1>4 DEF initEntry
    <2>2. optimize(msg.code) \in Scans(Len(msg.code)) /\ Len(msg.code) \in Nat
        BY <1>3, Optimized DEF Scanned
    <2>3. code' \in [1 .. Len(msg.code) + 33 -> Bytes] /\ jumpDests' \subseteq Nat
        BY <2>1, <2>2 DEF Scans
    <2>4. code' \in Seq(Bytes)
        BY <2>2, <2>3
    <2>5. /\ msg' \in Messages /\ pc' \in Nat /\ mem' \in Nat /\ ret' \in Nat
          /\ stack' \in Seq(0 .. WordMod - 1) /\ Len(stack') <= StackLimit
          /\ gas' \in 0 .. msg'.gas /\ left' \in 0 .. gas' /\ Whole(mem') /\ left' = 0
        BY <1>2, <2>1
    <2>6. TypeOK'
        BY <2>1, <2>3, <2>4, <2>5 DEF TypeOK
    <2> QED
        BY <1>1, <2>5, <2>6 DEF VmInv
<1>5. ASSUME NEW reason \in Failures, Fails(reason)
      PROVE  VmInv'
    <2>1. /\ status' \in Ends /\ status' \notin {"entry", "run"} /\ left' = 0
          /\ UNCHANGED <<msg, code, jumpDests, pc, row, stack, gas, mem, ret>>
        BY <1>5 DEF Fails, Failures, Ends
    <2>2. left' \in 0 .. gas'
        BY <1>3, <2>1
    <2>3. TypeOK'
        BY <1>2, <2>1, <2>2 DEF TypeOK
    <2>4. Whole(mem')
        BY <1>2, <2>1
    <2> QED
        BY <1>1, <2>1, <2>3, <2>4 DEF VmInv
<1>6. CASE Ready /\ Carried
    <2>1. /\ stack' \in Stacks /\ gas' \in Nat /\ gas' < gas /\ ret' \in Nat /\ mem' = Larger(mem, m_newMemSize)
          /\ UNCHANGED <<msg, code, jumpDests, status, left>> /\ status = "run"
        BY <1>6 DEF Carried, Ready
    <2>2. mem' \in Nat /\ Whole(mem')
        BY <1>6, <2>1, GrownIn
    <2>3. pc' \in Nat
        <3>1. pc' \in StartsOf(msg'.code)
            BY <1>1, <2>1 DEF CodeInv
        <3>2. StartsOf(msg.code) \subseteq Nat
            BY <1>3, Optimized DEF Scanned
        <3> QED BY <2>1, <3>1, <3>2
    <2>4. stack' \in Seq(0 .. WordMod - 1) /\ Len(stack') <= StackLimit
        BY <2>1 DEF Stacks, StackWords
    <2>5. gas' \in 0 .. msg'.gas /\ left' \in 0 .. gas' /\ left' = 0
        BY <1>2, <1>3, <2>1
    <2>6. TypeOK'
        BY <1>2, <2>1, <2>2, <2>3, <2>4, <2>5 DEF TypeOK
    <2> QED
        BY <1>1, <2>2, <2>5, <2>6 DEF VmInv
<1>7. CASE Halt
    <2>1. /\ Ready /\ mem' = Larger(mem, m_newMemSize)
          /\ gas' \in Nat /\ gas' <= gas /\ left' = gas' /\ status' \in {"success", "revert"}
          /\ UNCHANGED <<msg, code, jumpDests, pc, row, stack, ret>>
        BY <1>7, HaltIn
    <2>2. mem' \in Nat /\ Whole(mem')
        BY <2>1, GrownIn
    <2>3. gas' \in 0 .. msg'.gas /\ left' \in 0 .. gas'
        BY <1>2, <1>3, <2>1
    <2>4. status' \in Ends /\ status' \notin {"entry", "run"}
        BY <2>1 DEF Ends
    <2>5. TypeOK'
        BY <1>2, <2>1, <2>2, <2>3, <2>4 DEF TypeOK
    <2> QED
        BY <1>1, <2>2, <2>4, <2>5 DEF VmInv
<1>8. CASE UNCHANGED vars
    <2>1. UNCHANGED <<msg, code, jumpDests, pc, row, stack, gas, mem, ret, status, left>>
        BY <1>8 DEF vars
    <2>2. TypeOK' /\ Whole(mem') /\ (status' \in {"entry", "run"} => left' = 0)
        BY <1>2, <2>1 DEF TypeOK
    <2> QED
        BY <1>1, <2>2 DEF VmInv
<1> QED
    BY <1>4, <1>5, <1>6, <1>7, <1>8, StepsOf

LEMMA VmInvAlways == Spec => []VmInv
<1>1. Init => VmInv
    <2> SUFFICES ASSUME Init
                 PROVE  VmInv
        OBVIOUS
    <2>1. CodeInv
        BY DEF Init, CodeInv
    <2>2. msg \in Messages /\ msg.gas \in Nat /\ StackLimit \in Nat
        BY EvmVmAssumption DEF Init
    <2>3. Whole(mem)
        BY DEF Init, Whole
    <2>4. stack \in Seq(0 .. WordMod - 1) /\ Len(stack) <= StackLimit
        BY <2>2 DEF Init
    <2>5. TypeOK
        BY <2>2, <2>4 DEF Init, TypeOK
    <2> QED
        BY <2>1, <2>3, <2>5 DEF VmInv, Init
<1>2. VmInv /\ [Next]_vars => VmInv'
    BY VmInvStep
<1> QED
    BY <1>1, <1>2, PTL DEF Spec

(* Whatever the program, the message and the host: the stack holds words    *)
(* and keeps within its array, and neither the gas that is left between     *)
(* two instructions nor the gas the result gives back exceeds what the      *)
(* message brought.                                                        *)
THEOREM VmTyped == Spec => []TypeOK
<1>1. VmInv => TypeOK
    BY DEF VmInv
<1> QED
    BY <1>1, VmInvAlways, PTL

(* Every instruction that does not end the message takes gas, also a call   *)
(* whose stipend comes back: the gas of the message bounds the number of    *)
(* instructions.                                                           *)
THEOREM StepsCost == Spec => EveryStepCosts
<1>1. ASSUME VmInv, [Next]_vars
      PROVE  [status = "run" /\ status' = "run" => gas' < gas]_vars
    <2>1. CASE initEntry
        BY <2>1 DEF initEntry
    <2>2. CASE \E reason \in Failures : Fails(reason)
        BY <2>2 DEF Fails, Failures, Ends
    <2>3. CASE Carried
        BY <2>3 DEF Carried
    <2>4. CASE Halt
        BY <2>4 DEF Halt
    <2> QED
        BY <1>1, <2>1, <2>2, <2>3, <2>4, StepsOf
<1> QED
    BY <1>1, VmInvAlways, PTL DEF Spec, EveryStepCosts

(* An instruction that is carried out has grown the memory, in whole words, *)
(* over every area it touches, and copies nothing from behind the end of    *)
(* its source.                                                             *)
THEOREM MemoryCovers == Spec => MemoryCoversAccess
<1> DEFINE Covered ==
               /\ mem' % 32 = 0 /\ mem' >= mem
               /\ \A area \in Areas : area[2] > 0 => area[1] + area[2] <= mem'
               /\ Op \in Copies \ {"EXTCODECOPY"} =>
                     LET copied == sizeToBeCopied(Arg(1), Arg(2), Source)
                     IN copied \in 0 .. Arg(2) /\ (copied > 0 => Arg(1) + copied <= Source)
<1>1. ASSUME Ready, mem' = Larger(mem, m_newMemSize)
      PROVE  Covered
    <2>1. mem' \in Nat /\ Whole(mem') /\ mem' >= mem /\ mem' >= need /\ need \in Nat
        BY <1>1, GrownIn, NeedIn
    <2>2. mem' % 32 = 0
        BY <2>1 DEF Whole
    <2>3. ASSUME NEW area \in Areas, area[2] > 0
          PROVE  area[1] + area[2] <= mem'
        <3>1. area[1] \in Nat /\ area[2] \in Nat /\ area[1] + area[2] <= need
            BY <1>1, <2>3, AreasIn DEF Below
        <3> QED BY <2>1, <3>1
    <2> QED
        BY <1>1, <2>1, <2>2, <2>3, CopiedIn
<1>2. ASSUME VmInv, [Next]_vars
      PROVE  [status = "run" /\ status' \in {"run", "success", "revert"} => Covered]_vars
    <2> HIDE DEF Covered
    <2>1. CASE initEntry
        BY <2>1 DEF initEntry
    <2>2. CASE \E reason \in Failures : Fails(reason)
        BY <2>2 DEF Fails, Failures, Ends
    <2>3. CASE Ready /\ Carried
        BY <1>1, <2>3 DEF Carried
    <2>4. CASE Halt
        BY <1>1, <1>2, <2>4, HaltIn
    <2> QED
        BY <1>2, <2>1, <2>2, <2>3, <2>4, StepsOf
<1> QED
    BY <1>2, VmInvAlways, PTL DEF Spec, MemoryCoversAccess
=============================================================================
