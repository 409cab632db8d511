------------------------------ MODULE MCEvmHost ------------------------------
(***************************************************************************)
(* Instances of EvmHost for TLC.  a and b are contracts, o sends the        *)
(* transactions, n is where a contract creation leads, pre is precompiled. *)
(* Both keys of an account hash to the same place, which moves when the     *)
(* table grows, and a table is full with one entry.                        *)
(***************************************************************************)
EXTENDS EvmHost

CONSTANTS a, b, n, o, pre

MCAddrs == {a, b, n, o, pre}
MCKeys == {"x", "y"}
MCMapKeys == MCAddrs \X MCKeys
MCHash == [k \in MCMapKeys |-> IF k[1] = a THEN 7 ELSE 1]
Account(live, code, bal, x, y) ==
    [live |-> live, code |-> code, bal |-> bal, slots |-> [k \in MCKeys |-> IF k = "x" THEN x ELSE y]]
MCWorld ==
    (a :> Account(TRUE, TRUE, 0, 1, 0)) @@ (b :> Account(TRUE, TRUE, 0, 1, 1))
    @@ (n :> Account(FALSE, FALSE, 0, 0, 0)) @@ (o :> Account(TRUE, FALSE, 1, 0, 0))
    @@ (pre :> Account(FALSE, FALSE, 0, 0, 0))
Loads(key) == [op |-> "load", key |-> key]
Stores(key, val) == [op |-> "store", key |-> key, val |-> val]
Calls(kind, to, value) == [op |-> "call", kind |-> kind, to |-> to, value |-> value]
Logs(topics) == [op |-> "log", topics |-> topics]
MCDoes ==
    (a :> {Loads("x"), Stores("x", 0), Stores("x", 1), Stores("y", 1),
           Calls("call", b, 0), Calls("call", pre, 1), Calls("delegate", b, 0), Calls("create", n, 0)})
    @@ (b :> {Loads("x"), Stores("x", 0), Calls("call", a, 0), Calls("callcode", a, 1),
              [op |-> "query", beyond |-> FALSE], [op |-> "query", beyond |-> TRUE], Logs(0), Logs(1)})
    @@ (n :> {Stores("y", 1)}) @@ (o :> {}) @@ (pre :> {})
=============================================================================
