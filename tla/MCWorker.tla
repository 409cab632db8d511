------------------------------- MODULE MCWorker -------------------------------
(***************************************************************************)
(* Worker with two transactions, one that pays the minimum fee and its     *)
(* successor, which does not.  The window is scaled to four blocks, the    *)
(* first three of p.  This node mined the two blocks before the origin, so *)
(* that it may mine one more and then not the next; after a block of p it  *)
(* may, since p makes its block final; after one of q it may not, since    *)
(* the final window has been left.                                         *)
(***************************************************************************)
EXTENDS Worker

CONSTANTS first, cheap, self, p, q

MCPeers == {p, q}
MCRecent == <<p, p, p, q, q, self, self>>
MCFinal0 == -3

MCNonce == [t \in Txs |-> IF t = first THEN 0 ELSE 1]
MCPrice == [t \in Txs |-> IF t = first THEN 1 ELSE 0]

==============================================================================
