------------------------------ MODULE ForkChoice -----------------------------
(***************************************************************************)
(* What the chain store promises its callers, without tables, caches,      *)
(* mailboxes or crashes: a set of known blocks and a head.  Any block can  *)
(* be kept; one that outweighs the head becomes the head, if all it is     *)
(* built on is known (of two that weigh the same the earlier one is head); *)
(* and the only thing the store may forget are the side branches, all at   *)
(* once.                                                                   *)
(***************************************************************************)
EXTENDS BlockTree

VARIABLES
    known,      \* blocks the store holds
    head        \* the tip of the main chain

vars == <<known, head>>

Init ==
    /\ known = {Genesis}
    /\ head = Genesis

Accept(b) ==
    /\ b \notin known
    /\ known' = known \cup {b}
    /\ \/ /\ TotalDifficulty[b] <= TotalDifficulty[head]
          /\ UNCHANGED head
       \/ /\ TotalDifficulty[b] > TotalDifficulty[head]
          /\ Lineage[b] \ {b} \subseteq known
          /\ head' = b

ForgetSideBranches ==
    /\ known' = Lineage[head]
    /\ UNCHANGED head

Next ==
    \/ \E b \in Blocks \ {Genesis} : Accept(b)
    \/ ForgetSideBranches

Spec == Init /\ [][Next]_vars

==============================================================================
