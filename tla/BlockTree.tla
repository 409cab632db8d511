------------------------------ MODULE BlockTree ------------------------------
(***************************************************************************)
(* Blocks as the chain store sees them.  A block is identified by its hash,*)
(* and the hash of a block commits to its whole header: its parent         *)
(* (previous_block), its number and its accumulated difficulty never       *)
(* change.  They are therefore constant functions of the block, and the    *)
(* blocks that can be offered to the node form a constant tree.            *)
(***************************************************************************)
EXTENDS Integers, FiniteSets

CONSTANTS
    Blocks,             \* every block that can be offered to the node
    Genesis,            \* Chain.GenesisFactory.testnet()
    Parent,             \* Block.parent_hash
    Number,             \* Block.number
    TotalDifficulty     \* Block.total_difficulty: the weight of the branch

(***************************************************************************)
(* Block.validate accepts only a block whose number is that of its parent  *)
(* plus one; a difficulty is at least one, so branches get heavier.        *)
(* The weight is taken as the block's own: the code sums it from the parent*)
(* the cache holds, so a block taken while its parent is gone could be     *)
(* weighed anew, which is not modelled.                                    *)
(***************************************************************************)
ASSUME BlockTreeAssumption ==
    /\ Genesis \in Blocks
    /\ Parent \in [Blocks -> Blocks]
    /\ Number \in [Blocks -> Nat]
    /\ TotalDifficulty \in [Blocks -> Nat]
    /\ Number[Genesis] = 0
    /\ \A b \in Blocks \ {Genesis} :
          /\ Number[b] = Number[Parent[b]] + 1
          /\ TotalDifficulty[b] > TotalDifficulty[Parent[b]]

(* A set of blocks that, with a block, holds all it is built on.           *)
ParentClosed(S) == \A b \in S \ {Genesis} : Parent[b] \in S

ClosedSets == {S \in SUBSET Blocks : ParentClosed(S)}

(***************************************************************************)
(* Lineage[b]: b and its ancestors down to genesis, the least parent-closed*)
(* set that holds b.  It is what the recursive queries of ChainSql         *)
(* (parents_of) and the stream Chain.blocks(hash) enumerate.               *)
(***************************************************************************)
Lineage ==
    [b \in Blocks |-> {c \in Blocks : \A S \in ClosedSets : b \in S => c \in S}]

==============================================================================
