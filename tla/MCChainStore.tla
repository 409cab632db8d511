----------------------------- MODULE MCChainStore ----------------------------
(***************************************************************************)
(* ChainStore on a tree of three branches.  The a-branch grows three blocks*)
(* long.  c2 forks off a1 and outweighs a2, its rival at the same height;  *)
(* a3 makes the a-branch heavier again; the b-branch forks off genesis and *)
(* is with two blocks heavier than the a-branch with three.  So the main   *)
(* chain is replaced at the same height, by a branch it was replaced with  *)
(* before, and by a shorter branch.                                        *)
(***************************************************************************)
EXTENDS ChainStore, TLC

CONSTANTS g, a1, a2, a3, b1, b2, c2

MCBlocks == {g, a1, a2, a3, b1, b2, c2}

MCParent ==
    g :> g @@ a1 :> g @@ a2 :> a1 @@ a3 :> a2 @@ b1 :> g @@ b2 :> b1 @@ c2 :> a1

MCNumber ==
    g :> 0 @@ a1 :> 1 @@ a2 :> 2 @@ a3 :> 3 @@ b1 :> 1 @@ b2 :> 2 @@ c2 :> 2

MCTotalDifficulty ==
    g :> 1 @@ a1 :> 2 @@ a2 :> 3 @@ a3 :> 5 @@ b1 :> 2 @@ b2 :> 6 @@ c2 :> 4

==============================================================================
