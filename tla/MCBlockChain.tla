---------------------------- MODULE MCBlockChain ----------------------------
(***************************************************************************)
(* Three branches start at a1: a2, the heavier b2, b3, and x2, x3, which do *)
(* not execute and of which x2 claims the state of a2.  One state is kept   *)
(* in memory, so that a1 is pruned when its children are there.             *)
(***************************************************************************)
EXTENDS BlockChain

CONSTANTS g, a1, a2, b2, b3, x2, x3

MCBlocks == {g, a1, a2, b2, b3, x2, x3}

MCParent == a1 :> g @@ a2 :> a1 @@ b2 :> a1 @@ b3 :> b2 @@ x2 :> a1 @@ x3 :> x2

MCDifficulty == [b \in MCBlocks |-> 1]

MCRoot == [b \in MCBlocks |-> IF b = x2 THEN a2 ELSE b]

MCNetworks ==
  {[fast |-> FALSE, blocks |-> {<<a1>>, <<a1, a2>>, <<b2, b3>>, <<b3>>}, headers |-> {}],
   [fast |-> FALSE, blocks |-> {<<a1, a2>>, <<b2>>, <<x2, x3>>}, headers |-> {}],
   [fast |-> TRUE, blocks |-> {<<a2>>}, headers |-> {<<a1>>, <<b2>>}],
   [fast |-> TRUE, blocks |-> {<<b3>>}, headers |-> {<<a1, a2>>, <<b2>>}],
   [fast |-> TRUE, blocks |-> {}, headers |-> {<<a1, a2>>, <<b2, b3>>, <<b3>>}]}
====
