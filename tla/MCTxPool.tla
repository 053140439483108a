------------------------------ MODULE MCTxPool ------------------------------
(***************************************************************************)
(* Two accounts; alice has three nonces, one with a second, dearer         *)
(* transaction; bob has two.  The chain forks once: the branch through x   *)
(* took alice's first two transactions, the branch through y a transfer    *)
(* that leaves alice poorer.                                               *)
(***************************************************************************)
EXTENDS TxPool

MCTxs == {"a0", "a1", "a1x", "a2", "b0", "b1"}

MCSender == [t \in MCTxs |-> IF t \in {"b0", "b1"} THEN "bob" ELSE "alice"]

MCNonce == [t \in MCTxs |->
  CASE t \in {"a0", "b0"} -> 0 [] t \in {"a1", "a1x", "b1"} -> 1
    [] OTHER -> 2]

MCPrice == [t \in MCTxs |->
  CASE t \in {"a0", "b0"} -> 2 [] t \in {"a1", "a2"} -> 1 [] OTHER -> 3]

MCCost == [t \in MCTxs |-> IF t = "a1" THEN 2 ELSE 1]

\* Against the nonce order, with a replacement, with a gap, of both accounts.
MCBatches == {<<"a1", "a0">>, <<"a1", "a1x">>, <<"b1", "b0">>, <<"a2", "b0", "b1">>}

MCBlocks == {"g", "x", "y"}

MCParent == [b \in MCBlocks |-> IF b = "g" THEN "none" ELSE "g"]

MCBody == [b \in MCBlocks |-> IF b = "x" THEN <<"a0", "a1">> ELSE <<>>]

MCBalance == [b \in MCBlocks |->
  [a \in {"alice", "bob"} |-> IF b = "y" /\ a = "alice" THEN 1 ELSE 2]]

=============================================================================
