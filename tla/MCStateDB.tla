------------------------------ MODULE MCStateDB ------------------------------
(***************************************************************************)
(* Blocks that change one account: an ordinary one that is absent, under   *)
(* both rules, empty, or a contract with storage; or Ripemd, absent or     *)
(* empty, where its touch matters.  A last block refunds, logs and records *)
(* preimages.                                                              *)
(* One key, one value other than zero, one code.                           *)
(***************************************************************************)
EXTENDS StateDB

Contract == [balance |-> 1, nonce |-> 1, code |-> 1, root |-> [k \in Keys |-> 1]]

MCBlocks ==
  {[deleteEmpty |-> TRUE,  touched |-> {"a"},    before |-> None],
   [deleteEmpty |-> FALSE, touched |-> {"a"},    before |-> None],
   [deleteEmpty |-> TRUE,  touched |-> {"a"},    before |-> NewAccount],
   [deleteEmpty |-> TRUE,  touched |-> {"a"},    before |-> Contract],
   [deleteEmpty |-> TRUE,  touched |-> {Ripemd}, before |-> None],
   [deleteEmpty |-> TRUE,  touched |-> {Ripemd}, before |-> NewAccount],
   [deleteEmpty |-> TRUE,  touched |-> {},       before |-> None]}

=============================================================================
