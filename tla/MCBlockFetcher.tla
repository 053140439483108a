--------------------------- MODULE MCBlockFetcher ---------------------------
(***************************************************************************)
(* A block b1 on genesis, its empty child b2, and an invalid child x of b1  *)
(* that has the number and the body of b1, so that it may be imported       *)
(* before and after its parent is known.  Peer p1 is honest, p2 is not.     *)
(***************************************************************************)
EXTENDS BlockFetcher, TLC

CONSTANTS b1, b2, x, txs, nothing

MCBlocks == {b1, b2, x}
MCNumber == [b \in MCBlocks |-> IF b = b2 THEN 2 ELSE 1]
MCParent == [b \in MCBlocks |-> IF b = b1 THEN Genesis ELSE b1]
MCBody == [b \in MCBlocks |-> IF b = b2 THEN nothing ELSE txs]

LiveBlocks == {b1, x}
LiveNumber == [b \in LiveBlocks |-> MCNumber[b]]
LiveParent == [b \in LiveBlocks |-> MCParent[b]]
LiveBody == [b \in LiveBlocks |-> MCBody[b]]
=============================================================================
