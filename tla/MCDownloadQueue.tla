-------------------------- MODULE MCDownloadQueue --------------------------
(***************************************************************************)
(* A chain h1, h2, h3 and a competing child f2 of h1, that a peer may send  *)
(* in the place of h2.  h2 has no transactions, h1 no receipts.             *)
(***************************************************************************)
EXTENDS DownloadQueue, TLC

CONSTANTS h1, h2, h3, f2

MCHeaders == {h1, h2, h3, f2}
MCNumber == (h1 :> 1) @@ (h2 :> 2) @@ (h3 :> 3) @@ (f2 :> 2)
MCParent == (h1 :> NoHeader) @@ (h2 :> h1) @@ (h3 :> h2) @@ (f2 :> h1)
MCNoop == [k \in Kinds |-> IF k = "body" THEN {h2} ELSE {h1}]

PeerSymmetry == Permutations(Peers)
=============================================================================
