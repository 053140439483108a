--------------------------- MODULE MCPartsFetcher ---------------------------
(***************************************************************************)
(* Two peers fetch the bodies of a chain h1, h2 (, h3).                     *)
(***************************************************************************)
EXTENDS PartsFetcher, TLC

CONSTANTS h1, h2, h3

MCHeaders == {h1, h2}
LongHeaders == {h1, h2, h3}
MCNumber == (h1 :> 1) @@ (h2 :> 2)
LongNumber == MCNumber @@ (h3 :> 3)
MCParent == (h1 :> NoHeader) @@ (h2 :> h1)
LongParent == MCParent @@ (h3 :> h2)
MCNoop == [k \in Kinds |-> {}]
=============================================================================
