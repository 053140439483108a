-------------------------- MODULE MCHeaderSkeleton --------------------------
(***************************************************************************)
(* An instance of HeaderSkeleton: batches of two headers, skeletons of up   *)
(* to two batches, a chain a1..a5 that ends in a tail of one, and a fork    *)
(* x3, x4 off a2.                                                           *)
(***************************************************************************)
EXTENDS HeaderSkeleton

CONSTANTS a1, a2, a3, a4, a5, x3, x4

MCChain == <<a1, a2, a3, a4, a5>>

OnChain(h) == CHOOSE n \in 1..Len(MCChain) : MCChain[n] = h

MCHeaders == {a1, a2, a3, a4, a5, x3, x4}

MCNumber == [h \in MCHeaders |-> CASE h = x3 -> 3 [] h = x4 -> 4 [] OTHER -> OnChain(h)]

MCParent ==
  [h \in MCHeaders |->
     CASE h = x3 -> a2 [] h = x4 -> x3 [] h = a1 -> NoHeader [] OTHER -> MCChain[OnChain(h) - 1]]

\* Numbered as asked after a filled skeleton; foreign, out of order and repeated.
MCForeignTails == {<<a5>>, <<x4, a2, a2>>}
=============================================================================
