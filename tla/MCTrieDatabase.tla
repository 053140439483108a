--------------------------- MODULE MCTrieDatabase ---------------------------
(***************************************************************************)
(* Two states.  Node x holds an account with storage s and is in both; d   *)
(* is in both at different depths; c is in one of them twice.              *)
(***************************************************************************)
EXTENDS TrieDatabase

MCNodes == {"r1", "r2", "c", "d", "x", "s"}

MCEncoded ==
  [n \in MCNodes |-> CASE n = "r1" -> <<"c", "x", "c">>
                       [] n = "r2" -> <<"x", "d">>
                       [] n = "c"  -> <<"d">>
                       [] OTHER    -> <<>>]

MCAccounts == [n \in MCNodes |-> IF n = "x" THEN {"s"} ELSE {}]

=============================================================================
