-------------------------- MODULE OrderedDelivery --------------------------
(***************************************************************************)
(* What the download scheduler promises to the content processor, whatever  *)
(* the peers do: blocks come out in the order in which their headers were   *)
(* accepted, none skipped and none twice, and all of them are one chain.  A *)
(* new synchronisation starts from nothing.                                 *)
(***************************************************************************)
EXTENDS Naturals, Sequences

CONSTANTS
  Blocks,         \* the headers some peer may offer
  Parent          \* Parent[b]: the parent hash of b

VARIABLES
  todo,           \* the accepted blocks that are not handed out yet
  out             \* the blocks handed out

vars == <<todo, out>>

Linked(s) == \A i \in 1 .. Len(s) - 1 : Parent[s[i + 1]] = s[i]

Init == todo = << >> /\ out = << >>

(***************************************************************************)
(* queue.Schedule accepts blocks that carry on the chain.                   *)
(***************************************************************************)
Accept ==
  /\ todo' \in Seq(Blocks)
  /\ Len(todo') > Len(todo)
  /\ SubSeq(todo', 1, Len(todo)) = todo
  /\ Linked(out \o todo')
  /\ out' = out

(***************************************************************************)
(* queue.Results hands out the first n of them.                             *)
(***************************************************************************)
Hand(n) ==
  /\ out' = out \o SubSeq(todo, 1, n)
  /\ todo' = SubSeq(todo, n + 1, Len(todo))

(***************************************************************************)
(* queue.Reset and queue.Prepare.                                           *)
(***************************************************************************)
Restart == todo' = << >> /\ out' = << >>

Next ==
  \/ Accept
  \/ \E n \in 1 .. Len(todo) : Hand(n)
  \/ Restart

Spec == Init /\ [][Next]_vars
=============================================================================
