----------------------------- MODULE StateStack -----------------------------
(***************************************************************************)
(* What snapshots promise to the virtual machine: a stack of copies of the *)
(* state.  A snapshot puts a copy on the stack, a revert takes one back    *)
(* and drops those above it, the end of a transaction drops them all, and  *)
(* nothing else changes a copy.                                            *)
(***************************************************************************)
EXTENDS Naturals, Sequences

CONSTANT States      \* what can be read of the state

VARIABLES
  now,               \* the state
  copies             \* sequence of records: an id and the copy it stands for

Init == now \in States /\ copies = <<>>

\* The state is changed and no copy is.
Change == copies' = copies /\ now' \in States

\* A copy is put on the stack under an id larger than those of the others.
Snapshot ==
  /\ now' = now
  /\ LET before == copies
         after  == copies'
         id     == after[Len(after)].id
     IN  /\ Len(after) = Len(before) + 1
         /\ \A i \in DOMAIN before : before[i].id < id
         /\ after = Append(before, [id |-> id, copy |-> now])

\* A copy comes back; those above it, and it, are dropped.
Revert ==
  LET before == copies
  IN  \E i \in DOMAIN before :
        now' = before[i].copy /\ copies' = SubSeq(before, 1, i - 1)

\* A transaction ends.
Clear == copies' = <<>> /\ now' \in States

Next == Clear \/ Change \/ Snapshot \/ Revert

Spec == Init /\ [][Next]_<<now, copies>>

=============================================================================
