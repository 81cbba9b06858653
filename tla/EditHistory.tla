---------------------------- MODULE EditHistory ----------------------------
(***************************************************************************)
(* What the history of one table promises its user: a line of versions     *)
(* with a cursor.  A save adds a version after the cursor and cuts off     *)
(* what lay beyond; undo and redo move the cursor by exactly one version,  *)
(* skipping none and inventing none.  The oldest versions may be dropped,  *)
(* and the versions beyond the cursor may be lost, never one in between.   *)
(***************************************************************************)
EXTENDS Naturals, Sequences

CONSTANT Versions

VARIABLES past,     \* the versions before the cursor, oldest first
          current,  \* the version under the cursor: the table file
          future    \* the versions beyond it, nearest first

history == <<past, current, future>>

Suffixes(s) == {SubSeq(s, i, Len(s)) : i \in 1..(Len(s) + 1)}
Prefixes(s) == {SubSeq(s, 1, i) : i \in 0..Len(s)}

Init == past = <<>> /\ current \in Versions /\ future = <<>>

Save(v) ==
    /\ v # current
    /\ past' = Append(past, current)
    /\ current' = v
    /\ future' = <<>>

Undo ==
    /\ past # <<>>
    /\ current' = past[Len(past)]
    /\ past' = SubSeq(past, 1, Len(past) - 1)
    /\ future' \in Prefixes(<<current>> \o future)

Redo ==
    /\ future # <<>>
    /\ current' = future[1]
    /\ future' = SubSeq(future, 2, Len(future))
    /\ past' \in Suffixes(Append(past, current))

Shrink ==
    /\ past' \in Suffixes(past)
    /\ future' \in Prefixes(future)
    /\ current' = current

Next == (\E v \in Versions : Save(v)) \/ Undo \/ Redo \/ Shrink

Spec == Init /\ [][Next]_history
=============================================================================
