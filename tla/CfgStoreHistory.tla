-------------------------- MODULE CfgStoreHistory --------------------------
(***************************************************************************)
(* CfgStore implements EditHistory, across process deaths: the versions    *)
(* before and beyond the table file are read off the undo and redo stacks, *)
(* or off the journal while this process has not hydrated it.              *)
(*                                                                         *)
(* A step registered for a write that did not happen, or already undone    *)
(* when the process died, leads from the table's content to itself; it     *)
(* stands for no version, so equal neighbours are merged.                  *)
(***************************************************************************)
EXTENDS CfgStore

\* The elements of s at the indices in S, in order.
AtRank(S, k) == {i \in S : Cardinality({j \in S : j < i}) = k - 1}
Pick(s, S)   == [k \in 1..Cardinality(S) |-> s[CHOOSE i \in AtRank(S, k) : TRUE]]

MergeEqual(s) == Pick(s, {i \in DOMAIN s : i = 1 \/ s[i - 1] # s[i]})

WasOf(s)      == [i \in DOMAIN s |-> s[i].was]
Backwards(s)  == [i \in DOMAIN s |-> s[Len(s) + 1 - i]]

\* The stacks hold the history once this process has them and, in a save, once
\* the journal has caught up with them; the journal holds it otherwise.
StacksLead ==
    /\ hydrated \/ registered
    /\ ~(op.kind = "commit" /\ pc \in {"prune", "journal"})

UndoLine == IF StacksLead THEN undo ELSE journal.undo
RedoLine == IF StacksLead THEN redo ELSE journal.redo

\* restore() has replaced the file and the stacks have not moved yet: the version
\* it replaced is only in the operation's hands.
InHand(kind) ==
    IF pc = "settle" /\ op.kind = kind THEN <<op.raw>> ELSE <<>>

\* From the oldest version to the cursor, and from the farthest one back to it.
PastLine   == MergeEqual(Append(WasOf(UndoLine) \o InHand("redo"), file))
FutureLine == MergeEqual(Append(WasOf(RedoLine) \o InHand("undo"), file))

TablePast   == AllButLast(PastLine)
TableFuture == Backwards(AllButLast(FutureLine))

History == INSTANCE EditHistory WITH
    Versions <- Files, past <- TablePast, current <- file, future <- TableFuture

\* Saves, undos, redos and process deaths never skip, reorder or invent a
\* version of the table: CfgStore implements EditHistory.
RefinesHistory == History!Spec
=============================================================================
