--------------------------- MODULE CfgStoreProofs ---------------------------
(***************************************************************************)
(* Theorems about CfgStore, for every table content and every depth of the *)
(* history: first what holds under every combination of faults, then what  *)
(* it guarantees about the disk when every save keeps a snapshot and       *)
(* nothing but this process's gate writes the history: which snapshots     *)
(* prune_history takes, that the journal is the history, and that a save   *)
(* replaces the table only once it can be undone from disk.                *)
(***************************************************************************)
EXTENDS CfgStore, FiniteSetTheorems, TLAPS

-----------------------------------------------------------------------------
(* What the sequence helpers keep                                          *)

\* A stack that is trimmed after a push holds nothing but the old entries and
\* the pushed one.
LEMMA TrimAppend ==
    ASSUME NEW S, NEW s \in Seq(S), NEW e \in S
    PROVE  /\ Trim(Append(s, e)) \in Seq(S)
           /\ ItemsOf(Trim(Append(s, e))) \subseteq ItemsOf(s) \cup {e}
<1> DEFINE t == Append(s, e)
<1>1. t \in Seq(S) /\ Len(t) = Len(s) + 1
  OBVIOUS
<1>2. \A i \in 1..Len(t) : t[i] \in ItemsOf(s) \cup {e}
  BY DEF ItemsOf
<1>3. HistoryLimit \in Nat \ {0}
  BY ConstantsAssumption
<1>4. CASE Len(t) > HistoryLimit
  <2> DEFINE k == Len(t) - HistoryLimit + 1
             u == SubSeq(t, k, Len(t))
  <2>1. k \in 1..Len(t)
    BY <1>1, <1>3, <1>4
  <2>2. u \in Seq(S) /\ Len(u) = Len(t) - k + 1
    BY <1>1, <2>1
  <2>3. \A i \in 1..Len(u) : u[i] = t[k + i - 1] /\ k + i - 1 \in 1..Len(t)
    BY <1>1, <2>1, <2>2
  <2>4. ItemsOf(u) \subseteq ItemsOf(s) \cup {e}
    BY <1>2, <2>2, <2>3 DEF ItemsOf
  <2>5. Trim(t) = u
    BY <1>4 DEF Trim
  <2> QED BY <2>2, <2>4, <2>5
<1>5. CASE ~(Len(t) > HistoryLimit)
  BY <1>1, <1>2, <1>5 DEF Trim, ItemsOf
<1> QED BY <1>4, <1>5

\* Popping a stack keeps only entries that were on it.
LEMMA PopKeeps ==
    ASSUME NEW S, NEW s \in Seq(S), s # <<>>
    PROVE  /\ AllButLast(s) \in Seq(S)
           /\ ItemsOf(AllButLast(s)) \subseteq ItemsOf(s)
           /\ LastOf(s) \in S /\ LastOf(s) \in ItemsOf(s)
<1>1. Len(s) \in Nat \ {0}
  OBVIOUS
<1>2. /\ AllButLast(s) \in Seq(S)
      /\ Len(AllButLast(s)) = Len(s) - 1
      /\ \A i \in 1..(Len(s) - 1) : AllButLast(s)[i] = s[i]
  <2> DEFINE n == Len(s) - 1
  <2>1. n \in 0..Len(s)
    BY <1>1
  <2>2. /\ SubSeq(s, 1, n) \in Seq(S) /\ Len(SubSeq(s, 1, n)) = n
        /\ \A i \in 1..n : SubSeq(s, 1, n)[i] = s[i]
    <3> HIDE DEF n
    <3> QED BY <1>1, <2>1
  <2> QED BY <2>2 DEF AllButLast
<1>3. ItemsOf(AllButLast(s)) \subseteq ItemsOf(s)
  BY <1>1, <1>2 DEF ItemsOf
<1>4. LastOf(s) \in S /\ LastOf(s) \in ItemsOf(s)
  BY <1>1 DEF LastOf, ItemsOf
<1> QED BY <1>2, <1>3, <1>4

\* The journal holds only entries of the stack it is written from.
LEMMA JournalKeeps ==
    ASSUME NEW S, NEW u \in Seq(S)
    PROVE  /\ Journaled(u) \in Seq(S)
           /\ ItemsOf(Journaled(u)) \subseteq ItemsOf(u)
<1> DEFINE T == {i \in DOMAIN u : \A j \in 1..i : ~TextOnly(u[j])}
           n == Cardinality(T)
<1>1. Len(u) \in Nat /\ DOMAIN u = 1..Len(u)
  OBVIOUS
<1>2. IsFiniteSet(1..Len(u)) /\ Cardinality(1..Len(u)) = Len(u)
  BY <1>1, FS_Interval
<1>3. T \subseteq 1..Len(u)
  BY <1>1
<1>4. n \in Nat /\ n <= Len(u)
  BY <1>2, <1>3, FS_Subset, FS_CardinalityType
<1>5. /\ SubSeq(u, 1, n) \in Seq(S) /\ Len(SubSeq(u, 1, n)) = n
      /\ \A i \in 1..n : SubSeq(u, 1, n)[i] = u[i]
  <2> HIDE DEF n
  <2> QED BY <1>1, <1>4
<1>6. ItemsOf(SubSeq(u, 1, n)) \subseteq ItemsOf(u)
  <2> HIDE DEF n
  <2> QED BY <1>1, <1>4, <1>5 DEF ItemsOf
<1>7. Journaled(u) = SubSeq(u, 1, n)
  BY DEF Journaled
<1> QED BY <1>5, <1>6, <1>7

\* What the journal gives back on reading is, entry by entry, what was written
\* or the same entry stripped of its snapshot and text.
LEMMA ReadBackKeeps ==
    ASSUME NEW s \in Seq(Entries)
    PROVE  /\ ReadBackAll(s) \in Seq(Entries)
           /\ \A e \in ItemsOf(ReadBackAll(s)) :
                \E d \in ItemsOf(s) : e = ReadBack(d)
<1>1. Len(s) \in Nat /\ DOMAIN s = 1..Len(s) /\ \A i \in DOMAIN s : s[i] \in Entries
  OBVIOUS
<1>2. \A d \in Entries : ReadBack(d) \in Entries
  BY DEF ReadBack, Entries
<1>3. ReadBackAll(s) \in [1..Len(s) -> Entries]
  BY <1>1, <1>2 DEF ReadBackAll
<1>4. ReadBackAll(s) \in Seq(Entries)
  BY <1>1, <1>3
<1>5. ASSUME NEW e \in ItemsOf(ReadBackAll(s))
      PROVE  \E d \in ItemsOf(s) : e = ReadBack(d)
  BY <1>1, <1>5 DEF ItemsOf, ReadBackAll
<1> QED BY <1>4, <1>5

-----------------------------------------------------------------------------
(* Type correctness                                                        *)

\* An operation that will write a snapshot was let in while there was room for it
\* within the bound MaxSnaps: what makes TypeOK inductive.
RoomForSnapshot ==
    \/ pc = "snapshot"
    \/ op.kind = "redo" /\ pc \in {"hydrate", "install", "peek"}
    => nextSnap <= MaxSnaps

Typed == TypeOK /\ RoomForSnapshot

\* The empty stacks are stacks.
LEMMA EmptyPairTyped == EmptyPair \in StackPairs /\ <<>> \in Seq(Entries)
BY DEF EmptyPair, StackPairs

\* The idle operation is an operation.
LEMMA NoOpTyped == NoOp \in Ops
BY EmptyPairTyped DEF NoOp, Ops, Files, NoSnap

\* A body with or without its BOM is a content.
LEMMA EncodeTyped ==
    ASSUME NEW t \in Bodies, NEW m \in BOOLEAN
    PROVE  Encode(t, m) \in Contents
BY DEF Encode, Contents

\* The text of a content, or the marker for none.
LEMMA TextTyped ==
    ASSUME NEW f \in Files
    PROVE  /\ Text(f) \in Bodies \cup {NoText}
           /\ Lossy(f) \in BOOLEAN /\ HasBom(f) \in BOOLEAN
BY ConstantsAssumption DEF Text, Lossy, HasBom, Files, Contents

\* The new entries the three settling steps push are entries.
LEMMA PushedTyped ==
    ASSUME TypeOK
    PROVE  /\ CommitEntry \in Entries /\ RedoEntry \in Entries
           /\ UndoEntryOfRedo \in Entries
<1>1. op \in Ops /\ op.raw \in Files /\ op.new \in Files /\ op.epoch \in Nat
      /\ op.snap \in SnapIds \cup {NoSnap}
  BY DEF TypeOK, Ops
<1>2. /\ Text(op.raw) \in Bodies \cup {NoText} /\ Lossy(op.raw) \in BOOLEAN
      /\ HasBom(op.raw) \in BOOLEAN /\ HasBom(op.new) \in BOOLEAN
  BY <1>1, TextTyped
<1>3. CommitEntry \in Entries
  BY <1>1, <1>2 DEF CommitEntry, Entries
<1>4. RedoEntry \in Entries
  BY <1>1, <1>2 DEF RedoEntry, Entries
<1>5. UndoEntryOfRedo \in Entries
  BY <1>1, <1>2 DEF UndoEntryOfRedo, Entries
<1> QED BY <1>3, <1>4, <1>5

\* What an entry would bring back is a file.
LEMMA BytesTyped ==
    ASSUME TypeOK, NEW e \in Entries
    PROVE  /\ CanUndo(e) => UndoBytes(e) \in Files
           /\ RedoBytes(e) \in Files
<1>1. /\ e.text \in Bodies \cup {NoText} /\ e.had_bom \in BOOLEAN
      /\ e.snap \in SnapIds \cup {NoSnap}
  BY DEF Entries
<1>2. e.text # NoText => Encode(e.text, e.had_bom) \in Files
  BY <1>1, EncodeTyped DEF Files
<1>3. HasSnapshot(e) => snaps[e.snap] \in Files
  BY <1>1 DEF HasSnapshot, TypeOK
<1>4. Missing \in Files
  BY DEF Files
<1> QED BY <1>2, <1>3, <1>4 DEF CanUndo, UndoBytes, RedoBytes

\* Settling moves one entry off one stack and pushes one new entry on the other.
LEMMA UndoSettles ==
    ASSUME TypeOK, SettleUndo
    PROVE  /\ undo' \in Seq(Entries) /\ redo' \in Seq(Entries)
           /\ ItemsOf(undo') \subseteq ItemsOf(undo)
           /\ ItemsOf(redo') \subseteq ItemsOf(redo) \cup {RedoEntry}
<1>1. undo \in Seq(Entries) /\ redo \in Seq(Entries) /\ RedoEntry \in Entries
  BY PushedTyped DEF TypeOK
<1>2. CASE undo # <<>>
  <2>1. undo' = AllButLast(undo) /\ redo' = Trim(Append(redo, RedoEntry))
    BY <1>2 DEF SettleUndo
  <2>2. undo' \in Seq(Entries) /\ ItemsOf(undo') \subseteq ItemsOf(undo)
    BY <1>1, <1>2, <2>1, PopKeeps
  <2>3. redo' \in Seq(Entries) /\ ItemsOf(redo') \subseteq ItemsOf(redo) \cup {RedoEntry}
    BY <1>1, <2>1, TrimAppend
  <2> QED BY <2>2, <2>3
<1>3. CASE undo = <<>>
  BY <1>1, <1>3 DEF SettleUndo
<1> QED BY <1>2, <1>3

\* redo() takes from the redo stack and pushes one entry onto the undo stack.
LEMMA RedoSettles ==
    ASSUME TypeOK, SettleRedo
    PROVE  /\ undo' \in Seq(Entries) /\ redo' \in Seq(Entries)
           /\ ItemsOf(redo') \subseteq ItemsOf(redo)
           /\ ItemsOf(undo') \subseteq ItemsOf(undo) \cup {UndoEntryOfRedo}
<1>1. /\ undo \in Seq(Entries) /\ redo \in Seq(Entries)
      /\ UndoEntryOfRedo \in Entries
  BY PushedTyped DEF TypeOK
<1>2. CASE redo # <<>>
  <2>1. redo' = AllButLast(redo) /\ undo' = Trim(Append(undo, UndoEntryOfRedo))
    BY <1>2 DEF SettleRedo
  <2>2. redo' \in Seq(Entries) /\ ItemsOf(redo') \subseteq ItemsOf(redo)
    BY <1>1, <1>2, <2>1, PopKeeps
  <2>3. /\ undo' \in Seq(Entries)
        /\ ItemsOf(undo') \subseteq ItemsOf(undo) \cup {UndoEntryOfRedo}
    BY <1>1, <2>1, TrimAppend
  <2> QED BY <2>2, <2>3
<1>3. CASE redo = <<>>
  BY <1>1, <1>3 DEF SettleRedo
<1> QED BY <1>2, <1>3

\* The initial state has its types.
LEMMA TypedInit == Init => Typed
<1> SUFFICES ASSUME Init PROVE Typed
  OBVIOUS
<1>1. op \in Ops /\ pc = "idle" /\ op.kind = "none"
  BY NoOpTyped DEF Init, NoOp
<1>2. snaps \in [SnapIds -> Files]
  BY DEF Init, Files
<1>3. nextSnap \in 1..(MaxSnaps + 1)
  BY ConstantsAssumption DEF Init
<1>4. file \in Files
  BY ConstantsAssumption DEF Init
<1> QED BY <1>1, <1>2, <1>3, <1>4, EmptyPairTyped
        DEF Init, Typed, TypeOK, RoomForSnapshot, Pcs

\* Every step keeps the types and the room for a snapshot.
LEMMA TypedNext == Typed /\ [Next]_vars => Typed'
<1> SUFFICES ASSUME Typed, [Next]_vars
             PROVE  Typed'
  OBVIOUS
<1>0. TypeOK /\ RoomForSnapshot
  BY DEF Typed
<1> USE DEF Typed, RoomForSnapshot
<1>1. ASSUME NEW text \in NewBodies, NEW keep \in SnapshotFlags,
             BeginCommit(text, keep)
      PROVE  Typed'
  <2>1. Encode(text, HasBom(file)) \in Files
    BY <1>0, EncodeTyped, TextTyped, ConstantsAssumption DEF TypeOK, Files
  <2>2. op' \in Ops
    BY <1>0, <1>1, <2>1, NoOpTyped, ConstantsAssumption
       DEF BeginCommit, TypeOK, Ops, NoOp
  <2>3. TypeOK'
    BY <1>0, <1>1, <2>2
       DEF BeginCommit, TypeOK, Pcs, diskVars, stackVars, syncVars
  <2> QED BY <1>1, <2>3 DEF BeginCommit, diskVars
<1>2. CASE BeginUndo
  <2>1. op' \in Ops /\ op'.kind = "undo"
    BY <1>2, NoOpTyped DEF BeginUndo, Ops, NoOp
  <2> QED BY <1>0, <1>2, <2>1
          DEF BeginUndo, TypeOK, Pcs, diskVars, stackVars, syncVars
<1>3. CASE BeginRedo
  <2>1. op' \in Ops
    BY <1>3, NoOpTyped DEF BeginRedo, Ops, NoOp
  <2> QED BY <1>0, <1>3, <2>1
          DEF BeginRedo, TypeOK, Pcs, diskVars, stackVars, syncVars
<1>4. CASE HydrateSkip
  BY <1>0, <1>4
     DEF HydrateSkip, Goto, AfterHydrate, TypeOK, Pcs, diskVars, stackVars, syncVars
<1>5. CASE HydrateRead
  <2>1. op' \in Ops /\ op'.kind = op.kind
    BY <1>0, <1>5, ReadBackKeeps DEF HydrateRead, TypeOK, Ops, StackPairs
  <2> QED BY <1>0, <1>5, <2>1
          DEF HydrateRead, TypeOK, Pcs, diskVars, stackVars, syncVars
<1>6. CASE HydrateInstall
  <2>1. op.pair.undo \in Seq(Entries) /\ op.pair.redo \in Seq(Entries)
    BY <1>0 DEF TypeOK, Ops, StackPairs
  <2> QED BY <1>0, <1>6, <2>1
          DEF HydrateInstall, Goto, AfterHydrate, TypeOK, Pcs, diskVars, syncVars
<1>7. CASE WriteSnapshot
  <2>1. nextSnap \in SnapIds
    BY <1>0, <1>7, ConstantsAssumption DEF WriteSnapshot, TypeOK, SnapIds
  <2>2. op' \in Ops /\ op'.kind = op.kind
    BY <1>0, <1>7, <2>1 DEF WriteSnapshot, TypeOK, Ops
  <2>3. snaps' \in [SnapIds -> Files]
    BY <1>0, <1>7, <2>1 DEF WriteSnapshot, TypeOK, Ops
  <2>4. nextSnap' \in 1..(MaxSnaps + 1)
    BY <1>7, <2>1, ConstantsAssumption DEF WriteSnapshot, SnapIds
  <2>5. pc' \in {"hydrate", "restore"} /\ (pc' = "hydrate" => op'.kind = "commit")
    BY <1>7, <2>2 DEF WriteSnapshot, AfterSnapshot
  <2> QED BY <1>0, <1>7, <2>2, <2>3, <2>4, <2>5
          DEF WriteSnapshot, TypeOK, Pcs, stackVars, syncVars
<1>8. CASE NoSnapshot
  BY <1>0, <1>8
     DEF NoSnapshot, Goto, AfterSnapshot, TypeOK, Pcs, diskVars, stackVars, syncVars
<1>9. CASE PruneHistory
  <2>1. Pruned \in [SnapIds -> Files]
    BY <1>0 DEF Pruned, TypeOK, Files
  <2> QED BY <1>0, <1>9, <2>1
          DEF PruneHistory, Goto, TypeOK, Pcs, stackVars, syncVars
<1>10. CASE Register
  <2>1. undo' \in Seq(Entries)
    BY <1>0, <1>10, PushedTyped, TrimAppend DEF Register, TypeOK
  <2>2. op' \in Ops
    BY <1>0, <1>10, <2>1, EmptyPairTyped DEF Register, TypeOK, Ops, StackPairs
  <2> QED BY <1>0, <1>10, <2>1, <2>2, EmptyPairTyped
          DEF Register, TypeOK, Pcs, diskVars, syncVars
<1>11. CASE WriteJournal
  <2>1. journal' \in StackPairs
    BY <1>0, <1>11, JournalKeeps
       DEF WriteJournal, JournalOf, TypeOK, Ops, StackPairs
  <2> QED BY <1>0, <1>11, <2>1 DEF WriteJournal, Goto, TypeOK, Pcs, stackVars, syncVars
<1>12. CASE WriteTable
  BY <1>0, <1>12, NoOpTyped
     DEF WriteTable, Return, TypeOK, Ops, Pcs, NoOp, stackVars, syncVars
<1>13. CASE WriteTableFails
  BY <1>0, <1>13, NoOpTyped
     DEF WriteTableFails, Return, TypeOK, Pcs, NoOp, diskVars, stackVars, syncVars
<1>14. CASE PeekUndo
  <2>1. LastOf(undo) \in Entries
    BY <1>0, <1>14, PopKeeps DEF PeekUndo, TypeOK
  <2>2. UndoBytes(LastOf(undo)) \in Files
    BY <1>0, <1>14, <2>1, BytesTyped DEF PeekUndo
  <2>3. op' \in Ops
    BY <1>0, <1>14, <2>2 DEF PeekUndo, TypeOK, Ops
  <2> QED BY <1>0, <1>14, <2>3
          DEF PeekUndo, TypeOK, Pcs, diskVars, stackVars, syncVars
<1>15. CASE PeekRedo
  <2>1. LastOf(redo) \in Entries
    BY <1>0, <1>15, PopKeeps DEF PeekRedo, TypeOK
  <2>2. RedoBytes(LastOf(redo)) \in Files
    BY <1>0, <1>15, <2>1, BytesTyped DEF PeekRedo
  <2>3. op' \in Ops
    BY <1>0, <1>15, <2>2 DEF PeekRedo, TypeOK, Ops
  <2> QED BY <1>0, <1>15, <2>3
          DEF PeekRedo, TypeOK, Pcs, diskVars, stackVars, syncVars
<1>16. CASE PeekRefuses
  BY <1>0, <1>16, NoOpTyped
     DEF PeekRefuses, Return, TypeOK, Pcs, NoOp, diskVars, stackVars, syncVars
<1>17. CASE Restore
  BY <1>0, <1>17 DEF Restore, Goto, TypeOK, Ops, Pcs, stackVars, syncVars
<1>18. CASE RestoreLeavesFile
  BY <1>0, <1>18
     DEF RestoreLeavesFile, Goto, TypeOK, Pcs, diskVars, stackVars, syncVars
<1>19. CASE RestoreFails
  BY <1>0, <1>19, NoOpTyped
     DEF RestoreFails, Return, TypeOK, Pcs, NoOp, diskVars, stackVars, syncVars
<1>20. CASE SettleUndo
  <2>1. undo' \in Seq(Entries) /\ redo' \in Seq(Entries)
    BY <1>0, <1>20, UndoSettles
  <2> QED BY <1>0, <1>20, <2>1 DEF SettleUndo, Goto, TypeOK, Pcs, diskVars, syncVars
<1>21. CASE SettleRedo
  <2>1. undo' \in Seq(Entries) /\ redo' \in Seq(Entries)
    BY <1>0, <1>21, RedoSettles
  <2> QED BY <1>0, <1>21, <2>1 DEF SettleRedo, Goto, TypeOK, Pcs, diskVars, syncVars
<1>22. CASE JournalPersist
  <2>1. journal' \in StackPairs
    BY <1>0, <1>22, JournalKeeps DEF JournalPersist, JournalOf, TypeOK, StackPairs
  <2> QED BY <1>0, <1>22, <2>1, NoOpTyped
          DEF JournalPersist, Return, TypeOK, Pcs, NoOp, stackVars, syncVars
<1>23. ASSUME NEW f \in OutsideFiles, OutsideWrite(f) \/ SyncDownload(f)
       PROVE  Typed'
  BY <1>0, <1>23, ConstantsAssumption
     DEF OutsideWrite, SyncDownload, TypeOK, Files, stackVars, syncVars
<1>24. CASE ForgetErase
  BY <1>0, <1>24, EmptyPairTyped DEF ForgetErase, TypeOK, diskVars
<1>25. CASE ForgetUnlink
  BY <1>0, <1>25, EmptyPairTyped DEF ForgetUnlink, TypeOK, stackVars
<1>26. CASE SiblingPrune
  <2>1. snaps' \in [SnapIds -> Files]
    BY <1>0, <1>26 DEF SiblingPrune, TypeOK, Files
  <2> QED BY <1>0, <1>26, <2>1, EmptyPairTyped DEF SiblingPrune, TypeOK, stackVars, syncVars
<1>27. CASE Crash
  BY <1>0, <1>27, EmptyPairTyped, NoOpTyped
     DEF Crash, Return, TypeOK, Pcs, NoOp, diskVars
<1>28. CASE UNCHANGED vars
  BY <1>0, <1>28 DEF vars, diskVars, stackVars, syncVars, TypeOK
<1> QED
  BY <1>1, <1>2, <1>3, <1>4, <1>5, <1>6, <1>7, <1>8, <1>9, <1>10, <1>11, <1>12,
     <1>13, <1>14, <1>15, <1>16, <1>17, <1>18, <1>19, <1>20, <1>21, <1>22, <1>23,
     <1>24, <1>25, <1>26, <1>27, <1>28
     DEF Next, Hydrate, Commit, Snapshot, UndoRedo, Outside

\* Whatever fails and whenever the process dies, the files, the stacks and the
\* operation in flight keep their shapes: no step reads text an entry does not
\* carry, or numbers a snapshot beyond the bound.
THEOREM TypeCorrect == Spec => []TypeOK
<1>1. Typed => TypeOK
  BY DEF Typed
<1> QED BY <1>1, TypedInit, TypedNext, PTL DEF Spec

-----------------------------------------------------------------------------
(* Undo is exact, redo brings the text back                                *)

\* Where an undo entry may come from in one step: it was there, it was read back
\* from the journal, or a save or a redo has just made it.
UndoOrigin(e) ==
    \/ e \in UndoEntries
    \/ \E d \in UndoEntries : e = ReadBack(d)
    \/ pc = "register" /\ e = CommitEntry /\ UNCHANGED <<snaps, nextSnap>>
    \/ /\ pc = "settle" /\ op.kind = "redo" /\ e = UndoEntryOfRedo
       /\ UNCHANGED <<snaps, nextSnap>>

RedoOrigin(e) ==
    \/ e \in RedoEntries
    \/ \E d \in RedoEntries : e = ReadBack(d)
    \/ pc = "settle" /\ e = RedoEntry

\* A step writes a snapshot under a number nobody holds, or removes some.
SnapsOnlyGo ==
    /\ nextSnap <= nextSnap'
    /\ \A i \in SnapIds : i < nextSnap => snaps'[i] \in {snaps[i], Missing}

\* The elements of a stack are entries.
LEMMA ItemsTyped ==
    ASSUME TypeOK
    PROVE  /\ \A e \in UndoEntries : e \in Entries
           /\ \A e \in RedoEntries : e \in Entries
<1>1. /\ undo \in Seq(Entries) /\ redo \in Seq(Entries)
      /\ journal.undo \in Seq(Entries) /\ journal.redo \in Seq(Entries)
      /\ op.pair.undo \in Seq(Entries) /\ op.pair.redo \in Seq(Entries)
  BY DEF TypeOK, StackPairs, Ops
<1>2. \A s \in Seq(Entries) : ItemsOf(s) \subseteq Entries
  BY DEF ItemsOf
<1> QED BY <1>1, <1>2 DEF UndoEntries, RedoEntries

\* Empty stacks have no entries.
LEMMA NothingOnEmpty ==
    /\ ItemsOf(<<>>) = {}
    /\ ItemsOf(EmptyPair.undo) = {} /\ ItemsOf(EmptyPair.redo) = {}
    /\ ItemsOf(NoOp.pair.undo) = {} /\ ItemsOf(NoOp.pair.redo) = {}
BY DEF ItemsOf, EmptyPair, NoOp

\* A step writes only a snapshot with a new number; others stay or vanish.
LEMMA SnapsGo == Typed /\ [Next]_vars => SnapsOnlyGo
<1> SUFFICES ASSUME Typed, [Next]_vars
             PROVE  SnapsOnlyGo
  OBVIOUS
<1>0. snaps \in [SnapIds -> Files] /\ nextSnap \in Nat
  BY ConstantsAssumption DEF Typed, TypeOK
<1>1. CASE WriteSnapshot
  BY <1>0, <1>1 DEF WriteSnapshot, SnapsOnlyGo
<1>2. CASE PruneHistory
  BY <1>0, <1>2 DEF PruneHistory, Pruned, SnapsOnlyGo
<1>3. CASE SiblingPrune
  BY <1>0, <1>3 DEF SiblingPrune, SnapsOnlyGo
<1>4. CASE UNCHANGED <<snaps, nextSnap>>
  BY <1>0, <1>4 DEF SnapsOnlyGo
<1>5. CASE Hydrate \/ Commit
  BY <1>4, <1>5
     DEF Hydrate, HydrateSkip, HydrateRead, HydrateInstall, Commit, BeginCommit,
         Register, WriteJournal, WriteTable, WriteTableFails, diskVars
<1>6. CASE UndoRedo
  BY <1>4, <1>6
     DEF UndoRedo, BeginUndo, BeginRedo, PeekUndo, PeekRedo, PeekRefuses, Restore,
         RestoreLeavesFile, RestoreFails, SettleUndo, SettleRedo, JournalPersist,
         diskVars
<1>7. CASE NoSnapshot \/ UNCHANGED vars
  BY <1>4, <1>7 DEF NoSnapshot, vars, diskVars
<1>8. CASE Outside
  BY <1>3, <1>4, <1>8
     DEF Outside, OutsideWrite, SyncDownload, ForgetErase, ForgetUnlink, Crash,
         diskVars
<1> QED BY <1>1, <1>2, <1>5, <1>6, <1>7, <1>8 DEF Next, Snapshot

\* Every entry after a step has one of the origins above.
LEMMA Origins ==
    ASSUME Typed, [Next]_vars
    PROVE  /\ \A e \in UndoEntries' : UndoOrigin(e)
           /\ \A e \in RedoEntries' : RedoOrigin(e)
<1>0. /\ TypeOK
      /\ undo \in Seq(Entries) /\ redo \in Seq(Entries)
      /\ journal.undo \in Seq(Entries) /\ journal.redo \in Seq(Entries)
      /\ op.pair.undo \in Seq(Entries) /\ op.pair.redo \in Seq(Entries)
  BY DEF Typed, TypeOK, StackPairs, Ops
<1> DEFINE Goal == /\ \A e \in UndoEntries' : UndoOrigin(e)
                   /\ \A e \in RedoEntries' : RedoOrigin(e)
           Kept == /\ ItemsOf(undo') \subseteq UndoEntries
                   /\ ItemsOf(redo') \subseteq RedoEntries
                   /\ ItemsOf(journal'.undo) \subseteq UndoEntries
                   /\ ItemsOf(journal'.redo) \subseteq RedoEntries
                   /\ ItemsOf(op'.pair.undo) \subseteq UndoEntries
                   /\ ItemsOf(op'.pair.redo) \subseteq RedoEntries
<1>k. ASSUME Kept PROVE Goal
  BY <1>k DEF UndoEntries, RedoEntries, UndoOrigin, RedoOrigin
<1>1. CASE op'.pair \in {op.pair, NoOp.pair} /\ UNCHANGED <<undo, redo, journal>>
  BY <1>k, <1>1, NothingOnEmpty DEF UndoEntries, RedoEntries
<1>2. CASE HydrateRead
  <2>1. /\ op'.pair.undo = ReadBackAll(journal.undo)
        /\ op'.pair.redo = ReadBackAll(journal.redo)
        /\ UNCHANGED <<undo, redo, journal>>
    BY <1>0, <1>2 DEF HydrateRead, TypeOK, Ops, diskVars, stackVars
  <2>2. /\ \A e \in ItemsOf(op'.pair.undo) :
              \E d \in ItemsOf(journal.undo) : e = ReadBack(d)
        /\ \A e \in ItemsOf(op'.pair.redo) :
              \E d \in ItemsOf(journal.redo) : e = ReadBack(d)
    BY <1>0, <2>1, ReadBackKeeps
  <2> QED BY <2>1, <2>2 DEF UndoEntries, RedoEntries, UndoOrigin, RedoOrigin
<1>3. CASE HydrateInstall
  <2>1. /\ undo' \in {undo, op.pair.undo} /\ redo' \in {redo, op.pair.redo}
        /\ UNCHANGED <<journal, op>>
    BY <1>3 DEF HydrateInstall, Goto, diskVars
  <2> QED BY <1>k, <2>1 DEF UndoEntries, RedoEntries
<1>4. CASE Register
  <2>1. ItemsOf(undo') \subseteq ItemsOf(undo) \cup {CommitEntry}
    BY <1>0, <1>4, PushedTyped, TrimAppend DEF Register
  <2>2. op'.pair.undo = undo' /\ op'.pair.redo = <<>>
    BY <1>0, <1>4 DEF Register, TypeOK, Ops
  <2>3. /\ redo' = <<>> /\ UNCHANGED <<journal, snaps, nextSnap>>
        /\ pc = "register"
    BY <1>4 DEF Register, diskVars
  <2> QED BY <2>1, <2>2, <2>3, NothingOnEmpty
          DEF UndoEntries, RedoEntries, UndoOrigin, RedoOrigin
<1>5. CASE WriteJournal
  <2>1. /\ ItemsOf(journal'.undo) \subseteq UndoEntries
        /\ ItemsOf(journal'.redo) \subseteq RedoEntries
    BY <1>0, <1>5, JournalKeeps DEF WriteJournal, JournalOf, UndoEntries, RedoEntries
  <2> QED BY <1>k, <1>5, <2>1
          DEF WriteJournal, Goto, stackVars, UndoEntries, RedoEntries
<1>6. CASE JournalPersist
  <2>1. /\ ItemsOf(journal'.undo) \subseteq UndoEntries
        /\ ItemsOf(journal'.redo) \subseteq RedoEntries
    BY <1>0, <1>6, JournalKeeps DEF JournalPersist, JournalOf, UndoEntries, RedoEntries
  <2> QED BY <1>k, <1>6, <2>1, NothingOnEmpty
          DEF JournalPersist, Return, stackVars, UndoEntries, RedoEntries
<1>7. CASE SettleUndo
  BY <1>0, <1>7, UndoSettles
     DEF SettleUndo, Goto, diskVars, UndoEntries, RedoEntries, UndoOrigin, RedoOrigin
<1>8. CASE SettleRedo
  BY <1>0, <1>8, RedoSettles
     DEF SettleRedo, Goto, diskVars, UndoEntries, RedoEntries, UndoOrigin, RedoOrigin
<1>9. CASE ForgetErase \/ ForgetUnlink \/ SiblingPrune \/ Crash
  BY <1>k, <1>9, NothingOnEmpty
     DEF ForgetErase, ForgetUnlink, SiblingPrune, Crash, Return, diskVars, stackVars,
         UndoEntries, RedoEntries
<1>10. CASE Hydrate \/ Commit
  <2>1. CASE \E text \in NewBodies, keep \in SnapshotFlags : BeginCommit(text, keep)
    BY <1>1, <2>1 DEF BeginCommit, NoOp, diskVars, stackVars
  <2>2. CASE HydrateSkip \/ WriteTable \/ WriteTableFails
    BY <1>1, <2>2
       DEF HydrateSkip, WriteTable, WriteTableFails, Goto, Return, diskVars, stackVars
  <2> QED BY <1>2, <1>3, <1>4, <1>5, <1>10, <2>1, <2>2 DEF Hydrate, Commit
<1>11. CASE Snapshot
  <2>1. CASE WriteSnapshot
    <3>1. op'.pair = op.pair
      BY <1>0, <2>1 DEF WriteSnapshot, TypeOK, Ops
    <3> QED BY <1>1, <2>1, <3>1 DEF WriteSnapshot, stackVars
  <2>2. CASE NoSnapshot \/ PruneHistory
    BY <1>1, <2>2 DEF NoSnapshot, PruneHistory, Goto, diskVars, stackVars
  <2> QED BY <1>11, <2>1, <2>2 DEF Snapshot
<1>12. CASE UndoRedo
  <2>1. CASE PeekUndo \/ PeekRedo
    <3>1. op'.pair = op.pair
      BY <1>0, <2>1 DEF PeekUndo, PeekRedo, TypeOK, Ops
    <3> QED BY <1>1, <2>1, <3>1 DEF PeekUndo, PeekRedo, diskVars, stackVars
  <2>2. CASE BeginUndo \/ BeginRedo
    BY <1>1, <2>2 DEF BeginUndo, BeginRedo, NoOp, diskVars, stackVars
  <2>3. CASE PeekRefuses \/ Restore \/ RestoreLeavesFile \/ RestoreFails
    BY <1>1, <2>3
       DEF PeekRefuses, Restore, RestoreLeavesFile, RestoreFails, Goto, Return,
           diskVars, stackVars
  <2> QED BY <1>6, <1>7, <1>8, <1>12, <2>1, <2>2, <2>3 DEF UndoRedo
<1>13. CASE Outside
  <2>1. CASE \E f \in OutsideFiles : OutsideWrite(f) \/ SyncDownload(f)
    BY <1>1, <2>1 DEF OutsideWrite, SyncDownload, stackVars
  <2> QED BY <1>9, <1>13, <2>1 DEF Outside
<1>14. CASE UNCHANGED vars
  BY <1>1, <1>14 DEF vars, diskVars, stackVars
<1> QED BY <1>10, <1>11, <1>12, <1>13, <1>14 DEF Next

\* A snapshot that names a content keeps naming it, or is gone.
LEMMA SnapKept ==
    ASSUME SnapsOnlyGo, TypeOK, TypeOK', NEW i \in SnapIds, i < nextSnap, NEW c,
           snaps[i] \in {c, Missing}
    PROVE  i < nextSnap' /\ snaps'[i] \in {c, Missing}
<1>1. nextSnap \in Nat /\ nextSnap' \in Nat /\ i \in Nat
  BY ConstantsAssumption DEF TypeOK, SnapIds
<1>2. snaps'[i] \in {snaps[i], Missing} /\ nextSnap <= nextSnap'
  BY DEF SnapsOnlyGo
<1> QED BY <1>1, <1>2

\* Neither a snapshot written under a fresh number nor one that goes disturbs what
\* an entry says.
LEMMA ExactSurvives ==
    ASSUME SnapsOnlyGo, TypeOK, TypeOK', NEW e \in Entries, UndoExact(e)
    PROVE  UndoExact(e)'
<1>1. e.snap \in SnapIds \cup {NoSnap}
  BY DEF Entries
<1>2. ASSUME e.snap # NoSnap
      PROVE  e.snap < nextSnap' /\ snaps'[e.snap] \in {e.was, Missing}
  BY <1>1, <1>2, SnapKept DEF UndoExact
<1> QED BY <1>2 DEF UndoExact

\* What the journal keeps of an exact entry is exact when it is read back.
LEMMA ReadBackExact ==
    /\ \A e \in Entries : UndoExact(e) => UndoExact(ReadBack(e))
    /\ \A e \in Entries : RedoExact(e) => RedoExact(ReadBack(e))
BY DEF UndoExact, RedoExact, ReadBack, Entries

\* The entries a save and a redo push say exactly what they replace.
LEMMA PushedExact ==
    ASSUME TypeOK, OpExact
    PROVE  UndoExact(CommitEntry) /\ UndoExact(UndoEntryOfRedo) /\ RedoExact(RedoEntry)
<1>1. op.raw \in Files /\ NoText \notin Bodies
  BY ConstantsAssumption DEF TypeOK, Ops
<1>2. Text(op.raw) # NoText => op.raw # Missing
  BY DEF Text
<1>3. UndoExact(CommitEntry)
  BY <1>1, <1>2 DEF OpExact, UndoExact, CommitEntry
<1>4. UndoExact(UndoEntryOfRedo)
  BY <1>1, <1>2 DEF OpExact, UndoExact, UndoEntryOfRedo
<1>5. RedoExact(RedoEntry)
  BY DEF RedoExact, RedoEntry
<1> QED BY <1>3, <1>4, <1>5

\* What an operation holds stays true of what it is about to replace.
LEMMA OpStaysExact ==
    ASSUME Typed, OpExact, [Next]_vars, SnapsOnlyGo
    PROVE  OpExact'
<1>0. /\ nextSnap \in Nat /\ nextSnap' \in Nat /\ op \in Ops
      /\ op.snap \in SnapIds \cup {NoSnap} /\ SnapIds \subseteq Nat
  <2>1. TypeOK /\ TypeOK'
    BY TypedNext DEF Typed
  <2> QED BY <2>1, ConstantsAssumption DEF TypeOK, Ops, SnapIds
<1>1. ASSUME op'.snap = NoSnap PROVE OpExact'
  BY <1>1 DEF OpExact
<1>2. ASSUME UNCHANGED op,
             pc' \in {"hydrate", "install", "peek"} =>
                op.kind = "commit" \/ pc \in {"hydrate", "install", "peek"}
      PROVE  OpExact'
  <2>1. TypeOK /\ TypeOK'
    BY TypedNext DEF Typed
  <2>2. ASSUME op.snap # NoSnap
        PROVE  op.snap < nextSnap' /\ snaps'[op.snap] \in {op.raw, Missing}
    <3>1. /\ op.snap \in SnapIds /\ op.snap < nextSnap
          /\ snaps[op.snap] \in {op.raw, Missing}
      BY <1>0, <2>2 DEF OpExact
    <3> QED BY <2>1, <3>1, SnapKept
  <2> QED BY <1>2, <2>2 DEF OpExact
<1>3. CASE op' = NoOp
  BY <1>1, <1>3 DEF NoOp
<1>4. CASE Hydrate
  <2>1. CASE HydrateRead
    <3>1. op'.snap = op.snap /\ op'.raw = op.raw /\ op'.kind = op.kind
      BY <1>0, <2>1 DEF HydrateRead, Ops
    <3> QED BY <2>1, <3>1 DEF HydrateRead, OpExact, diskVars
  <2>2. CASE HydrateSkip \/ HydrateInstall
    BY <1>2, <2>2 DEF HydrateSkip, HydrateInstall, Goto
  <2> QED BY <1>4, <2>1, <2>2 DEF Hydrate
<1>5. CASE Commit
  <2>1. CASE \E text \in NewBodies, keep \in SnapshotFlags : BeginCommit(text, keep)
    BY <1>1, <2>1 DEF BeginCommit, NoOp
  <2>2. CASE Register
    <3>1. op'.snap = op.snap /\ op'.raw = op.raw /\ op'.kind = op.kind
      BY <1>0, <2>2 DEF Register, Ops
    <3> QED BY <2>2, <3>1 DEF Register, OpExact, diskVars
  <2>3. CASE WriteJournal
    BY <1>2, <2>3 DEF WriteJournal, Goto
  <2>4. CASE WriteTable \/ WriteTableFails
    BY <1>3, <2>4 DEF WriteTable, WriteTableFails, Return
  <2> QED BY <1>5, <2>1, <2>2, <2>3, <2>4 DEF Commit
<1>6. CASE Snapshot
  <2>1. CASE WriteSnapshot
    <3>1. nextSnap \in SnapIds /\ snaps \in [SnapIds -> Files]
      BY <1>0, <2>1, ConstantsAssumption
         DEF Typed, TypeOK, RoomForSnapshot, WriteSnapshot, SnapIds
    <3>2. op'.snap = nextSnap /\ op'.raw = op.raw /\ op'.kind = op.kind
      BY <1>0, <2>1 DEF WriteSnapshot, Ops
    <3> QED BY <1>0, <2>1, <3>1, <3>2 DEF WriteSnapshot, AfterSnapshot, OpExact
  <2>2. CASE NoSnapshot
    BY <1>2, <2>2 DEF NoSnapshot, Goto, AfterSnapshot
  <2>3. CASE PruneHistory
    BY <1>2, <2>3 DEF PruneHistory, Goto
  <2> QED BY <1>6, <2>1, <2>2, <2>3 DEF Snapshot
<1>7. CASE UndoRedo
  <2>1. CASE PeekUndo \/ PeekRedo
    <3>1. op.snap = NoSnap
      BY <2>1 DEF PeekUndo, PeekRedo, OpExact
    <3>2. op'.snap = op.snap
      BY <1>0, <2>1 DEF PeekUndo, PeekRedo, Ops
    <3> QED BY <1>1, <3>1, <3>2
  <2>2. CASE BeginUndo \/ BeginRedo
    BY <1>1, <2>2 DEF BeginUndo, BeginRedo, NoOp
  <2>3. CASE PeekRefuses \/ RestoreFails \/ JournalPersist
    BY <1>3, <2>3 DEF PeekRefuses, RestoreFails, JournalPersist, Return
  <2>4. CASE Restore \/ RestoreLeavesFile \/ SettleUndo \/ SettleRedo
    BY <1>2, <2>4 DEF Restore, RestoreLeavesFile, SettleUndo, SettleRedo, Goto
  <2> QED BY <1>7, <2>1, <2>2, <2>3, <2>4 DEF UndoRedo
<1>8. CASE Outside
  <2>1. CASE Crash
    BY <1>3, <2>1 DEF Crash, Return
  <2> QED BY <1>2, <1>8, <2>1
          DEF Outside, OutsideWrite, SyncDownload, ForgetErase, ForgetUnlink,
              SiblingPrune
<1>9. CASE UNCHANGED vars
  BY <1>2, <1>9 DEF vars
<1> QED BY <1>4, <1>5, <1>6, <1>7, <1>8, <1>9 DEF Next

\* At first there are no entries.
LEMMA ExactInit == Init => HistoryExact
<1> SUFFICES ASSUME Init PROVE HistoryExact
  OBVIOUS
<1>1. UndoEntries = {} /\ RedoEntries = {}
  BY NothingOnEmpty DEF Init, UndoEntries, RedoEntries
<1>2. OpExact
  BY DEF Init, OpExact, NoOp
<1> QED BY <1>1, <1>2 DEF HistoryExact

\* Every entry after a step is an exact one that survives, or a pushed one that
\* is exact.
LEMMA ExactNext == Typed /\ HistoryExact /\ [Next]_vars => HistoryExact'
<1> SUFFICES ASSUME Typed, HistoryExact, [Next]_vars
             PROVE  HistoryExact'
  OBVIOUS
<1>1. /\ TypeOK /\ TypeOK' /\ SnapsOnlyGo /\ OpExact
      /\ CommitEntry \in Entries /\ UndoEntryOfRedo \in Entries
  BY TypedNext, SnapsGo, PushedTyped DEF Typed, HistoryExact
<1>2. ASSUME NEW e \in UndoEntries'
      PROVE  UndoExact(e)'
  <2>1. UndoOrigin(e)
    BY Origins
  <2>2. e \in Entries /\ UndoExact(e)
    <3>1. CASE e \in UndoEntries
      BY <1>1, <3>1, ItemsTyped DEF HistoryExact
    <3>2. CASE \E d \in UndoEntries : e = ReadBack(d)
      <4>1. PICK d \in UndoEntries : e = ReadBack(d)
        BY <3>2
      <4>2. d \in Entries /\ UndoExact(d)
        BY <1>1, ItemsTyped DEF HistoryExact
      <4>3. ReadBack(d) \in Entries
        BY <4>2 DEF ReadBack, Entries
      <4> QED BY <4>1, <4>2, <4>3, ReadBackExact
    <3>3. CASE e \in {CommitEntry, UndoEntryOfRedo}
      BY <1>1, <3>3, PushedExact
    <3> QED BY <2>1, <3>1, <3>2, <3>3 DEF UndoOrigin
  <2> QED BY <1>1, <2>2, ExactSurvives
<1>3. ASSUME NEW e \in RedoEntries'
      PROVE  RedoExact(e)
  <2>1. RedoOrigin(e)
    BY Origins
  <2>2. CASE e \in RedoEntries
    BY <2>2 DEF HistoryExact
  <2>3. CASE \E d \in RedoEntries : e = ReadBack(d)
    BY <1>1, <2>3, ItemsTyped, ReadBackExact DEF HistoryExact
  <2>4. CASE e = RedoEntry
    BY <1>1, <2>4, PushedExact
  <2> QED BY <2>1, <2>2, <2>3, <2>4 DEF RedoOrigin
<1>4. OpExact'
  BY <1>1, OpStaysExact
<1> QED BY <1>2, <1>3, <1>4 DEF HistoryExact, RedoExact

\* What an entry says is enough for undo to put the replaced bytes back, or the
\* text they decode to when a redo left it without a snapshot.
LEMMA ExactUndo ==
    ASSUME TypeOK, HistoryExact, NEW e \in UndoEntries, CanUndo(e)
    PROVE  \/ UndoBytes(e) = e.was
           \/ e.by = "redo" /\ e.snap = NoSnap /\ e.text # NoText /\ Lossy(e.was)
<1>1. e \in Entries /\ e.was \in Files /\ UndoExact(e)
  BY ItemsTyped DEF HistoryExact, Entries
<1>2. CASE ~e.existed \/ HasSnapshot(e)
  BY <1>1, <1>2 DEF UndoExact, UndoBytes, HasSnapshot
<1>3. CASE e.existed /\ ~HasSnapshot(e)
  <2>1. e.text # NoText /\ ~e.lossy
    BY <1>3 DEF CanUndo
  <2>2. e.was # Missing /\ e.text = Text(e.was) /\ e.had_bom = HasBom(e.was)
    BY <1>1, <1>3, <2>1 DEF UndoExact
  <2>3. e.was \in Contents
    BY <1>1, <2>2 DEF Files
  <2>4. e.had_bom = e.was.bom
    BY <2>2, <2>3 DEF HasBom, Contents
  <2>5. UndoBytes(e) = Encode(Decode[e.was.body], e.was.bom)
    BY <1>3, <2>2, <2>4 DEF UndoBytes, Text
  <2>6. CASE ~Lossy(e.was)
    <3>1. Decode[e.was.body] = e.was.body
      BY <2>2, <2>6 DEF Lossy
    <3>2. Encode(e.was.body, e.was.bom) = e.was
      BY <2>3 DEF Encode, Contents
    <3> QED BY <2>5, <3>1, <3>2
  <2>7. CASE Lossy(e.was)
    BY <1>1, <2>1, <2>7 DEF UndoExact
  <2> QED BY <2>6, <2>7
<1> QED BY <1>2, <1>3

\* A redo entry that is exact brings back the text that was undone.
LEMMA ExactRedo == TypeOK /\ HistoryExact => RedoBringsTextBack
<1> SUFFICES ASSUME TypeOK, HistoryExact, NEW e \in RedoEntries
             PROVE  Text(RedoBytes(e)) = Text(e.was)
  BY DEF RedoBringsTextBack
<1>1. e \in Entries /\ e.was \in Files /\ e.existed /\ e.text = Text(e.was)
  BY ItemsTyped DEF HistoryExact, RedoExact, Entries
<1>2. CASE e.text = NoText
  BY <1>1, <1>2 DEF RedoBytes, Text
<1>3. CASE e.text # NoText
  <2>1. e.was \in Contents /\ e.text = Decode[e.was.body] /\ e.was.body \in Bodies
    BY <1>1, <1>3 DEF Text, Files, Contents
  <2>2. Decode[e.text] = e.text
    BY <2>1, ConstantsAssumption
  <2>3. RedoBytes(e) = Encode(e.text, e.had_bom) /\ e.had_bom \in BOOLEAN
    BY <1>1, <1>3 DEF RedoBytes, Entries
  <2>4. RedoBytes(e) # Missing
    BY <2>1, <2>3, EncodeTyped, ConstantsAssumption
  <2>5. Text(RedoBytes(e)) = Decode[e.text]
    BY <2>3, <2>4 DEF Text, Encode
  <2> QED BY <1>1, <2>2, <2>5
<1> QED BY <1>2, <1>3

\* The history is exact in every behaviour.
LEMMA SpecExact == Spec => [](TypeOK /\ HistoryExact)
<1>1. Typed => TypeOK
  BY DEF Typed
<1>2. Init => Typed /\ HistoryExact
  BY TypedInit, ExactInit
<1>3. Typed /\ HistoryExact /\ [Next]_vars => (Typed /\ HistoryExact)'
  BY TypedNext, ExactNext
<1> QED BY <1>1, <1>2, <1>3, PTL DEF Spec

\* What the snapshot, the text and the flags of an entry say of the content it is
\* to bring back stays true of it, on the stacks and in the journal, whatever
\* fails: commit(), undo() and redo() never let an entry and its snapshot part.
THEOREM HistoryStaysExact == Spec => []HistoryExact
BY SpecExact, PTL

\* Whatever fails, whoever writes the file in between and whenever the process
\* dies, undo() never puts back other bytes than those a save replaced, nor any
\* other bytes than the valid UTF-8 a step replaced: exactly these, or it refuses.
THEOREM UndoNeverCorrupts == Spec => []SavesUndoExactly
<1>1. TypeOK /\ HistoryExact => SavesUndoExactly
  <2> SUFFICES ASSUME TypeOK, HistoryExact, NEW e \in UndoEntries, CanUndo(e),
                      e.by = "commit" \/ ~Lossy(e.was)
               PROVE  UndoBytes(e) = e.was
    BY DEF SavesUndoExactly
  <2> QED BY ExactUndo
<1> QED BY <1>1, SpecExact, PTL

\* Where snapshots can be written, a step that a redo left has one, or there was
\* no table to snapshot and it is refused.
RedoSnapped ==
    /\ \A e \in UndoEntries : e.by = "redo" /\ e.snap = NoSnap => e.text = NoText
    /\ op.kind = "redo" /\ pc \in {"restore", "settle"} /\ op.snap = NoSnap => op.raw = Missing
    /\ op.kind = "redo" /\ pc = "snapshot" => op.keep

\* A redo takes its snapshot before it restores.
LEMMA RedoSnappedNext ==
    ASSUME Typed, RedoSnapped, [Next]_vars, "snapshot" \notin Faults
    PROVE  RedoSnapped'
<1>1. ASSUME NEW e \in UndoEntries', e.by = "redo", e.snap = NoSnap
      PROVE  e.text = NoText
  <2>1. UndoOrigin(e)
    BY Origins
  <2>2. CASE e \in UndoEntries
    BY <1>1, <2>2 DEF RedoSnapped
  <2>3. CASE \E d \in UndoEntries : e = ReadBack(d)
    <3>1. PICK d \in UndoEntries : e = ReadBack(d)
      BY <2>3
    <3>2. d \in Entries
      BY ItemsTyped DEF Typed
    <3> QED BY <1>1, <3>1, <3>2 DEF RedoSnapped, ReadBack, Entries
  <2>4. CASE e = CommitEntry
    BY <1>1, <2>4 DEF CommitEntry
  <2>5. CASE pc = "settle" /\ op.kind = "redo" /\ e = UndoEntryOfRedo
    BY <1>1, <2>5 DEF UndoEntryOfRedo, RedoSnapped, Text
  <2> QED BY <2>1, <2>2, <2>3, <2>4, <2>5 DEF UndoOrigin
<1>2. ASSUME op'.kind = "redo", pc' \in {"restore", "settle"}, op'.snap = NoSnap
      PROVE  op'.raw = Missing
  <2>1. CASE UNCHANGED <<op, pc>> \/ Restore \/ RestoreLeavesFile
    BY <1>2, <2>1 DEF Restore, RestoreLeavesFile, Goto, RedoSnapped
  <2>2. CASE Hydrate
    BY <1>2, <2>2 DEF Hydrate, HydrateSkip, HydrateRead, HydrateInstall, Goto, AfterHydrate
  <2>3. CASE Commit
    BY <1>2, <2>3
       DEF Commit, BeginCommit, Register, WriteJournal, WriteTable, WriteTableFails, Goto, Return
  <2>4. CASE NoSnapshot
    BY <1>2, <2>4 DEF NoSnapshot, Goto, AfterSnapshot, RedoSnapped
  <2>5. CASE WriteSnapshot
    BY <1>2, <2>5, ConstantsAssumption
       DEF WriteSnapshot, Typed, TypeOK, Ops, NoSnap
  <2>6. CASE PruneHistory
    BY <1>2, <2>6 DEF PruneHistory, Goto
  <2>7. CASE UndoRedo
    BY <1>2, <2>1, <2>7
       DEF UndoRedo, BeginUndo, BeginRedo, PeekUndo, PeekRedo, PeekRefuses, RestoreFails,
           SettleUndo, SettleRedo, JournalPersist, Goto, Return, Typed, TypeOK, Ops
  <2>8. CASE Outside
    BY <1>2, <2>1, <2>8
       DEF Outside, OutsideWrite, SyncDownload, ForgetErase, ForgetUnlink, SiblingPrune, Crash,
           Return
  <2> QED BY <2>1, <2>2, <2>3, <2>4, <2>5, <2>6, <2>7, <2>8 DEF Next, Snapshot, vars
<1>3. ASSUME op'.kind = "redo", pc' = "snapshot"
      PROVE  op'.keep
  <2>1. CASE UNCHANGED <<op, pc>>
    BY <1>3, <2>1 DEF RedoSnapped
  <2>2. CASE Hydrate \/ Commit \/ Snapshot
    BY <1>3, <2>2
       DEF Hydrate, HydrateSkip, HydrateRead, HydrateInstall, AfterHydrate, Commit, BeginCommit,
           Register, WriteJournal, WriteTable, WriteTableFails, Snapshot, WriteSnapshot,
           NoSnapshot, PruneHistory, AfterSnapshot, Goto, Return, NoOp, Typed, TypeOK, Ops
  <2>3. CASE UndoRedo
    BY <1>3, <2>3
       DEF UndoRedo, BeginUndo, BeginRedo, PeekUndo, PeekRedo, PeekRefuses, Restore,
           RestoreLeavesFile, RestoreFails, SettleUndo, SettleRedo, JournalPersist, Goto, Return,
           Typed, TypeOK, Ops
  <2>4. CASE Outside
    BY <1>3, <2>1, <2>4
       DEF Outside, OutsideWrite, SyncDownload, ForgetErase, ForgetUnlink, SiblingPrune, Crash,
           Return
  <2> QED BY <2>1, <2>2, <2>3, <2>4 DEF Next, vars
<1> QED BY <1>1, <1>2, <1>3 DEF RedoSnapped

\* Where every snapshot can be written, undo() is exact for every step, whatever
\* else fails.
THEOREM UndoIsExactWithSnapshots ==
    ASSUME "snapshot" \notin Faults
    PROVE  Spec => []UndoIsExact
<1>1. Init => RedoSnapped
  BY DEF Init, RedoSnapped, UndoEntries, ItemsOf, NoOp, EmptyPair
<1>2. Typed /\ RedoSnapped /\ [Next]_vars => RedoSnapped'
  BY RedoSnappedNext
<1>3. TypeOK /\ HistoryExact /\ RedoSnapped => UndoIsExact
  BY ExactUndo DEF UndoIsExact, RedoSnapped
<1>4. Init => Typed
  BY TypedInit
<1>5. Typed /\ [Next]_vars => Typed'
  BY TypedNext
<1>6. Spec => []RedoSnapped
  BY <1>1, <1>2, <1>4, <1>5, PTL DEF Spec
<1> QED BY <1>3, <1>6, SpecExact, PTL

\* redo() brings back the text the undo took away, across process deaths.
THEOREM RedoNeverCorrupts == Spec => []RedoBringsTextBack
BY ExactRedo, SpecExact, PTL

-----------------------------------------------------------------------------
(* The snapshots                                                           *)

\* Snapshot numbers are handed out upwards: no file has a number to come.
NothingAhead == \A i \in SnapIds : i >= nextSnap => snaps[i] = Missing

SnapsInOrder == NothingAhead /\ PruneTakesTheOldest

\* What the steps do to the snapshots when no table's name extends this one's.
LEMMA SnapSteps ==
    ASSUME Typed, [Next]_vars, "sibling" \notin Faults
    PROVE  \/ WriteSnapshot
           \/ snaps' = Pruned /\ nextSnap' = nextSnap
           \/ UNCHANGED <<snaps, nextSnap>>
<1>1. CASE Hydrate \/ Commit
  BY <1>1
     DEF Hydrate, HydrateSkip, HydrateRead, HydrateInstall, Commit, BeginCommit,
         Register, WriteJournal, WriteTable, WriteTableFails, diskVars
<1>2. CASE UndoRedo
  BY <1>2
     DEF UndoRedo, BeginUndo, BeginRedo, PeekUndo, PeekRedo, PeekRefuses, Restore,
         RestoreLeavesFile, RestoreFails, SettleUndo, SettleRedo, JournalPersist,
         diskVars
<1>3. CASE Snapshot
  BY <1>3 DEF Snapshot, NoSnapshot, PruneHistory, diskVars
<1>4. CASE Outside
  BY <1>4
     DEF Outside, OutsideWrite, SyncDownload, ForgetErase, ForgetUnlink, SiblingPrune,
         Crash, diskVars
<1>5. CASE UNCHANGED vars
  BY <1>5 DEF vars, diskVars
<1> QED BY <1>1, <1>2, <1>3, <1>4, <1>5 DEF Next

\* A snapshot that prune_history removes has HistoryKeep snapshots after it, all of
\* them numbered below nextSnap.
LEMMA PrunedHasNewer ==
    ASSUME TypeOK, NothingAhead, NEW i \in SnapIds, i < nextSnap,
           snaps[i] # Missing, Pruned[i] = Missing
    PROVE  nextSnap - 1 - i >= HistoryKeep
<1> DEFINE newer == {j \in Present : j > i}
<1>1. nextSnap \in Nat /\ i \in Nat /\ HistoryKeep \in Nat /\ SnapIds \subseteq Nat
  BY ConstantsAssumption DEF TypeOK, SnapIds
<1>2. newer \subseteq (i + 1)..(nextSnap - 1)
  <2>1. ASSUME NEW j \in SnapIds, snaps[j] # Missing, j > i
        PROVE  j \in (i + 1)..(nextSnap - 1)
    <3>1. j \in Nat /\ ~(j >= nextSnap)
      BY <1>1, <2>1 DEF NothingAhead
    <3> QED BY <1>1, <2>1, <3>1
  <2> QED BY <2>1 DEF Present
<1>3. /\ IsFiniteSet((i + 1)..(nextSnap - 1))
      /\ Cardinality((i + 1)..(nextSnap - 1)) = nextSnap - 1 - i
  BY <1>1, FS_Interval
<1>4. Cardinality(newer) \in Nat /\ Cardinality(newer) <= nextSnap - 1 - i
  BY <1>2, <1>3, FS_Subset, FS_CardinalityType
<1>5. ~(Cardinality(newer) < HistoryKeep)
  BY DEF Pruned
<1> QED BY <1>1, <1>4, <1>5

\* A step writes the next number or takes the oldest ones beyond HistoryKeep.
LEMMA SnapsInOrderNext ==
    ASSUME Typed, [Next]_vars, "sibling" \notin Faults, SnapsInOrder
    PROVE  SnapsInOrder'
<1>1. /\ TypeOK /\ nextSnap \in Nat /\ HistoryKeep \in Nat /\ SnapIds \subseteq Nat
      /\ snaps \in [SnapIds -> Files]
  BY ConstantsAssumption DEF Typed, TypeOK, SnapIds
<1>2. NothingAhead /\ PruneTakesTheOldest
  BY DEF SnapsInOrder
<1>3. CASE WriteSnapshot
  <2>1. snaps' = [snaps EXCEPT ![nextSnap] = op.raw] /\ nextSnap' = nextSnap + 1
        /\ op.raw # Missing
    BY <1>3 DEF WriteSnapshot
  <2>2. NothingAhead'
    BY <1>1, <1>2, <2>1 DEF NothingAhead
  <2>3. PruneTakesTheOldest'
    BY <1>1, <1>2, <2>1 DEF PruneTakesTheOldest
  <2> QED BY <2>2, <2>3 DEF SnapsInOrder
<1>4. CASE snaps' = Pruned /\ nextSnap' = nextSnap
  <2>1. NothingAhead'
    BY <1>1, <1>2, <1>4 DEF NothingAhead, Pruned
  <2>2. PruneTakesTheOldest'
    BY <1>1, <1>2, <1>4, PrunedHasNewer DEF PruneTakesTheOldest
  <2> QED BY <2>1, <2>2 DEF SnapsInOrder
<1>5. CASE UNCHANGED <<snaps, nextSnap>>
  BY <1>2, <1>5 DEF SnapsInOrder, NothingAhead, PruneTakesTheOldest
<1> QED BY <1>3, <1>4, <1>5, SnapSteps

\* At first there is no snapshot.
LEMMA SnapsInOrderInit == Init => SnapsInOrder
BY ConstantsAssumption DEF Init, SnapsInOrder, NothingAhead, PruneTakesTheOldest, SnapIds

\* prune_history takes a snapshot only once HistoryKeep newer ones have been
\* written, whatever fails and whenever the process dies, as long as no other
\* table's prune takes this table's files for its own.
THEOREM NewestSnapshotsStay ==
    ASSUME "sibling" \notin Faults
    PROVE  Spec => []PruneTakesTheOldest
<1>1. Init => Typed /\ SnapsInOrder
  BY TypedInit, SnapsInOrderInit
<1>2. Typed /\ SnapsInOrder /\ [Next]_vars => (Typed /\ SnapsInOrder)'
  BY TypedNext, SnapsInOrderNext
<1>3. SnapsInOrder => PruneTakesTheOldest
  BY DEF SnapsInOrder
<1> QED BY <1>1, <1>2, <1>3, PTL DEF Spec

-----------------------------------------------------------------------------
(* The journal                                                             *)

\* The setting of the theorems below: the table exists, saves keep a snapshot,
\* and the process may die, fail to write the table or to restore it, and find
\* the table written by others, but the history's own files are its alone.
HistoryIsItsOwn ==
    /\ InitialFiles \subseteq Contents
    /\ SnapshotFlags = {TRUE}
    /\ Faults \subseteq {"crash", "crashAfterRestore", "write", "restore",
                        "unlink", "outside"}

Reversible(e) == e.existed /\ e.snap # NoSnap
Repeatable(e) == e.existed /\ e.text # NoText

\* The journal keeps every step of the stacks, and keeps it whole.
StepsKept ==
    /\ \A e \in UndoEntries : Reversible(e)
    /\ \A e \in RedoEntries : Repeatable(e)

\* Which operation is at which step.
StepsOf(kind) ==
    CASE kind = "none"   -> {"idle"}
      [] kind = "commit" -> {"snapshot", "hydrate", "install", "register", "prune",
                             "journal", "write"}
      [] kind = "undo"   -> {"hydrate", "install", "peek", "restore", "settle", "persist"}
      [] kind = "redo"   -> {"hydrate", "install", "peek", "snapshot", "restore", "settle",
                             "prune", "persist"}

InStep == pc \in StepsOf(op.kind)

\* The operation has read the table.
HasRead == op.kind = "commit" \/ pc \in {"snapshot", "restore", "settle"}

FilesThere ==
    /\ file # Missing
    /\ HasRead => op.raw # Missing /\ op.new # Missing
    /\ pc = "snapshot" => op.keep

\* Past "snapshot" the operation holds the newest snapshot.
SnapshotTaken ==
    /\ op.snap # NoSnap => op.snap = nextSnap - 1
    /\ \/ op.kind = "commit" /\ pc # "snapshot"
       \/ op.kind = "redo" /\ pc \in {"restore", "settle"}
       => op.snap # NoSnap

StackHasStep ==
    /\ undo # <<>> \/ redo # <<>> => registered
    /\ registered \/ pc = "register" => hydrated
    /\ op.kind = "undo" /\ pc \in {"restore", "settle"} => undo # <<>>
    /\ op.kind = "redo" /\ pc \in {"snapshot", "restore", "settle"} => redo # <<>>
    /\ op.kind # "commit" /\ pc \in {"prune", "persist"} => registered

Stacks == [undo |-> undo, redo |-> redo]

\* The stacks have moved and the journal is about to follow.
Lagging ==
    \/ op.kind = "commit" /\ pc \in {"prune", "journal"}
    \/ op.kind # "commit" /\ pc \in {"prune", "persist"}

JournalFollows ==
    /\ hydrated /\ ~Lagging => journal = Stacks
    /\ pc = "install" => op.pair = journal /\ ~hydrated
    /\ op.kind = "commit" /\ Lagging => op.pair = Stacks

NoDownload == forgetting = "no"

Mirror ==
    /\ InStep /\ StepsKept /\ FilesThere /\ SnapshotTaken /\ StackHasStep
    /\ JournalFollows /\ NoDownload

\* The journal leaves out nothing of a stack whose steps all have a snapshot.
LEMMA JournalWhole ==
    ASSUME NEW u \in Seq(Entries), \A e \in ItemsOf(u) : Reversible(e)
    PROVE  Journaled(u) = u
<1> DEFINE T == {i \in DOMAIN u : \A j \in 1..i : ~TextOnly(u[j])}
<1>1. Len(u) \in Nat /\ DOMAIN u = 1..Len(u)
  OBVIOUS
<1>2. \A i \in 1..Len(u) : ~TextOnly(u[i])
  BY <1>1 DEF ItemsOf, Reversible, TextOnly
<1>3. T = 1..Len(u)
  BY <1>1, <1>2
<1>4. Cardinality(T) = Len(u)
  <2> HIDE DEF T
  <2> QED BY <1>1, <1>3, FS_Interval
<1>5. Journaled(u) = SubSeq(u, 1, Cardinality(T))
  BY DEF Journaled
<1>6. SubSeq(u, 1, Len(u)) = u
  OBVIOUS
<1> HIDE DEF T
<1> QED BY <1>4, <1>5, <1>6

\* Reading the journal back changes no step that replaced an existing table.
LEMMA ReadBackWhole ==
    ASSUME NEW s \in Seq(Entries), \A e \in ItemsOf(s) : e.existed
    PROVE  ReadBackAll(s) = s
<1>1. \A i \in DOMAIN s : ReadBack(s[i]) = s[i]
  BY DEF ItemsOf, ReadBack
<1> QED BY <1>1 DEF ReadBackAll

\* The last entry of a trimmed stack is the one just pushed.
LEMMA TrimKeepsLast ==
    ASSUME NEW S, NEW s \in Seq(S), NEW e \in S
    PROVE  LET t == Trim(Append(s, e)) IN t # <<>> /\ LastOf(t) = e
<1> DEFINE t == Append(s, e)
<1>1. t \in Seq(S) /\ Len(t) = Len(s) + 1 /\ t[Len(t)] = e /\ Len(s) \in Nat
  OBVIOUS
<1>2. HistoryLimit \in Nat \ {0}
  BY ConstantsAssumption
<1>3. CASE Len(t) > HistoryLimit
  <2> DEFINE k == Len(t) - HistoryLimit + 1
             u == SubSeq(t, k, Len(t))
  <2>1. k \in 1..Len(t)
    BY <1>1, <1>2, <1>3
  <2>2. u \in Seq(S) /\ Len(u) = Len(t) - k + 1
    BY <1>1, <2>1
  <2>3. u # <<>> /\ u[Len(u)] = t[Len(t)]
    BY <1>1, <2>1, <2>2
  <2> QED BY <1>1, <1>3, <2>3 DEF Trim, LastOf
<1>4. CASE ~(Len(t) > HistoryLimit)
  BY <1>1, <1>4 DEF Trim, LastOf
<1> QED BY <1>3, <1>4

\* Every undo entry has a snapshot and every redo entry text: the journal cuts none.
LEMMA StepsKeptNext ==
    ASSUME HistoryIsItsOwn, Typed, Mirror, [Next]_vars
    PROVE  StepsKept'
<1>1. /\ TypeOK /\ FilesThere /\ SnapshotTaken /\ StepsKept /\ InStep
      /\ NoText \notin Bodies /\ op \in Ops
  BY ConstantsAssumption DEF Typed, TypeOK, Mirror
<1>2. ASSUME NEW e \in UndoEntries'
      PROVE  Reversible(e)
  <2>1. UndoOrigin(e)
    BY Origins
  <2>2. CASE e \in UndoEntries
    BY <1>1, <2>2 DEF StepsKept
  <2>3. ASSUME NEW d \in UndoEntries, e = ReadBack(d)
        PROVE  Reversible(e)
    BY <1>1, <2>3 DEF StepsKept, ReadBack, Reversible
  <2>4. CASE pc = "register" /\ e = CommitEntry
    BY <1>1, <2>4
       DEF InStep, StepsOf, Ops, FilesThere, HasRead, SnapshotTaken, CommitEntry, Reversible
  <2>5. CASE pc = "settle" /\ op.kind = "redo" /\ e = UndoEntryOfRedo
    BY <1>1, <2>5 DEF SnapshotTaken, UndoEntryOfRedo, Reversible
  <2> QED BY <2>1, <2>2, <2>3, <2>4, <2>5 DEF UndoOrigin
<1>3. ASSUME NEW e \in RedoEntries'
      PROVE  Repeatable(e)
  <2>1. RedoOrigin(e)
    BY Origins
  <2>2. CASE e \in RedoEntries
    BY <1>1, <2>2 DEF StepsKept
  <2>3. ASSUME NEW d \in RedoEntries, e = ReadBack(d)
        PROVE  Repeatable(e)
    BY <1>1, <2>3 DEF StepsKept, ReadBack, Repeatable
  <2>4. CASE pc = "settle" /\ e = RedoEntry
    <3>1. op.raw \in Files /\ op.raw # Missing
      BY <1>1, <2>4 DEF Ops, FilesThere, HasRead
    <3>2. Text(op.raw) # NoText
      BY <1>1, <3>1, ConstantsAssumption DEF Text, Files, Contents
    <3> QED BY <2>4, <3>2 DEF RedoEntry, Repeatable
  <2> QED BY <2>1, <2>2, <2>3, <2>4 DEF RedoOrigin
<1> QED BY <1>2, <1>3 DEF StepsKept

\* The bytes undo and redo write are there to be written.
LEMMA RestoredThere ==
    ASSUME TypeOK, StepsKept
    PROVE  /\ undo # <<>> /\ CanUndo(LastOf(undo)) => UndoBytes(LastOf(undo)) # Missing
           /\ redo # <<>> => RedoBytes(LastOf(redo)) # Missing
<1>1. /\ undo \in Seq(Entries) /\ redo \in Seq(Entries)
      /\ Missing \notin Contents /\ NoText \notin Bodies
  BY ConstantsAssumption DEF TypeOK
<1>2. ASSUME undo # <<>>, CanUndo(LastOf(undo))
      PROVE  UndoBytes(LastOf(undo)) # Missing
  <2> DEFINE e == LastOf(undo)
  <2>1. e \in Entries /\ e.existed
    BY <1>1, <1>2, PopKeeps DEF StepsKept, UndoEntries, Reversible
  <2>2. CASE HasSnapshot(e)
    BY <2>1, <2>2 DEF UndoBytes, HasSnapshot
  <2>3. CASE ~HasSnapshot(e)
    <3>1. e.text # NoText
      BY <1>2, <2>1, <2>3 DEF CanUndo
    <3>2. Encode(e.text, e.had_bom) \in Contents
      BY <2>1, <3>1, EncodeTyped DEF Entries
    <3> QED BY <1>1, <2>1, <2>3, <3>2 DEF UndoBytes
  <2> QED BY <2>2, <2>3
<1>3. ASSUME redo # <<>>
      PROVE  RedoBytes(LastOf(redo)) # Missing
  <2> DEFINE e == LastOf(redo)
  <2>1. e \in Entries /\ e.existed /\ e.text # NoText
    BY <1>1, <1>3, PopKeeps DEF StepsKept, RedoEntries, Repeatable
  <2>2. Encode(e.text, e.had_bom) \in Contents
    BY <2>1, EncodeTyped DEF Entries
  <2> QED BY <1>1, <2>1, <2>2 DEF RedoBytes
<1> QED BY <1>2, <1>3

\* From the registration to the journal write an operation knows how the two
\* differ.
LEMMA MirrorNext ==
    ASSUME HistoryIsItsOwn, Typed, Mirror, [Next]_vars
    PROVE  Mirror'
<1> DEFINE Rest == InStep /\ FilesThere /\ SnapshotTaken /\ StackHasStep
                   /\ JournalFollows /\ NoDownload
<1>0. /\ TypeOK /\ op \in Ops /\ nextSnap \in Nat \ {0}
      /\ undo \in Seq(Entries) /\ redo \in Seq(Entries)
      /\ journal \in StackPairs /\ Rest /\ Missing \notin Contents
      /\ StepsKept /\ StepsKept'
  BY StepsKeptNext, ConstantsAssumption DEF Mirror, Typed, TypeOK
<1> SUFFICES Rest'
  BY <1>0 DEF Mirror
<1> USE DEF InStep, StepsOf, FilesThere, HasRead, SnapshotTaken, StackHasStep,
            JournalFollows, Lagging, Stacks, NoDownload
<1>1. ASSUME NEW text \in NewBodies, NEW keep \in SnapshotFlags,
             BeginCommit(text, keep)
      PROVE  Rest'
  <2>1. Encode(text, HasBom(file)) # Missing
    BY <1>0, EncodeTyped, TextTyped, ConstantsAssumption DEF TypeOK
  <2> QED BY <1>0, <1>1, <2>1
          DEF HistoryIsItsOwn, BeginCommit, NoOp, NoSnap, diskVars, stackVars, syncVars
<1>2. CASE BeginUndo \/ BeginRedo
  BY <1>0, <1>2 DEF BeginUndo, BeginRedo, NoOp, NoSnap, diskVars, stackVars, syncVars
<1>3. CASE HydrateSkip
  BY <1>0, <1>3 DEF HydrateSkip, Goto, AfterHydrate, Ops, diskVars, stackVars, syncVars
<1>4. CASE HydrateRead
  <2>1. ReadBackAll(journal.undo) = journal.undo /\ ReadBackAll(journal.redo) = journal.redo
    BY <1>0, ReadBackWhole
       DEF StackPairs, StepsKept, UndoEntries, RedoEntries, Reversible, Repeatable
  <2>2. op' = [op EXCEPT !.pair = journal]
    BY <1>0, <1>4, <2>1 DEF HydrateRead, StackPairs
  <2> QED BY <1>0, <1>4, <2>2 DEF HydrateRead, Ops, diskVars, stackVars, syncVars
<1>5. CASE HydrateInstall
  <2>1. undo = <<>> /\ redo = <<>> /\ ~registered /\ op.pair = journal
    BY <1>0, <1>5 DEF HydrateInstall
  <2>2. journal' = Stacks'
    BY <1>0, <1>5, <2>1 DEF HydrateInstall, EmptyPair, StackPairs, diskVars
  <2> QED BY <1>0, <1>5, <2>1, <2>2
          DEF HydrateInstall, Goto, AfterHydrate, Ops, EmptyPair, StackPairs, diskVars,
              syncVars
<1>6. CASE WriteSnapshot
  <2>1. op' = [op EXCEPT !.snap = nextSnap] /\ nextSnap' = nextSnap + 1
    BY <1>6 DEF WriteSnapshot
  <2> QED BY <1>0, <1>6, <2>1
          DEF WriteSnapshot, AfterSnapshot, Ops, NoSnap, stackVars, syncVars
<1>7. CASE NoSnapshot
  BY <1>0, <1>7 DEF NoSnapshot, HistoryIsItsOwn
<1>8. CASE PruneHistory
  BY <1>0, <1>8 DEF PruneHistory, Goto, Ops, stackVars, syncVars
<1>9. CASE Register
  <2>1. CommitEntry \in Entries
    BY <1>0, PushedTyped
  <2>2. undo' # <<>>
    BY <1>0, <1>9, <2>1, TrimKeepsLast DEF Register
  <2>3. op' = [op EXCEPT !.pair = Stacks'] /\ op.kind = "commit"
    BY <1>0, <1>9 DEF Register, Ops
  <2> QED BY <1>0, <1>9, <2>2, <2>3 DEF Register, Ops, diskVars, syncVars
<1>10. CASE WriteJournal
  <2>1. op.kind = "commit" /\ op.pair = Stacks
    BY <1>0, <1>10 DEF WriteJournal, Ops
  <2>2. Journaled(undo) = undo
    BY <1>0, JournalWhole DEF StepsKept, UndoEntries
  <2>3. journal' = Stacks
    BY <1>10, <2>1, <2>2 DEF WriteJournal, JournalOf, HistoryIsItsOwn
  <2> QED BY <1>0, <1>10, <2>1, <2>3 DEF WriteJournal, Goto, stackVars, syncVars
<1>11. CASE WriteTable \/ WriteTableFails
  BY <1>0, <1>11
     DEF WriteTable, WriteTableFails, Return, NoOp, NoSnap, Ops, diskVars, stackVars, syncVars
<1>12. CASE PeekUndo
  <2>1. UndoBytes(LastOf(undo)) # Missing
    BY <1>0, <1>12, RestoredThere DEF PeekUndo
  <2>2. /\ op'.kind = "undo" /\ op'.raw = file /\ op'.new # Missing
        /\ op'.snap = op.snap
    BY <1>0, <1>12, <2>1 DEF PeekUndo, Ops
  <2> QED BY <1>0, <1>12, <2>2 DEF PeekUndo, Ops, diskVars, stackVars, syncVars
<1>13. CASE PeekRedo
  <2>1. RedoBytes(LastOf(redo)) # Missing
    BY <1>0, <1>13, RestoredThere DEF PeekRedo
  <2>2. /\ op'.kind = "redo" /\ op'.raw = file /\ op'.new # Missing
        /\ op'.snap = op.snap /\ op'.keep
    BY <1>0, <1>13, <2>1 DEF PeekRedo, Ops
  <2> QED BY <1>0, <1>13, <2>2 DEF PeekRedo, Ops, diskVars, stackVars, syncVars
<1>14. CASE PeekRefuses
  BY <1>0, <1>14 DEF PeekRefuses, Return, NoOp, NoSnap, diskVars, stackVars, syncVars
<1>15. CASE Restore
  BY <1>0, <1>15 DEF Restore, Goto, Ops, stackVars, syncVars
<1>16. CASE RestoreLeavesFile \/ RestoreFails
  BY <1>0, <1>16
     DEF RestoreLeavesFile, RestoreFails, Return, NoOp, NoSnap, diskVars, stackVars, syncVars
<1>17. CASE SettleUndo
  BY <1>0, <1>17 DEF SettleUndo, Goto, Ops, diskVars, syncVars
<1>18. CASE SettleRedo
  BY <1>0, <1>18 DEF SettleRedo, Goto, Ops, diskVars, syncVars
<1>19. CASE JournalPersist
  <2>1. Journaled(undo) = undo
    BY <1>0, JournalWhole DEF StepsKept, UndoEntries
  <2>2. journal' = Stacks
    BY <1>0, <1>19, <2>1 DEF JournalPersist, JournalOf, HistoryIsItsOwn, Ops
  <2> QED BY <1>0, <1>19, <2>2 DEF JournalPersist, Return, NoOp, NoSnap, stackVars, syncVars
<1>20. ASSUME NEW f \in OutsideFiles, OutsideWrite(f)
       PROVE  Rest'
  <2>1. f # Missing
    BY <1>0, ConstantsAssumption
  <2> QED BY <1>0, <1>20, <2>1 DEF OutsideWrite, stackVars, syncVars
<1>21. CASE Crash
  BY <1>0, <1>21 DEF Crash, Return, NoOp, NoSnap, diskVars
<1>22. CASE UNCHANGED vars
  BY <1>0, <1>22 DEF vars, diskVars, stackVars, syncVars
<1>23. ~ForgetErase /\ ~ForgetUnlink /\ ~SiblingPrune
       /\ \A f \in OutsideFiles : ~SyncDownload(f)
  BY <1>0 DEF HistoryIsItsOwn, ForgetErase, ForgetUnlink, SiblingPrune, SyncDownload
<1> QED
  BY <1>1, <1>2, <1>3, <1>4, <1>5, <1>6, <1>7, <1>8, <1>9, <1>10, <1>11, <1>12,
     <1>13, <1>14, <1>15, <1>16, <1>17, <1>18, <1>19, <1>20, <1>21, <1>22, <1>23
     DEF Next, Hydrate, Commit, Snapshot, UndoRedo, Outside

\* At first stacks and journal are empty.
LEMMA MirrorInit == HistoryIsItsOwn /\ Init => Mirror
<1> SUFFICES ASSUME HistoryIsItsOwn, Init
             PROVE  Mirror
  OBVIOUS
<1>1. UndoEntries = {} /\ RedoEntries = {}
  BY NothingOnEmpty DEF Init, UndoEntries, RedoEntries
<1>2. file # Missing
  BY ConstantsAssumption DEF Init, HistoryIsItsOwn
<1> QED BY <1>1, <1>2
        DEF Init, Mirror, InStep, StepsOf, StepsKept, FilesThere, HasRead, SnapshotTaken,
            StackHasStep, JournalFollows, Lagging, NoDownload, NoOp, NoSnap

\* Stacks and journal go together in every behaviour.
LEMMA SpecMirror == HistoryIsItsOwn /\ Spec => [](Typed /\ Mirror)
<1> SUFFICES ASSUME HistoryIsItsOwn
             PROVE  Spec => [](Typed /\ Mirror)
  OBVIOUS
<1>1. Init => Typed /\ Mirror
  BY TypedInit, MirrorInit
<1>2. Typed /\ Mirror /\ [Next]_vars => (Typed /\ Mirror)'
  BY TypedNext, MirrorNext
<1> QED BY <1>1, <1>2, PTL DEF Spec

\* Whatever fails of the table's own writes, whenever the process dies and whoever
\* else writes the table: with no operation in flight, a process that starts now
\* reads in the journal the very undo and redo stacks of the running one.
THEOREM JournalIsTheHistory ==
    ASSUME HistoryIsItsOwn
    PROVE  Spec => []JournalMirrorsStack
<1>1. Typed /\ Mirror => JournalMirrorsStack
  BY DEF Mirror, StackHasStep, JournalFollows, Lagging, Stacks, JournalMirrorsStack
<1> QED BY <1>1, SpecMirror, PTL

-----------------------------------------------------------------------------
(* The save                                                                *)

\* The save in flight has not lost sight of the bytes it replaces: its step is
\* the last of the stack, then of the journal.
StepRegistered ==
    op.kind = "commit" =>
        /\ op.raw = file
        /\ pc \in {"prune", "journal"} => undo # <<>> /\ LastOf(undo) = CommitEntry
        /\ pc = "write" => journal.undo # <<>> /\ LastOf(journal.undo) = CommitEntry

\* At first no operation is in flight.
LEMMA StepRegisteredInit == Init => StepRegistered
BY DEF Init, StepRegistered, NoOp

\* From its registration to its table write the newest entry is that of the commit.
LEMMA StepRegisteredNext ==
    ASSUME HistoryIsItsOwn, "outside" \notin Faults, Typed, Mirror, StepRegistered, [Next]_vars
    PROVE  StepRegistered'
<1>0. /\ TypeOK /\ op \in Ops /\ undo \in Seq(Entries)
      /\ InStep /\ StepRegistered /\ JournalFollows /\ NoDownload
  BY DEF Mirror, Typed, TypeOK
<1> USE DEF StepRegistered
<1>1. ASSUME op'.kind # "commit" PROVE StepRegistered'
  BY <1>1
<1>2. CASE op' = NoOp
  BY <1>1, <1>2 DEF NoOp
<1>3. ASSUME op'.kind = op.kind, op'.raw = op.raw, op'.snap = op.snap,
             op'.epoch = op.epoch, UNCHANGED file,
             pc' \in {"prune", "journal"} => pc \in {"prune", "journal"} /\ UNCHANGED undo,
             pc' = "write" => pc = "write" /\ UNCHANGED journal
      PROVE  StepRegistered'
  BY <1>0, <1>3 DEF CommitEntry
<1>4. ASSUME NEW text \in NewBodies, NEW keep \in SnapshotFlags,
             BeginCommit(text, keep)
      PROVE  StepRegistered'
  BY <1>4 DEF BeginCommit, NoOp, diskVars
<1>5. CASE Hydrate
  BY <1>0, <1>3, <1>5
     DEF Hydrate, HydrateSkip, HydrateRead, HydrateInstall, Goto, AfterHydrate, Ops, diskVars
<1>6. CASE Snapshot
  BY <1>0, <1>3, <1>6
     DEF Snapshot, WriteSnapshot, NoSnapshot, PruneHistory, Goto, AfterSnapshot, Ops,
         InStep, StepsOf, diskVars, stackVars
<1>7. CASE Register
  <2>1. CommitEntry \in Entries
    BY <1>0, PushedTyped
  <2>2. undo' # <<>> /\ LastOf(undo') = CommitEntry
    BY <1>0, <1>7, <2>1, TrimKeepsLast DEF Register
  <2>3. CommitEntry' = CommitEntry /\ op'.kind = op.kind /\ op'.raw = op.raw
    BY <1>0, <1>7 DEF Register, Ops, CommitEntry
  <2> QED BY <1>0, <1>7, <2>2, <2>3 DEF Register, diskVars
<1>8. CASE WriteJournal
  <2>1. op.kind = "commit" /\ op.pair = Stacks /\ Journaled(undo) = undo
    BY <1>0, <1>8, JournalWhole
       DEF WriteJournal, InStep, StepsOf, Ops, JournalFollows, Lagging, Mirror, StepsKept,
           UndoEntries
  <2>2. journal'.undo = undo
    BY <1>8, <2>1 DEF WriteJournal, JournalOf, HistoryIsItsOwn, Stacks
  <2>3. CommitEntry' = CommitEntry
    BY <1>8 DEF WriteJournal, Goto, CommitEntry
  <2> QED BY <1>0, <1>8, <2>1, <2>2, <2>3 DEF WriteJournal, Goto, stackVars
<1>9. CASE WriteTable \/ WriteTableFails \/ PeekRefuses \/ RestoreFails \/ JournalPersist
            \/ Crash
  BY <1>2, <1>9
     DEF WriteTable, WriteTableFails, PeekRefuses, RestoreFails, JournalPersist, Crash, Return
<1>10. CASE \/ BeginUndo \/ BeginRedo \/ PeekUndo \/ PeekRedo \/ Restore
            \/ RestoreLeavesFile \/ SettleUndo \/ SettleRedo
  BY <1>0, <1>1, <1>10
     DEF BeginUndo, BeginRedo, PeekUndo, PeekRedo, Restore, RestoreLeavesFile, SettleUndo,
         SettleRedo, Goto, InStep, StepsOf, NoOp, Ops
<1>11. CASE UNCHANGED vars
  BY <1>0, <1>11 DEF vars, diskVars, stackVars, CommitEntry
<1>12. ~ForgetErase /\ ~ForgetUnlink /\ ~SiblingPrune
       /\ \A f \in OutsideFiles : ~SyncDownload(f) /\ ~OutsideWrite(f)
  BY <1>0
     DEF HistoryIsItsOwn, NoDownload, ForgetErase, ForgetUnlink, SiblingPrune, SyncDownload,
         OutsideWrite
<1> QED
  BY <1>4, <1>5, <1>6, <1>7, <1>8, <1>9, <1>10, <1>11, <1>12
     DEF Next, Commit, UndoRedo, Outside

\* What the step that replaces the table finds in the journal.
LEMMA SaveFindsItsStep ==
    ASSUME Typed, HistoryExact, SnapsInOrder, Mirror, StepRegistered, pc = "write"
    PROVE  \E e \in ItemsOf(journal.undo) :
               e.was = file /\ CanUndo(e) /\ UndoBytes(e) = file
<1>1. /\ TypeOK /\ op \in Ops /\ op.kind = "commit" /\ journal.undo \in Seq(Entries)
      /\ op.raw = file /\ journal.undo # <<>> /\ LastOf(journal.undo) = CommitEntry
  BY DEF Typed, TypeOK, Mirror, InStep, StepsOf, Ops, StepRegistered, StackPairs
<1>2. CommitEntry \in ItemsOf(journal.undo)
  BY <1>1, PopKeeps
<1>3. /\ op.snap \in SnapIds /\ op.snap # NoSnap /\ op.snap = nextSnap - 1
      /\ op.raw # Missing
      /\ snaps[op.snap] \in {op.raw, Missing}
  BY <1>1 DEF Mirror, SnapshotTaken, FilesThere, HasRead, HistoryExact, OpExact, Ops
<1>4. snaps[op.snap] # Missing
  BY <1>1, <1>3, ConstantsAssumption
     DEF SnapsInOrder, PruneTakesTheOldest, TypeOK, SnapIds
<1>5. HasSnapshot(CommitEntry) /\ CommitEntry.existed /\ CommitEntry.was = file
  BY <1>1, <1>3, <1>4 DEF CommitEntry, HasSnapshot
<1>6. UndoBytes(CommitEntry) = file /\ CanUndo(CommitEntry)
  BY <1>1, <1>3, <1>4, <1>5 DEF UndoBytes, CanUndo, CommitEntry
<1> QED BY <1>2, <1>5, <1>6

\* The step that replaces the table finds its own entry in the journal and, behind
\* it, the snapshot of the bytes it replaces: a process that dies right after the
\* write leaves a save that the next process can undo.
THEOREM SaveIsUndoable ==
    ASSUME HistoryIsItsOwn, "outside" \notin Faults
    PROVE  Spec => OverwriteIsUndoable
<1> DEFINE Inv == Typed /\ HistoryExact /\ SnapsInOrder /\ Mirror /\ StepRegistered
           Undoable == pc = "write" /\ file' # file =>
                          \E e \in ItemsOf(journal.undo) :
                             e.was = file /\ CanUndo(e) /\ UndoBytes(e) = file
<1>1. Init => Inv
  BY TypedInit, ExactInit, SnapsInOrderInit, MirrorInit, StepRegisteredInit
<1>2. Inv /\ [Next]_vars => Inv'
  BY TypedNext, ExactNext, SnapsInOrderNext, MirrorNext, StepRegisteredNext
     DEF HistoryIsItsOwn
<1>3. Inv /\ [Next]_vars => [Undoable]_vars
  BY SaveFindsItsStep
<1>4. OverwriteIsUndoable <=> [][Undoable]_vars
  BY DEF OverwriteIsUndoable
<1> QED BY <1>1, <1>2, <1>3, <1>4, PTL DEF Spec
=============================================================================
