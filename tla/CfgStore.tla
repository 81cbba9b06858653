------------------------------ MODULE CfgStore ------------------------------
(***************************************************************************)
(* One configuration table of a mod as native/server/cfg_store.cpp keeps   *)
(* it: the table file, the rolling snapshots and the undo journal beside   *)
(* it in .editor_history, and the in-process undo and redo stacks.         *)
(*                                                                         *)
(* A save, an undo and a redo hold the workspace gate from their first     *)
(* disk read to their return, so at most one of them is in flight (`op`,   *)
(* at `pc`).  What can land between two of its steps is what the gate does *)
(* not cover: a write made outside cfg_store, a cloud-sync download with   *)
(* its two-step forget(), and the death of the process.                    *)
(*                                                                         *)
(* Each stack entry carries two history fields the code does not have:     *)
(* `was`, the content the entry is meant to bring back, and `epoch`, the   *)
(* number of cloud overwrites of the table when that content was read.     *)
(***************************************************************************)
EXTENDS Naturals, Sequences, FiniteSets

CONSTANTS
    Bodies,         \* what a table file may hold, a leading BOM set apart
    Decode,         \* [Bodies -> Bodies]: decode, U+FFFD for what is not UTF-8
    NewBodies,      \* the tables a client may save
    OutsideFiles,   \* what writers outside cfg_store may put in the table file
    InitialFiles,   \* what the table file may be before the first operation
    Missing,        \* there is no such file
    NoText,         \* an entry that carries no fallback text
    HistoryLimit,   \* kHistoryLimit
    HistoryKeep,    \* kHistoryKeep
    MaxSnaps,       \* bound: snapshots written in a behaviour
    MaxOverwrites,  \* bound: cloud overwrites in a behaviour
    SnapshotFlags,  \* the values of write_cfg's `snapshot` argument
    Faults          \* what may go wrong, a subset of FaultKinds

FaultKinds == {"crash", "crashAfterRestore", "snapshot", "journal", "write",
               "restore", "unlink", "outside", "sync", "sibling"}

Contents == [body : Bodies, bom : BOOLEAN]
Files    == Contents \cup {Missing}
NoSnap   == 0
SnapIds  == 1..MaxSnaps

ASSUME ConstantsAssumption ==
    /\ Decode \in [Bodies -> Bodies]
    /\ \A b \in Bodies : Decode[Decode[b]] = Decode[b]
    /\ NewBodies \subseteq {b \in Bodies : Decode[b] = b}
    /\ Missing \notin Contents
    /\ NoText \notin Bodies
    /\ OutsideFiles \subseteq Contents
    /\ InitialFiles \subseteq Files
    /\ HistoryLimit \in Nat \ {0}
    /\ HistoryKeep \in Nat \ {0}
    /\ MaxSnaps \in Nat
    /\ MaxOverwrites \in Nat
    /\ SnapshotFlags \subseteq BOOLEAN
    /\ Faults \subseteq FaultKinds

Entries == [snap : SnapIds \cup {NoSnap}, text : Bodies \cup {NoText},
            existed : BOOLEAN, had_bom : BOOLEAN, lossy : BOOLEAN,
            was : Files, by : {"commit", "undo", "redo"}, epoch : Nat]

StackPairs == [undo : Seq(Entries), redo : Seq(Entries)]
EmptyPair  == [undo |-> <<>>, redo |-> <<>>]

VARIABLES
    file,        \* the table file
    snaps,       \* snapshot files; the name's (ms, seq) is an increasing number
    nextSnap,    \* the next snapshot's number
    journal,     \* <stem>.journal.json; the empty pair when there is no such file
    undo, redo,  \* g_stacks[key]
    registered,  \* g_stacks has an entry for the table
    hydrated,    \* g_hydrated holds the table
    pc, op,      \* the operation that holds the workspace gate
    forgetting,  \* where the thread that downloaded the table is in forget()
    overwrites   \* cloud overwrites so far (history)

stackVars == <<undo, redo, registered, hydrated>>
diskVars  == <<file, snaps, nextSnap, journal>>
syncVars  == <<forgetting, overwrites>>
vars == <<diskVars, stackVars, pc, op, syncVars>>

NoOp == [kind |-> "none", raw |-> Missing, new |-> Missing, snap |-> NoSnap,
         keep |-> FALSE, pair |-> EmptyPair, epoch |-> 0]

-----------------------------------------------------------------------------
(* Decoding, snapshots and stack entries                                   *)

Text(f)   == IF f = Missing THEN NoText ELSE Decode[f.body]
Lossy(f)  == f # Missing /\ Decode[f.body] # f.body
HasBom(f) == f # Missing /\ f.bom
Encode(text, bom) == [body |-> text, bom |-> bom]

HasSnapshot(e) == e.snap # NoSnap /\ snaps[e.snap] # Missing

\* Mutant: the flag that keeps U+FFFD off the disk is not looked at.
CanUndoLossy(e) == ~e.existed \/ HasSnapshot(e) \/ e.text # NoText

\* undo() refuses an entry with neither its snapshot nor an exact fallback text.
CanUndo(e) == ~e.existed \/ HasSnapshot(e) \/ (~e.lossy /\ e.text # NoText)

\* Mutant: the step that created the table is restored like any other.
UndoBytesOfCreation(e) ==
    IF HasSnapshot(e) THEN snaps[e.snap] ELSE Encode(e.text, e.had_bom)

UndoBytes(e) ==
    IF ~e.existed THEN Missing
    ELSE IF HasSnapshot(e) THEN snaps[e.snap] ELSE Encode(e.text, e.had_bom)

RedoBytes(e) ==
    IF e.existed /\ e.text # NoText THEN Encode(e.text, e.had_bom) ELSE Missing

LastOf(s)    == s[Len(s)]
AllButLast(s) == SubSeq(s, 1, Len(s) - 1)

\* trim_keep_last
Trim(s) == IF Len(s) > HistoryLimit
           THEN SubSeq(s, Len(s) - HistoryLimit + 1, Len(s)) ELSE s

Present == {i \in SnapIds : snaps[i] # Missing}

\* Mutant: one snapshot too many goes.
PrunedOneMore == [i \in SnapIds |->
                    IF Cardinality({j \in Present : j > i}) + 1 < HistoryKeep
                    THEN snaps[i] ELSE Missing]

\* Mutant: the names are sorted the other way round, the newest snapshots go.
PrunedNewest == [i \in SnapIds |->
                   IF Cardinality({j \in Present : j < i}) < HistoryKeep
                   THEN snaps[i] ELSE Missing]

\* prune_history: all but the newest HistoryKeep snapshots go.
Pruned == [i \in SnapIds |->
             IF Cardinality({j \in Present : j > i}) < HistoryKeep
             THEN snaps[i] ELSE Missing]

TextOnly(e) == e.snap = NoSnap /\ e.existed

\* journal_snapshot_of: the undo entries below the oldest text-only one.
Journaled(u) ==
    SubSeq(u, 1, Cardinality({i \in DOMAIN u : \A j \in 1..i : ~TextOnly(u[j])}))

\* journal_entry_to_json then journal_entry_from_json.
ReadBack(e) == IF e.existed THEN e ELSE [e EXCEPT !.snap = NoSnap, !.text = NoText]
ReadBackAll(s) == [i \in DOMAIN s |-> ReadBack(s[i])]

-----------------------------------------------------------------------------
Init ==
    /\ file \in InitialFiles
    /\ snaps = [i \in SnapIds |-> Missing]
    /\ nextSnap = 1
    /\ journal = EmptyPair
    /\ undo = <<>> /\ redo = <<>>
    /\ registered = FALSE /\ hydrated = FALSE
    /\ pc = "idle" /\ op = NoOp
    /\ forgetting = "no" /\ overwrites = 0

Goto(next) == pc' = next /\ op' = op
Return     == pc' = "idle" /\ op' = NoOp

(***************************************************************************)
(* The operations enter the gate.  A save reads the file once; a conflict  *)
(* (digest, else mtime, unless forced) or an unchanged result returns at   *)
(* once and changes nothing, so only a save that will write is a step.     *)
(***************************************************************************)
BeginCommit(text, keep) ==
    /\ pc = "idle"
    /\ nextSnap <= MaxSnaps                                       \* bound
    /\ LET new == Encode(text, HasBom(file)) IN
         /\ new # file
         /\ op' = [NoOp EXCEPT !.kind = "commit", !.raw = file, !.new = new,
                               !.keep = keep, !.epoch = overwrites]
    /\ pc' = "snapshot"
    /\ UNCHANGED <<diskVars, stackVars, syncVars>>

BeginUndo ==
    /\ pc = "idle"
    /\ op' = [NoOp EXCEPT !.kind = "undo"]
    /\ pc' = "hydrate"
    /\ UNCHANGED <<diskVars, stackVars, syncVars>>

BeginRedo ==
    /\ pc = "idle"
    /\ nextSnap <= MaxSnaps                                       \* bound
    /\ op' = [NoOp EXCEPT !.kind = "redo"]
    /\ pc' = "hydrate"
    /\ UNCHANGED <<diskVars, stackVars, syncVars>>

-----------------------------------------------------------------------------
(* hydrate_stack: the journal is read outside the registry lock            *)

AfterHydrate == IF op.kind = "commit" THEN "register" ELSE "peek"

HydrateSkip ==
    /\ pc = "hydrate" /\ hydrated
    /\ Goto(AfterHydrate)
    /\ UNCHANGED <<diskVars, stackVars, syncVars>>

HydrateRead ==
    /\ pc = "hydrate" /\ ~hydrated
    /\ op' = [op EXCEPT !.pair = [undo |-> ReadBackAll(journal.undo),
                                  redo |-> ReadBackAll(journal.redo)]]
    /\ pc' = "install"
    /\ UNCHANGED <<diskVars, stackVars, syncVars>>

HydrateInstall ==
    /\ pc = "install"
    /\ IF op.pair # EmptyPair /\ undo = <<>> /\ redo = <<>>
       THEN /\ undo' = op.pair.undo /\ redo' = op.pair.redo
            /\ registered' = TRUE
       ELSE UNCHANGED <<undo, redo, registered>>
    /\ hydrated' = TRUE
    /\ Goto(AfterHydrate)
    /\ UNCHANGED <<diskVars, syncVars>>

-----------------------------------------------------------------------------
(* write_snapshot and prune_history                                        *)

AfterSnapshot == IF op.kind = "commit" THEN "hydrate" ELSE "restore"

\* Mutant: two snapshots of one millisecond get one name.
WriteSnapshotSameName ==
    /\ pc = "snapshot" /\ op.raw # Missing /\ op.keep
    /\ snaps' = [snaps EXCEPT ![nextSnap] = op.raw]
    /\ op' = [op EXCEPT !.snap = nextSnap]
    /\ pc' = AfterSnapshot
    /\ UNCHANGED <<file, nextSnap, journal, stackVars, syncVars>>

WriteSnapshot ==
    /\ pc = "snapshot" /\ op.raw # Missing /\ op.keep
    /\ snaps' = [snaps EXCEPT ![nextSnap] = op.raw]
    /\ nextSnap' = nextSnap + 1
    /\ op' = [op EXCEPT !.snap = nextSnap]
    /\ pc' = AfterSnapshot
    /\ UNCHANGED <<file, journal, stackVars, syncVars>>

\* No old bytes to keep, snapshot=false, or a write that failed: never fatal.
NoSnapshot ==
    /\ pc = "snapshot"
    /\ op.raw = Missing \/ ~op.keep \/ "snapshot" \in Faults
    /\ Goto(AfterSnapshot)
    /\ UNCHANGED <<diskVars, stackVars, syncVars>>

PruneHistory ==
    /\ pc = "prune"
    /\ snaps' = IF op.snap # NoSnap THEN Pruned ELSE snaps
    /\ Goto(IF op.kind = "commit" THEN "journal" ELSE "persist")
    /\ UNCHANGED <<file, nextSnap, journal, stackVars, syncVars>>

-----------------------------------------------------------------------------
(* The rest of commit(): register, journal, then the atomic table write    *)

CommitEntry ==
    [snap |-> op.snap,
     text |-> IF op.snap = NoSnap THEN Text(op.raw) ELSE NoText,
     existed |-> op.raw # Missing, had_bom |-> HasBom(op.raw),
     lossy |-> Lossy(op.raw), was |-> op.raw, by |-> "commit",
     epoch |-> op.epoch]

\* Mutant: a save leaves the redo line of the state it replaces.
RegisterKeepsRedo ==
    /\ pc = "register"
    /\ undo' = Trim(Append(undo, CommitEntry))
    /\ registered' = TRUE
    /\ op' = [op EXCEPT !.pair = [undo |-> undo', redo |-> redo]]
    /\ pc' = "prune"
    /\ UNCHANGED <<redo, hydrated, diskVars, syncVars>>

Register ==
    /\ pc = "register"
    /\ undo' = Trim(Append(undo, CommitEntry))
    /\ redo' = <<>>
    /\ registered' = TRUE
    /\ op' = [op EXCEPT !.pair = [undo |-> undo', redo |-> <<>>]]
    /\ pc' = "prune"
    /\ UNCHANGED <<hydrated, diskVars, syncVars>>

JournalOf(pair) == [undo |-> Journaled(pair.undo), redo |-> pair.redo]

WriteJournal ==
    /\ pc = "journal"
    /\ \/ journal' = JournalOf(op.pair)
       \/ "journal" \in Faults /\ UNCHANGED journal
    /\ Goto("write")
    /\ UNCHANGED <<file, snaps, nextSnap, stackVars, syncVars>>

WriteTable ==
    /\ pc = "write"
    /\ file' = op.new
    /\ Return
    /\ UNCHANGED <<snaps, nextSnap, journal, stackVars, syncVars>>

WriteTableFails ==
    /\ pc = "write" /\ "write" \in Faults
    /\ Return
    /\ UNCHANGED <<diskVars, stackVars, syncVars>>

-----------------------------------------------------------------------------
(* undo() and redo(): peek, restore, and only then move the stacks         *)

PeekUndo ==
    /\ pc = "peek" /\ op.kind = "undo"
    /\ undo # <<>> /\ CanUndo(LastOf(undo))
    /\ op' = [op EXCEPT !.raw = file, !.new = UndoBytes(LastOf(undo)),
                        !.epoch = overwrites]
    /\ pc' = "restore"
    /\ UNCHANGED <<diskVars, stackVars, syncVars>>

PeekRedo ==
    /\ pc = "peek" /\ op.kind = "redo"
    /\ redo # <<>>
    /\ op' = [op EXCEPT !.raw = file, !.new = RedoBytes(LastOf(redo)),
                        !.keep = TRUE, !.epoch = overwrites]
    /\ pc' = "snapshot"
    /\ UNCHANGED <<diskVars, stackVars, syncVars>>

\* "nothing to undo", "nothing to redo", "history snapshot missing" or the
\* refusal to write back a lossy fallback text.
PeekRefuses ==
    /\ pc = "peek"
    /\ \/ op.kind = "undo" /\ undo = <<>>
       \/ op.kind = "undo" /\ undo # <<>> /\ ~CanUndo(LastOf(undo))
       \/ op.kind = "redo" /\ redo = <<>>
    /\ Return
    /\ UNCHANGED <<diskVars, stackVars, syncVars>>

Restore ==
    /\ pc = "restore"
    /\ file' = op.new
    /\ Goto("settle")
    /\ UNCHANGED <<snaps, nextSnap, journal, stackVars, syncVars>>

\* restore() unlinks with the error ignored: the file may survive a success.
RestoreLeavesFile ==
    /\ pc = "restore" /\ op.new = Missing /\ "unlink" \in Faults
    /\ Goto("settle")
    /\ UNCHANGED <<diskVars, stackVars, syncVars>>

RestoreFails ==
    /\ pc = "restore" /\ op.new # Missing /\ "restore" \in Faults
    /\ Return
    /\ UNCHANGED <<diskVars, stackVars, syncVars>>

\* Mutant: the text for redo is read after the file has been restored.
RedoEntryTooLate ==
    [snap |-> NoSnap, text |-> Text(op.new), existed |-> TRUE,
     had_bom |-> HasBom(op.new), lossy |-> FALSE,
     was |-> op.raw, by |-> "undo", epoch |-> op.epoch]

RedoEntry ==
    [snap |-> NoSnap, text |-> Text(op.raw), existed |-> TRUE,
     had_bom |-> HasBom(op.new), lossy |-> FALSE,
     was |-> op.raw, by |-> "undo", epoch |-> op.epoch]

UndoEntryOfRedo ==
    [snap |-> op.snap, text |-> IF op.snap = NoSnap THEN Text(op.raw) ELSE NoText,
     existed |-> TRUE, had_bom |-> HasBom(op.raw), lossy |-> FALSE,
     was |-> op.raw, by |-> "redo", epoch |-> op.epoch]

SettleUndo ==
    /\ pc = "settle" /\ op.kind = "undo"
    /\ IF undo # <<>>
       THEN /\ undo' = AllButLast(undo)
            /\ redo' = Trim(Append(redo, RedoEntry))
       ELSE UNCHANGED <<undo, redo>>          \* forget() came in between
    /\ Goto("persist")
    /\ UNCHANGED <<registered, hydrated, diskVars, syncVars>>

SettleRedo ==
    /\ pc = "settle" /\ op.kind = "redo"
    /\ IF redo # <<>>
       THEN /\ redo' = AllButLast(redo)
            /\ undo' = Trim(Append(undo, UndoEntryOfRedo))
       ELSE UNCHANGED <<undo, redo>>          \* forget() came in between
    /\ Goto("prune")
    /\ UNCHANGED <<registered, hydrated, diskVars, syncVars>>

\* Mutant: only undo() persists what it did to the stacks.
JournalPersistUndoOnly ==
    /\ pc = "persist"
    /\ \/ /\ registered /\ op.kind = "undo"
          /\ journal' = JournalOf([undo |-> undo, redo |-> redo])
       \/ (~registered \/ op.kind = "redo") /\ UNCHANGED journal
    /\ Return
    /\ UNCHANGED <<file, snaps, nextSnap, stackVars, syncVars>>

JournalPersist ==
    /\ pc = "persist"
    /\ \/ /\ registered
          /\ journal' = JournalOf([undo |-> undo, redo |-> redo])
       \/ (~registered \/ "journal" \in Faults) /\ UNCHANGED journal
    /\ Return
    /\ UNCHANGED <<file, snaps, nextSnap, stackVars, syncVars>>

-----------------------------------------------------------------------------
(* What the gate does not cover                                            *)

\* /api/tools/write, a file transfer or the player's own editor.
OutsideWrite(f) ==
    /\ "outside" \in Faults
    /\ file' = f
    /\ UNCHANGED <<snaps, nextSnap, journal, stackVars, pc, op, syncVars>>

\* drv_get: the download replaces the file, then forget() runs.
SyncDownload(f) ==
    /\ "sync" \in Faults /\ forgetting = "no"
    /\ overwrites < MaxOverwrites                                 \* bound
    /\ file' = f
    /\ overwrites' = overwrites + 1
    /\ forgetting' = "erase"
    /\ UNCHANGED <<snaps, nextSnap, journal, stackVars, pc, op>>

ForgetErase ==
    /\ forgetting = "erase"
    /\ undo' = <<>> /\ redo' = <<>>
    /\ registered' = FALSE /\ hydrated' = FALSE
    /\ forgetting' = "unlink"
    /\ UNCHANGED <<diskVars, pc, op, overwrites>>

ForgetUnlink ==
    /\ forgetting = "unlink"
    /\ journal' = EmptyPair
    /\ forgetting' = "no"
    /\ UNCHANGED <<file, snaps, nextSnap, stackVars, pc, op, overwrites>>

\* A save of the table whose name is this one's up to an underscore prunes by
\* name prefix: it counts this table's files as its own oldest (their "ts" does
\* not parse), the journal's name sorting before the snapshots'.
SiblingPrune ==
    /\ "sibling" \in Faults /\ pc = "idle"
    /\ journal' = EmptyPair
    /\ \E oldest \in 0..MaxSnaps :
         snaps' = [i \in SnapIds |-> IF i <= oldest THEN Missing ELSE snaps[i]]
    /\ UNCHANGED <<file, nextSnap, stackVars, pc, op, syncVars>>

\* undo() or redo() has replaced the file, and the journal does not say so yet.
Restored == op.kind \in {"undo", "redo"} /\ pc \in {"settle", "prune", "persist"}

Crash ==
    /\ "crash" \in Faults
    /\ Restored => "crashAfterRestore" \in Faults
    /\ undo' = <<>> /\ redo' = <<>>
    /\ registered' = FALSE /\ hydrated' = FALSE
    /\ Return
    /\ forgetting' = "no"
    /\ UNCHANGED <<diskVars, overwrites>>

-----------------------------------------------------------------------------
Hydrate == HydrateSkip \/ HydrateRead \/ HydrateInstall
Commit  == \/ \E text \in NewBodies, keep \in SnapshotFlags : BeginCommit(text, keep)
           \/ Register \/ WriteJournal \/ WriteTable \/ WriteTableFails
Snapshot == WriteSnapshot \/ NoSnapshot \/ PruneHistory
UndoRedo == \/ BeginUndo \/ BeginRedo
            \/ PeekUndo \/ PeekRedo \/ PeekRefuses
            \/ Restore \/ RestoreLeavesFile \/ RestoreFails
            \/ SettleUndo \/ SettleRedo \/ JournalPersist
Outside == \/ \E f \in OutsideFiles : OutsideWrite(f) \/ SyncDownload(f)
           \/ ForgetErase \/ ForgetUnlink \/ SiblingPrune \/ Crash

Next == Hydrate \/ Commit \/ Snapshot \/ UndoRedo \/ Outside

Spec == Init /\ [][Next]_vars

-----------------------------------------------------------------------------
(* Properties                                                              *)

Pcs == {"idle", "hydrate", "install", "peek", "snapshot", "register", "prune",
        "journal", "write", "restore", "settle", "persist"}

Ops == [kind : {"none", "commit", "undo", "redo"}, raw : Files, new : Files,
        snap : SnapIds \cup {NoSnap}, keep : BOOLEAN, pair : StackPairs,
        epoch : Nat]

TypeOK ==
    /\ file \in Files
    /\ snaps \in [SnapIds -> Files]
    /\ nextSnap \in 1..(MaxSnaps + 1)
    /\ journal \in StackPairs
    /\ undo \in Seq(Entries) /\ redo \in Seq(Entries)
    /\ registered \in BOOLEAN /\ hydrated \in BOOLEAN
    /\ pc \in Pcs /\ op \in Ops
    /\ forgetting \in {"no", "erase", "unlink"}
    /\ overwrites \in Nat

\* Every undo entry that exists anywhere: the live stack, the journal, and the
\* copy an operation in flight carries between the two.
ItemsOf(s)  == {s[i] : i \in DOMAIN s}
UndoEntries == ItemsOf(undo) \cup ItemsOf(journal.undo) \cup ItemsOf(op.pair.undo)
RedoEntries == ItemsOf(redo) \cup ItemsOf(journal.redo) \cup ItemsOf(op.pair.redo)

\* An undo either refuses or puts back, byte for byte, the content the table had
\* when the step was registered ("the fallback text holds U+FFFD placeholders;
\* writing them back would permanently corrupt the source.  Fail safe instead").
UndoIsExact == \A e \in UndoEntries : CanUndo(e) => UndoBytes(e) = e.was

\* So it is with every step a save left, and with every step at all that replaced
\* valid UTF-8, whatever fails: snapshots are never mixed up or reused, a BOM is
\* neither lost nor gained, U+FFFD never reaches the disk.  A step left by a redo
\* whose snapshot could not be written says that its text is not lossy.
SavesUndoExactly ==
    \A e \in UndoEntries :
        CanUndo(e) /\ (e.by = "commit" \/ ~Lossy(e.was)) => UndoBytes(e) = e.was

\* A redo brings back the text the undo took away, or the missing file if there
\* was none; no crash, stale journal or forget() gives it other text.
RedoBringsTextBack ==
    \A e \in RedoEntries : Text(RedoBytes(e)) = Text(e.was)

\* The inductive form of the two passing invariants above: what the snapshot, the text
\* and the flags of an entry say of the content it is to bring back.  A snapshot
\* number is never given twice, so a file named by an entry is that content or
\* has been pruned.
UndoExact(e) ==
    /\ e.by \in {"commit", "redo"}
    /\ e.snap # NoSnap => /\ e.existed /\ e.was # Missing /\ e.text = NoText
                         /\ e.snap < nextSnap /\ snaps[e.snap] \in {e.was, Missing}
    /\ ~e.existed => e.was = Missing
    /\ e.existed /\ e.text # NoText =>
          e.was # Missing /\ e.text = Text(e.was) /\ e.had_bom = HasBom(e.was)
    /\ e.by = "commit" /\ ~e.lossy => ~Lossy(e.was)

RedoExact(e) == e.existed /\ e.text = Text(e.was)

OpExact ==
    /\ op.snap # NoSnap => /\ op.raw # Missing
                          /\ op.snap < nextSnap /\ snaps[op.snap] \in {op.raw, Missing}
    /\ op.kind # "commit" /\ pc \in {"hydrate", "install", "peek"} => op.snap = NoSnap

HistoryExact ==
    /\ \A e \in UndoEntries : UndoExact(e)
    /\ \A e \in RedoEntries : RedoExact(e)
    /\ OpExact

\* prune_history may only take a snapshot once HistoryKeep newer ones have been
\* written: the last HistoryKeep overwritten versions stay on disk.
PruneTakesTheOldest ==
    \A i \in SnapIds :
        i < nextSnap /\ snaps[i] = Missing => nextSnap - 1 - i >= HistoryKeep

\* Whenever no operation is in flight, a process that starts now finds in the
\* journal the very history the running one holds, redo line included.
JournalMirrorsStack ==
    pc = "idle" /\ registered => journal = [undo |-> undo, redo |-> redo]

\* The table is replaced by a save only once the bytes it replaces can be undone
\* from disk alone: snapshot written, journal naming it, neither pruned.
OverwriteIsUndoable ==
    [][pc = "write" /\ file' # file =>
        \E e \in ItemsOf(journal.undo) :
            e.was = file /\ CanUndo(e) /\ UndoBytes(e) = file]_vars

\* A restarted process offers the undo step the running one would offer, or none
\* at all ("nothing older is reachable across processes anyway, so the boundary
\* is where the journal ends", journal_snapshot_of).
RestartOffersSameUndo ==
    pc = "idle" /\ registered /\ undo # <<>> /\ journal.undo # <<>> =>
        LastOf(journal.undo) = LastOf(undo)

\* Undoing the creation of a table deletes the file, however the step came to be
\* on the stack ("a create: undo must delete the file", journal_entry_to_json).
CreationCanBeUndone ==
    \A e \in ItemsOf(undo) : e.was = Missing =>
        CanUndo(e) /\ UndoBytes(e) = Missing

\* Once forget() has returned and no operation is in flight, nothing read before
\* the overwrite can be undone or redone, in this process or a later one.
ForgottenStaysForgotten ==
    pc = "idle" /\ forgetting = "no" =>
        \A e \in UndoEntries \cup RedoEntries : e.epoch = overwrites
=============================================================================
