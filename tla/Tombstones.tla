----------------------------- MODULE Tombstones -----------------------------
(***************************************************************************)
(* deleted_talks_manager.cpp and the two handlers that use it: DELETE of a *)
(* record (cfg_routes.cpp), which buries the id in memory, removes the row *)
(* and then saves the tombstones, and GET of all tombstones                *)
(* (deleted_routes.cpp), the only one that reads the file.  The manager is *)
(* global: it knows one root, whatever mod a request began with.           *)
(***************************************************************************)
EXTENDS FiniteSets, Naturals

CONSTANTS
    TombMods, TombIds,
    TombThreads,    \* requests in flight at the same time
    TombNone,       \* no mod, no root
    TombEarlier,    \* what the tombstone files may hold from earlier sessions
    TombMaxFailures \* bound: writes that fail

ASSUME TombConstants ==
    /\ TombEarlier \subseteq SUBSET TombIds /\ TombMaxFailures \in Nat
    /\ TombNone \notin TombMods \cup TombIds

VARIABLES
    tombMod,     \* STATE().mod_root
    tombRoot,    \* g_workspace_root of the manager
    tombMem,     \* the keys of g_tombstones
    tombPending, \* g_has_pending_changes
    tombFile,    \* [TombMods -> keys of deleted-talks.json]
    tombRows,    \* [TombMods -> ids in the table]
    tombFailed,  \* writes that have failed
    tombUsed,    \* mods that requests have worked on (history)
    tombKept,    \* mods and rows whose removal has failed (history)
    tombPc, tombOp

tombVars == <<tombMod, tombRoot, tombMem, tombPending, tombFile, tombRows, tombFailed,
              tombUsed, tombKept, tombPc, tombOp>>

NoDelete == [path |-> TombNone, id |-> TombNone, root |-> TombNone]

TombInit ==
    /\ tombMod \in TombMods
    /\ tombRoot = TombNone
    /\ tombMem = {} /\ tombPending = FALSE
    /\ tombFile \in [TombMods -> TombEarlier]
    /\ tombRows = [m \in TombMods |-> TombIds \ tombFile[m]]
    /\ tombFailed = 0
    /\ tombUsed = {} /\ tombKept = {}
    /\ tombPc = [t \in TombThreads |-> "idle"]
    /\ tombOp = [t \in TombThreads |-> NoDelete]

TombAt(t, l) == tombPc[t] = l
TombGoto(t, l) == tombPc' = [tombPc EXCEPT ![t] = l]
TombDone(t) == TombGoto(t, "idle") /\ tombOp' = [tombOp EXCEPT ![t] = NoDelete]
MayFail == tombFailed < TombMaxFailures /\ tombFailed' = tombFailed + 1

TombSelect ==
    /\ \E m \in TombMods \ {tombMod} : tombMod' = m
    /\ UNCHANGED <<tombRoot, tombMem, tombPending, tombFile, tombRows, tombFailed, tombUsed,
                   tombKept, tombPc, tombOp>>

\* DELETE /api/cfg/<name>/<id>: path, source checks, the id must be there.  GET
\* /api/cfg/deleted_talks has no row.
Delete(t) ==
    /\ TombAt(t, "idle")
    /\ \E i \in tombRows[tombMod] :
         tombOp' = [tombOp EXCEPT ![t] = [NoDelete EXCEPT !.path = tombMod, !.id = i]]
    /\ tombUsed' = tombUsed \cup {tombMod}
    /\ TombGoto(t, "mod")
    /\ UNCHANGED <<tombMod, tombRoot, tombMem, tombPending, tombFile, tombRows, tombFailed,
                   tombKept>>

List(t) ==
    /\ TombAt(t, "idle")
    /\ TombGoto(t, "mod")
    /\ UNCHANGED <<tombMod, tombRoot, tombMem, tombPending, tombFile, tombRows, tombFailed,
                   tombUsed, tombKept, tombOp>>

\* Both read the mod selected now and set it as the manager's root, in a lock
\* section each.
ReadMod(t) ==
    /\ TombAt(t, "mod")
    /\ tombOp' = [tombOp EXCEPT ![t].root = tombMod]
    /\ TombGoto(t, "root")
    /\ UNCHANGED <<tombMod, tombRoot, tombMem, tombPending, tombFile, tombRows, tombFailed,
                   tombUsed, tombKept>>

SetManagerRoot(t) ==
    /\ TombAt(t, "root")
    /\ tombRoot' = tombOp[t].root
    /\ tombUsed' = tombUsed \cup {tombRoot'}
    /\ TombGoto(t, IF tombOp[t].id = TombNone THEN "load" ELSE "bury")
    /\ UNCHANGED <<tombMod, tombMem, tombPending, tombFile, tombRows, tombFailed, tombKept,
                   tombOp>>

\* register_tombstone: an id that is known (from whatever mod) with the same
\* replacements is no change.
Bury(t) ==
    /\ TombAt(t, "bury")
    /\ tombMem' = tombMem \cup {tombOp[t].id}
    /\ tombPending' \in {TRUE} \cup (IF tombOp[t].id \in tombMem THEN {tombPending} ELSE {})
    /\ TombGoto(t, "remove")
    /\ UNCHANGED <<tombMod, tombRoot, tombFile, tombRows, tombFailed, tombUsed, tombKept, tombOp>>

\* apply_patch takes the row out, or fails and the request ends.
RemoveRow(t) ==
    /\ TombAt(t, "remove")
    /\ LET o == tombOp[t] IN
       \/ /\ tombRows' = [tombRows EXCEPT ![o.path] = @ \ {o.id}]
          /\ TombGoto(t, "persist") /\ UNCHANGED <<tombFailed, tombKept, tombOp>>
       \/ /\ MayFail /\ TombDone(t)
          /\ tombKept' = tombKept \cup {<<o.path, o.id>>}
          /\ UNCHANGED tombRows
    /\ UNCHANGED <<tombMod, tombRoot, tombMem, tombPending, tombFile, tombUsed>>

\* Mutant: the flag is cleared although the file was not written.
PersistFailsQuietly(t) ==
    /\ tombPending /\ MayFail /\ tombPending' = FALSE /\ UNCHANGED tombFile

PersistFails(t) == tombPending /\ MayFail /\ UNCHANGED <<tombPending, tombFile>>

\* persist writes the whole map to the file of the root set last.
Persist(t) ==
    /\ TombAt(t, "persist")
    /\ \/ /\ tombPending
          /\ tombFile' = [tombFile EXCEPT ![tombRoot] = tombMem]
          /\ tombPending' = FALSE
          /\ UNCHANGED tombFailed
       \/ PersistFails(t)
       \/ ~tombPending /\ UNCHANGED <<tombFile, tombPending, tombFailed>>
    /\ TombDone(t)
    /\ UNCHANGED <<tombMod, tombRoot, tombMem, tombRows, tombUsed, tombKept>>

\* Mutant: the file takes the place of what is in memory.
MergedReplaces == tombFile[tombRoot]

Merged == IF tombPending THEN tombMem ELSE tombMem \cup tombFile[tombRoot]

LoadAll(t) ==
    /\ TombAt(t, "load")
    /\ tombMem' = Merged
    /\ TombDone(t)
    /\ UNCHANGED <<tombMod, tombRoot, tombPending, tombFile, tombRows, tombFailed, tombUsed,
                   tombKept>>

TombNext ==
    \/ TombSelect
    \/ \E t \in TombThreads : \/ Delete(t) \/ List(t) \/ ReadMod(t) \/ SetManagerRoot(t)
                              \/ Bury(t) \/ RemoveRow(t) \/ Persist(t) \/ LoadAll(t)

TombSpec == TombInit /\ [][TombNext]_tombVars

-----------------------------------------------------------------------------
(* Properties                                                              *)

Removing(t, m, i) == TombAt(t, "remove") /\ tombOp[t].path = m /\ tombOp[t].id = i

\* While a session works on one mod, unless a change is pending, every tombstone in
\* memory is in the file of that mod; and no row of it that is still in the table
\* has a tombstone, in memory or in the file, unless its delete is under way or its
\* removal failed: whatever deletes, listings and failed saves of tombstones come
\* between the three steps of a delete (cfg_routes.cpp:641-667,
\* deleted_talks_manager.cpp:39-162).  The manager keeps one map for all mods, so
\* once a second mod is worked on the code promises neither.
TombstonesMatchRows ==
    \A m \in TombMods : tombUsed \subseteq {m} =>
        /\ ~tombPending => tombMem \subseteq tombFile[m]
        /\ \A i \in tombRows[m] \cap (tombMem \cup tombFile[m]) :
             <<m, i>> \in tombKept \/ \E t \in TombThreads : Removing(t, m, i)

\* A row that a finished request has removed is known to be deleted as long as
\* the process lives.
RemovedIsBuried ==
    \A m \in TombMods, i \in TombIds :
        i \notin tombRows[m] /\ i \notin UNION TombEarlier => i \in tombMem
=============================================================================
