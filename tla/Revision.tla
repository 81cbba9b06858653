------------------------------ MODULE Revision ------------------------------
(***************************************************************************)
(* The three fingerprint caches of the editor server and the revision gate *)
(* of a save: the table cache and the mod-wide cache of cfg_cache.cpp, the *)
(* workspace fingerprint of revision_manager.cpp, the REST handlers of     *)
(* cfg_routes.cpp that read, write through and refresh them, and the       *)
(* revision a front end keeps between its saves (save_service.dart).       *)
(*                                                                         *)
(* Every mod has one table.  Its bytes are a number, its modification time *)
(* another; a digest is the bytes themselves (SHA-256 without collisions), *)
(* and the size is always the same.  Between two steps of a request other  *)
(* requests run and other programs write.                                  *)
(***************************************************************************)
EXTENDS Naturals

CONSTANTS
    RevMods,        \* mods of the workspace
    RevNone,        \* nothing there: no entry, no revision, no thread
    RevThreads,     \* requests in flight at the same time
    RevClient,      \* [RevThreads -> front ends]: who sends the request
    RevKinds,       \* the requests that are sent, a subset of RevAllKinds
    RevFaults,      \* a subset of {"seed", "blind"}
    RevMaxWrites,   \* bound: writes of table files in a behaviour
    RevMaxRequests  \* bound: requests in a behaviour

RevAllKinds == {"get", "all", "put", "undo", "poll", "select"}

ASSUME RevConstants ==
    /\ RevKinds \subseteq RevAllKinds
    /\ RevFaults \subseteq {"seed", "blind"}
    /\ RevMaxWrites \in Nat
    /\ RevMaxRequests \in Nat
    /\ RevNone \notin RevMods \cup RevThreads /\ RevNone \notin 0..RevMaxWrites

VARIABLES
    revFile,    \* [RevMods -> bytes, mtime and writer of the table file]
    revClock,   \* the next modification time
    revMod,     \* STATE().mod_root
    revGate,    \* the thread that holds workspace_gate, or RevNone
    revTable,   \* g_table: per path an entry, or RevNone
    revAll,     \* g_mod_cfgs_cache with its fingerprints
    revRoot,    \* revision_manager's g_workspace_root
    revMeta,    \* g_file_metadata: per path a fingerprint, or RevNone
    revCached,  \* g_cached_revision and g_cache_valid
    revClientRev, \* the _cachedRevision of each front end
    revSent,      \* requests so far
    revPc, revOp  \* where each request is, and its local variables

revDisk   == <<revFile, revClock>>
revCaches == <<revTable, revAll>>
revPrints == <<revRoot, revMeta, revCached>>
revReq    == <<revPc, revOp, revSent>>
revVars == <<revDisk, revMod, revGate, revCaches, revPrints, revClientRev, revReq>>

RevClients == {RevClient[t] : t \in RevThreads}
Times      == 0..RevMaxWrites
Entry(m, b) == [mtime |-> m, bytes |-> b]
EntryOf(f)  == Entry(f.mtime, f.bytes)
NoOperation == [kind |-> "none", path |-> RevNone, root |-> RevNone, rev |-> RevNone,
                stat |-> 0, seen |-> 0, got |-> RevNone, checking |-> FALSE]

RevInit ==
    /\ revFile = [m \in RevMods |-> [bytes |-> 0, mtime |-> 0, by |-> "outside"]]
    /\ revClock = 1
    /\ revMod \in RevMods
    /\ revGate = RevNone
    /\ revTable = [m \in RevMods |-> RevNone]
    /\ revAll = [valid |-> FALSE, dir |-> RevNone, entry |-> RevNone]
    /\ revRoot = RevNone
    /\ revMeta = [m \in RevMods |-> RevNone]
    /\ revCached = [valid |-> FALSE, revision |-> RevNone]
    /\ revClientRev = [c \in RevClients |-> IF "blind" \in RevFaults THEN RevNone ELSE 0]
    /\ revSent = 0
    /\ revPc = [t \in RevThreads |-> "idle"]
    /\ revOp = [t \in RevThreads |-> NoOperation]

At(t, l)       == revPc[t] = l
RevGoto(t, l)     == revPc' = [revPc EXCEPT ![t] = l]
Local(t, f, v) == revOp' = [revOp EXCEPT ![t][f] = v]
Finish(t)      == RevGoto(t, "idle") /\ revOp' = [revOp EXCEPT ![t] = NoOperation]
Fresh(e, f)    == e # RevNone /\ e.mtime = f.mtime

-----------------------------------------------------------------------------
(* A request arrives; its path is resolved under the mod selected then.    *)

\* saveTable, applyPatch and deleteRecord send the cached revision; without
\* one, and for GETs and history operations, no revision is checked.
FirstStep(k, rev) ==
    CASE k = "get"  -> "stat"
      [] k = "all"  -> "allStat"
      [] k = "put"  -> IF rev = RevNone THEN "stat" ELSE "root"
      [] k = "undo" -> "write"
      [] k = "poll" -> "pollRoot"

Arrive(t) ==
    /\ At(t, "idle")
    /\ revSent < RevMaxRequests
    /\ revSent' = revSent + 1
    /\ \E k \in RevKinds \ {"select"} :
         LET rev == IF k = "put" THEN revClientRev[RevClient[t]] ELSE RevNone IN
         /\ k \in {"put", "undo"} => revClock <= RevMaxWrites
         /\ revOp' = [revOp EXCEPT ![t] = [NoOperation EXCEPT !.kind = k, !.rev = rev,
                                                              !.path = revMod]]
         /\ RevGoto(t, FirstStep(k, rev))
    /\ UNCHANGED <<revDisk, revMod, revGate, revCaches, revPrints, revClientRev>>

\* select_mod: the mod-wide cache goes stale with the mod, the table cache does
\* not.
SelectMod ==
    /\ "select" \in RevKinds
    /\ revSent < RevMaxRequests
    /\ revSent' = revSent + 1
    /\ \E m \in RevMods \ {revMod} : revMod' = m
    /\ revAll' = [revAll EXCEPT !.valid = FALSE]
    /\ UNCHANGED <<revDisk, revGate, revTable, revPrints, revClientRev, revPc, revOp>>

-----------------------------------------------------------------------------
(* load_table_cached: what a GET answers, and the look at the old table    *)
(* that every save takes before it writes                                  *)

AfterLoad(t) ==
    IF revOp[t].kind = "put" THEN RevGoto(t, "write") /\ UNCHANGED revOp ELSE Finish(t)

StatTable(t) ==
    /\ At(t, "stat")
    /\ LET f == revFile[revOp[t].path] IN
       IF Fresh(revTable[revOp[t].path], f)
       THEN AfterLoad(t)
       ELSE Local(t, "stat", f.mtime) /\ RevGoto(t, "read")
    /\ UNCHANGED <<revDisk, revMod, revGate, revCaches, revPrints, revClientRev, revSent>>

ReadTable(t) ==
    /\ At(t, "read")
    /\ Local(t, "got", revFile[revOp[t].path].bytes)
    /\ RevGoto(t, "store")
    /\ UNCHANGED <<revDisk, revMod, revGate, revCaches, revPrints, revClientRev, revSent>>

\* Mutant: the fingerprint is taken after the read.
StoredPrintLate(t) == revFile[revOp[t].path].mtime

StoredPrint(t) == revOp[t].stat

StoreTable(t) ==
    /\ At(t, "store")
    /\ revTable' = [revTable EXCEPT ![revOp[t].path] = Entry(StoredPrint(t), revOp[t].got)]
    /\ AfterLoad(t)
    /\ UNCHANGED <<revDisk, revMod, revGate, revAll, revPrints, revClientRev, revSent>>

-----------------------------------------------------------------------------
(* The view of all tables: load_mod_cfgs                                   *)

StatAll(t) ==
    /\ At(t, "allStat")
    /\ LET f == revFile[revOp[t].path] IN
       IF revAll.valid /\ revAll.dir = revOp[t].path /\ Fresh(revAll.entry, f)
       THEN Finish(t)
       ELSE Local(t, "stat", f.mtime) /\ RevGoto(t, "allRead")
    /\ UNCHANGED <<revDisk, revMod, revGate, revCaches, revPrints, revClientRev, revSent>>

ReadAll(t) ==
    /\ At(t, "allRead")
    /\ Local(t, "got", revFile[revOp[t].path].bytes)
    /\ RevGoto(t, "allInstall")
    /\ UNCHANGED <<revDisk, revMod, revGate, revCaches, revPrints, revClientRev, revSent>>

InstallAll(t) ==
    /\ At(t, "allInstall")
    /\ revAll' = [valid |-> TRUE, dir |-> revOp[t].path,
                  entry |-> Entry(revOp[t].stat, revOp[t].got)]
    /\ Finish(t)
    /\ UNCHANGED <<revDisk, revMod, revGate, revTable, revPrints, revClientRev, revSent>>

-----------------------------------------------------------------------------
(* The workspace fingerprint: compute_revision and its callers             *)

SetRoot(m) ==
    IF revRoot = m THEN UNCHANGED <<revRoot, revMeta, revCached>>
    ELSE /\ revRoot' = m
         /\ revMeta' = [x \in RevMods |-> RevNone]
         /\ revCached' = [revCached EXCEPT !.valid = FALSE]

\* GET /api/workspace/revision reads the mod, then sets the root: of a mod that
\* need not be the selected one any more, under a save that has set its own.
PollRoot(t) ==
    /\ At(t, "pollRoot")
    /\ Local(t, "root", revMod)
    /\ RevGoto(t, "pollSet")
    /\ UNCHANGED <<revDisk, revMod, revGate, revCaches, revPrints, revClientRev, revSent>>

PollSet(t) ==
    /\ At(t, "pollSet")
    /\ SetRoot(revOp[t].root)
    /\ RevGoto(t, "print")
    /\ UNCHANGED <<revDisk, revMod, revGate, revCaches, revClientRev, revOp, revSent>>

\* Before any root is set the fingerprint is empty.
PrintStat(t) ==
    /\ At(t, "print")
    /\ \/ /\ revRoot = RevNone
          /\ Local(t, "got", RevNone) /\ RevGoto(t, "publish")
       \/ /\ revRoot # RevNone
          /\ LET f == revFile[revRoot]
                 e == revMeta[revRoot] IN
             IF Fresh(e, f)
             THEN /\ revOp' = [revOp EXCEPT ![t].stat = f.mtime, ![t].root = revRoot,
                                                ![t].got = e.bytes]
                  /\ RevGoto(t, "publish")
             ELSE /\ revOp' = [revOp EXCEPT ![t].stat = f.mtime, ![t].root = revRoot]
                  /\ RevGoto(t, "hash")
    /\ UNCHANGED <<revDisk, revMod, revGate, revCaches, revPrints, revClientRev, revSent>>

PrintHash(t) ==
    /\ At(t, "hash")
    /\ LET m == revOp[t].root IN
       /\ Local(t, "got", revFile[m].bytes)
       /\ revMeta' = [revMeta EXCEPT ![m] = Entry(revOp[t].stat, revFile[m].bytes)]
    /\ RevGoto(t, "publish")
    /\ UNCHANGED <<revDisk, revMod, revGate, revCaches, revRoot, revCached, revClientRev, revSent>>

\* The front end takes a polled revision as it is, and the revision of its own
\* save only if no other save of its has replaced the one this save sent.
Adopt(t, revision) ==
    IF /\ revision # RevNone
       /\ revOp[t].kind = "poll" \/ revClientRev[RevClient[t]] = revOp[t].rev
    THEN revClientRev' = [revClientRev EXCEPT ![RevClient[t]] = revision]
    ELSE UNCHANGED revClientRev

\* What verify_revision compares is what was just computed.  A refusal sends
\* the front end the fresh revision but leaves the one it keeps.
Publish(t) ==
    /\ At(t, "publish")
    /\ revCached' = [valid |-> TRUE, revision |-> revOp[t].got]
    /\ IF revOp[t].checking
       THEN /\ UNCHANGED revClientRev
            /\ IF revOp[t].got = revOp[t].rev
               THEN Local(t, "seen", revOp[t].stat) /\ RevGoto(t, "stat") /\ UNCHANGED revGate
               ELSE revGate' = RevNone /\ Finish(t)
       ELSE /\ Adopt(t, revOp[t].got)
            /\ revGate' = IF revGate = t THEN RevNone ELSE revGate
            /\ Finish(t)
    /\ UNCHANGED <<revDisk, revMod, revCaches, revRoot, revMeta, revSent>>

-----------------------------------------------------------------------------
(* PUT, its patch branch and DELETE                                        *)

ReadRoot(t) ==
    /\ At(t, "root")
    /\ Local(t, "root", revMod)
    /\ RevGoto(t, "gate")
    /\ UNCHANGED <<revDisk, revMod, revGate, revCaches, revPrints, revClientRev, revSent>>

\* Mutant: the gate is taken for the write only.
TakeGateLate(t) == UNCHANGED revGate

TakeGate(t) == revGate = RevNone /\ revGate' = t

EnterGate(t) ==
    /\ At(t, "gate")
    /\ TakeGate(t)
    /\ SetRoot(revOp[t].root)
    /\ Local(t, "checking", TRUE)
    /\ RevGoto(t, "print")
    /\ UNCHANGED <<revDisk, revMod, revCaches, revClientRev, revSent>>

Overwrite(m, b, w) ==
    /\ revFile' = [revFile EXCEPT ![m] = [bytes |-> b, mtime |-> revClock, by |-> w]]
    /\ revClock' = revClock + 1

\* cfg_store holds the gate for the write; a save that conflicts or fails
\* leaves the table and answers.
Write(t) ==
    /\ At(t, "write") /\ revOp[t].kind = "put"
    /\ revGate \in {RevNone, t}
    /\ \/ /\ revClock <= RevMaxWrites
          /\ Overwrite(revOp[t].path, revClock, "server")
          /\ revOp' = [revOp EXCEPT ![t].stat = revClock, ![t].got = revClock,
                                    ![t].checking = FALSE]
          /\ RevGoto(t, "seed")
          /\ UNCHANGED revGate
       \/ /\ revGate' = IF revGate = t THEN RevNone ELSE revGate
          /\ Finish(t)
          /\ UNCHANGED revDisk
    /\ UNCHANGED <<revMod, revCaches, revPrints, revClientRev, revSent>>

\* invalidate, seed_table_cache with the time of the write, and
\* note_mod_cfgs_write with a stat taken now, whatever mod the view is of.
Seed(t) ==
    /\ At(t, "seed")
    /\ LET m == revOp[t].path IN
       /\ revTable' = [revTable EXCEPT ![m] = Entry(revOp[t].stat, revOp[t].got)]
       /\ revAll' = IF revAll.valid
                    THEN [revAll EXCEPT !.entry = Entry(revFile[m].mtime, revOp[t].got)]
                    ELSE revAll
    /\ RevGoto(t, "refresh")
    /\ UNCHANGED <<revDisk, revMod, revGate, revPrints, revClientRev, revOp, revSent>>

\* refresh_revision_after_write: the digest of the bytes written is kept under
\* a stat taken now.
Refresh(t) ==
    /\ At(t, "refresh")
    /\ LET m == revOp[t].path IN
       revMeta' = [revMeta EXCEPT ![m] = Entry(revFile[m].mtime, revOp[t].got)]
    /\ revCached' = [revCached EXCEPT !.valid = FALSE]
    /\ RevGoto(t, "answer")
    /\ UNCHANGED <<revDisk, revMod, revGate, revCaches, revRoot, revClientRev, revOp, revSent>>

\* compute_revision_cached(false): what somebody published meanwhile will do.
Answer(t) ==
    /\ At(t, "answer")
    /\ IF revCached.valid
       THEN /\ Adopt(t, revCached.revision)
            /\ revGate' = IF revGate = t THEN RevNone ELSE revGate
            /\ Finish(t)
       ELSE RevGoto(t, "print") /\ UNCHANGED <<revGate, revClientRev, revOp>>
    /\ UNCHANGED <<revDisk, revMod, revCaches, revPrints, revSent>>

-----------------------------------------------------------------------------
(* POST /api/history/undo and redo                                         *)

Revert(t) ==
    /\ At(t, "write") /\ revOp[t].kind = "undo"
    /\ revGate = RevNone
    /\ \/ /\ revClock <= RevMaxWrites
          /\ \E b \in 0..(revClock - 1) \ {revFile[revOp[t].path].bytes} :
               Overwrite(revOp[t].path, b, "server")
          /\ RevGoto(t, "reverted") /\ UNCHANGED revOp
       \/ UNCHANGED revDisk /\ Finish(t)
    /\ UNCHANGED <<revMod, revGate, revCaches, revPrints, revClientRev, revSent>>

Reverted(t) ==
    /\ At(t, "reverted")
    /\ revAll' = [revAll EXCEPT !.valid = FALSE]
    /\ Finish(t)
    /\ UNCHANGED <<revDisk, revMod, revGate, revTable, revPrints, revClientRev, revSent>>

-----------------------------------------------------------------------------
(* Other programs write the table                                          *)

Unsettled(m) == \E t \in RevThreads : revOp[t].path = m /\ revPc[t] \in {"seed", "refresh"}

OutsideEdit ==
    /\ revClock <= RevMaxWrites
    /\ \E m \in RevMods :
         /\ "seed" \in RevFaults \/ ~Unsettled(m)
         /\ Overwrite(m, revClock, "outside")
    /\ UNCHANGED <<revMod, revGate, revCaches, revPrints, revClientRev, revReq>>

RevRequestStep(t) ==
    \/ StatTable(t) \/ ReadTable(t) \/ StoreTable(t)
    \/ StatAll(t) \/ ReadAll(t) \/ InstallAll(t)
    \/ PollRoot(t) \/ PollSet(t) \/ PrintStat(t) \/ PrintHash(t) \/ Publish(t)
    \/ ReadRoot(t) \/ EnterGate(t) \/ Write(t) \/ Seed(t) \/ Refresh(t) \/ Answer(t)
    \/ Revert(t) \/ Reverted(t)

RevNext ==
    \/ SelectMod
    \/ OutsideEdit
    \/ \E t \in RevThreads : Arrive(t) \/ RevRequestStep(t)

RevSpec == RevInit /\ [][RevNext]_revVars

-----------------------------------------------------------------------------
(* Properties                                                              *)

MaybeEntry == {RevNone} \cup [mtime : Times, bytes : Times]

\* The caches, the gate and the requests keep the shape their code relies on;
\* the gate is held exactly by the save that is past it.
RevTypeOK ==
    /\ \A m \in RevMods : revTable[m] \in MaybeEntry /\ revMeta[m] \in MaybeEntry
    /\ revAll.entry \in MaybeEntry
    /\ revMod \in RevMods /\ revRoot \in RevMods \cup {RevNone}
    /\ revGate # RevNone => revOp[revGate].rev # RevNone
    /\ \A t \in RevThreads : revOp[t].checking => revGate = t

Honest(e, f) == Fresh(e, f) => e.bytes = f.bytes

\* A cache entry whose fingerprint is that of the file holds the file's bytes:
\* whatever a GET, the mod-wide view or the fingerprint takes from its cache is
\* what the disk says, although stat, read and store are three steps and writes
\* of other requests and programs come between them (cfg_cache.cpp:125-226,
\* revision_manager.cpp:160-182).
CacheHitIsCurrent ==
    /\ \A m \in RevMods : Honest(revTable[m], revFile[m]) /\ Honest(revMeta[m], revFile[m])
    /\ revAll.valid => Honest(revAll.entry, revFile[revAll.dir])

\* A save that sent a revision and was judged by the fingerprint of its own mod
\* replaces only bytes that revision names, or bytes that came from outside after
\* this save had looked: two saves with one revision never both pass
\* (cfg_routes.cpp:128-150, "lost update").  A save is judged by another mod's
\* when a select comes before it reads the mod, or a late poll after its root.
NoLostUpdate ==
    [][\A t \in RevThreads :
         /\ At(t, "write") /\ revPc'[t] = "seed"
         /\ revOp[t].rev # RevNone /\ revOp[t].root = revOp[t].path
         => LET f == revFile[revOp[t].path] IN
            \/ f.bytes = revOp[t].rev
            \/ f.by = "outside" /\ f.mtime > revOp[t].seen]_revVars
=============================================================================
