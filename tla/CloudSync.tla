----------------------------- MODULE CloudSync -----------------------------
(***************************************************************************)
(* What the realtime watcher of realtime.cpp does to the files of one mod  *)
(* and to their copies in the cloud, together with a sync of the whole     *)
(* folder that a request starts (cloud_sync.cpp).  The watcher polls the   *)
(* local files against its last snapshot, collects what changed, and when  *)
(* nothing has changed for the debounce time hands the lot to execute_sync; *)
(* in direction "sync" it also lists the remote side and downloads what is *)
(* newer there; in direction "download" it ignores what changed here.      *)
(*                                                                         *)
(* A content is the number of the write that made it, a time the number of *)
(* the last write; a copy bears the time of the copying.  The remote store *)
(* knows the digests of its files.                                         *)
(*                                                                         *)
(* A put or a deletion of the watcher that fails, a file that returns      *)
(* before its deletion is sent, a change that leaves a file as the last    *)
(* snapshot has it, and a folder sync that acts on an old listing are      *)
(* ordinary steps.  The code takes no note of them; csLost does.           *)
(***************************************************************************)
EXTENDS Naturals, FiniteSets

CONSTANTS
    CloudFiles,
    CsDirections,   \* directions the watcher may be configured with
    CsMaxWrites,    \* bound: writes and deletions by the user and by others
    CsMaxFails,     \* bound: transfers and deletions over there that fail
    CsMaxManual     \* bound: folder syncs that requests start

ASSUME CloudConstants ==
    /\ CsDirections \subseteq {"upload", "download", "sync"}
    /\ CsMaxWrites \in Nat /\ CsMaxFails \in Nat /\ CsMaxManual \in Nat

VARIABLES
    csLocal, csRemote,    \* [CloudFiles -> content and time]; content 0: absent
    csClock,
    csSnap,               \* g_prev_snapshots: sizes and times, as content and time
    csAmbig,              \* g_ambig_sha: content of a file when last hashed, 0: never
    csChanged, csDeleted, \* g_pending
    csAged,               \* the debounce time has passed since g_last_change_ts
    csBusy,               \* g_sync_state["running"]
    csWatch,              \* the watcher: where it is, what it still has to do
    csManual, csManuals,  \* the folder sync in progress, and how many there were
    csFails,              \* transfers that failed
    csLost,               \* files the watcher lost track of, until it takes them up (history)
    csDirection, csDeleteExtra  \* the configuration

csStores  == <<csLocal, csRemote, csClock>>
csPending == <<csSnap, csAmbig, csChanged, csDeleted, csAged>>
csFate    == <<csFails, csLost>>
csConfig  == <<csDirection, csDeleteExtra>>
csVars == <<csStores, csPending, csBusy, csWatch, csManual, csManuals, csFate, csConfig>>

Absent     == [c |-> 0, t |-> 0]
NothingRead == [f \in CloudFiles |-> 0]
Idle(pc)   == [pc |-> pc, put |-> {}, drop |-> {}, get |-> {}, buf |-> NothingRead]

CsInit ==
    /\ csDirection \in CsDirections /\ csDeleteExtra \in BOOLEAN
    /\ \E there \in SUBSET CloudFiles :
         csLocal = [f \in CloudFiles |-> IF f \in there THEN [c |-> 1, t |-> 1] ELSE Absent]
    /\ csRemote = csLocal
    /\ csClock = 1
    /\ csSnap = csLocal
    /\ csAmbig = NothingRead
    /\ csChanged = {} /\ csDeleted = {} /\ csAged = FALSE
    /\ csBusy = FALSE
    /\ csWatch = Idle("poll")
    /\ csManual = Idle("none") /\ csManuals = 0
    /\ csFails = 0 /\ csLost = {}

-----------------------------------------------------------------------------
(* The user, and other users of the remote store                           *)

Here(f) == csLocal[f].c # 0
Tick    == csClock <= CsMaxWrites /\ csClock' = csClock + 1
CsWorld == UNCHANGED <<csPending, csBusy, csWatch, csManual, csManuals, csFails, csConfig>>

\* Written as q, f is what the last snapshot says: absent, or of the same size and
\* time and never hashed with another content.  No poll can tell.
LooksTheSame(f, q) ==
    IF q.c = 0 \/ csSnap[f].c = 0 THEN q.c = csSnap[f].c
    ELSE q.t = csSnap[f].t /\ csAmbig[f] \in {0, q.c}

LosesIf(f, lost) == csLost' = IF lost THEN csLost \cup {f} ELSE csLost

Write(f, q) ==
    /\ csLocal' = [csLocal EXCEPT ![f] = q]
    /\ LosesIf(f, LooksTheSame(f, q))

EditFile(f) ==
    /\ Tick
    /\ Write(f, [c |-> csClock + 1, t |-> csClock + 1])
    /\ UNCHANGED csRemote /\ CsWorld

\* A second edit within a second that leaves the size.
EditFileQuickly(f) ==
    /\ Tick /\ Here(f)
    /\ Write(f, [csLocal[f] EXCEPT !.c = csClock + 1])
    /\ UNCHANGED csRemote /\ CsWorld

DeleteFile(f) ==
    /\ Tick /\ Here(f)
    /\ Write(f, Absent)
    /\ UNCHANGED csRemote /\ CsWorld

RemoteWrite(f) ==
    /\ csDirection # "upload" /\ Tick
    /\ csRemote' = [csRemote EXCEPT ![f] = [c |-> csClock + 1, t |-> csClock + 1]]
    /\ UNCHANGED <<csLocal, csLost>> /\ CsWorld

-----------------------------------------------------------------------------
(* The watcher: local polling                                              *)

Watching(pc) == csWatch.pc = pc
WatchGoto(pc) == csWatch' = Idle(pc)

SameStamp(f) == Here(f) /\ csSnap[f].c # 0 /\ csLocal[f].t = csSnap[f].t

\* Mutant: the old digest is read after it has been overwritten.
AmbigChangedAfterStore(f) == csAmbig[f] # 0 /\ csLocal[f].c # csLocal[f].c

AmbigChanged(f) == csAmbig[f] # 0 /\ csAmbig[f] # csLocal[f].c

Changes   == {f \in CloudFiles : Here(f) /\ (~SameStamp(f) \/ AmbigChanged(f))}
Deletions == {f \in CloudFiles : ~Here(f) /\ csSnap[f].c # 0}

PollLocal ==
    /\ Watching("poll")
    /\ csSnap' = csLocal
    /\ csAmbig' = [f \in CloudFiles |-> IF SameStamp(f) THEN csLocal[f].c ELSE csAmbig[f]]
    /\ csChanged' = csChanged \cup Changes
    /\ csDeleted' = csDeleted \cup Deletions
    /\ csAged' = IF Changes \cup Deletions = {} THEN csAged ELSE FALSE
    /\ csLost' = csLost \ (Changes \cup Deletions)
    /\ WatchGoto("fire")
    /\ UNCHANGED <<csStores, csBusy, csManual, csManuals, csFails, csConfig>>

DebounceElapses ==
    /\ csChanged \cup csDeleted # {} /\ ~csAged
    /\ csAged' = TRUE
    /\ UNCHANGED <<csStores, csSnap, csAmbig, csChanged, csDeleted, csBusy, csWatch, csManual,
                   csManuals, csFate, csConfig>>

\* Mutant: the pending sets are cleared before the look at the running sync.
KeptWhileBusyDropped == csChanged' = {} /\ csDeleted' = {}

KeptWhileBusy == UNCHANGED <<csChanged, csDeleted>>

\* What the pending sets say of f as it is now.
Pending(f) == f \in (IF Here(f) THEN csChanged ELSE csDeleted)

Due == csAged /\ csChanged \cup csDeleted # {}

\* While a sync runs the round ends here; otherwise the pending sets are taken
\* and cleared, and whatever becomes of the sync they do not come back.
Fire ==
    /\ Watching("fire")
    /\ \/ /\ ~Due
          /\ WatchGoto("remote")
          /\ UNCHANGED <<csChanged, csDeleted, csAged, csBusy, csLost>>
       \/ /\ Due /\ csBusy
          /\ KeptWhileBusy
          /\ WatchGoto("poll")
          /\ UNCHANGED <<csAged, csBusy, csLost>>
       \/ /\ Due /\ ~csBusy
          /\ csWatch' = IF csDirection = "download" THEN Idle("drop")
                        ELSE [Idle("put") EXCEPT !.put = csChanged,
                                !.drop = IF csDeleteExtra THEN csDeleted ELSE {}]
          /\ csChanged' = {} /\ csDeleted' = {} /\ csAged' = FALSE
          /\ csBusy' = (csDirection = "upload" /\ csChanged # {})
          /\ csLost' = {f \in csLost : ~Pending(f)}
    /\ UNCHANGED <<csStores, csSnap, csAmbig, csManual, csManuals, csFails, csConfig>>

-----------------------------------------------------------------------------
(* Transfers: a put reads the local file and writes the remote one later.  *)

Reads(f, s)  == [s EXCEPT !.buf[f] = csLocal[f].c]
Done(f, s)   == [s EXCEPT !.put = @ \ {f}, !.buf[f] = 0]
Stored(f, s) == csRemote' = [csRemote EXCEPT ![f] = [c |-> s.buf[f], t |-> csClock]]
Fetched(f)   == Write(f, [c |-> csRemote[f].c, t |-> csClock])
Fails        == csFails < CsMaxFails /\ csFails' = csFails + 1

\* sync_single_file of an upload; direction "sync" asks the remote time first.
\* A file that is gone, or newer over there, is left alone.
SkipsPut(f) == ~Here(f) \/ (csDirection = "sync" /\ csRemote[f].t > csLocal[f].t)

WatchReads ==
    /\ Watching("put")
    /\ \E f \in csWatch.put :
         /\ csWatch.buf[f] = 0
         /\ csWatch' = IF SkipsPut(f) THEN Done(f, csWatch) ELSE Reads(f, csWatch)
    /\ UNCHANGED <<csStores, csPending, csBusy, csManual, csManuals, csFate, csConfig>>

WatchStores ==
    /\ Watching("put")
    /\ \E f \in csWatch.put :
         /\ csWatch.buf[f] # 0
         /\ \/ Stored(f, csWatch) /\ UNCHANGED csFate
            \/ Fails /\ LosesIf(f, TRUE) /\ UNCHANGED csRemote
         /\ csWatch' = Done(f, csWatch)
    /\ UNCHANGED <<csLocal, csClock, csPending, csBusy, csManual, csManuals, csConfig>>

WatchPutsDone ==
    /\ Watching("put") /\ csWatch.put = {}
    /\ csWatch' = [csWatch EXCEPT !.pc = "drop"]
    /\ csBusy' = IF csDirection = "upload" THEN FALSE ELSE csBusy
    /\ UNCHANGED <<csStores, csPending, csManual, csManuals, csFate, csConfig>>

\* The deletions come last, whatever has become of the file.
WatchDrops ==
    /\ Watching("drop")
    /\ \E f \in csWatch.drop :
         /\ \/ /\ csRemote' = [csRemote EXCEPT ![f] = Absent]
               /\ LosesIf(f, Here(f)) /\ UNCHANGED csFails
            \/ Fails /\ LosesIf(f, TRUE) /\ UNCHANGED csRemote
         /\ csWatch' = [csWatch EXCEPT !.drop = @ \ {f}]
    /\ UNCHANGED <<csLocal, csClock, csPending, csBusy, csManual, csManuals, csConfig>>

WatchSynced ==
    /\ Watching("drop") /\ csWatch.drop = {}
    /\ WatchGoto("remote")
    /\ UNCHANGED <<csStores, csPending, csBusy, csManual, csManuals, csFate, csConfig>>

-----------------------------------------------------------------------------
(* The watcher: remote polling                                             *)

NeedSync(f) == csLocal[f].c # csRemote[f].c
Newer == {f \in CloudFiles : csRemote[f].c # 0 /\
            (~Here(f) \/ (NeedSync(f) /\ csRemote[f].t > csLocal[f].t))}
ToGet == IF csDirection = "sync" THEN Newer
         ELSE {f \in CloudFiles : csRemote[f].c # 0 /\ (~Here(f) \/ NeedSync(f))}

ListRemote ==
    /\ Watching("remote")
    /\ IF csDirection # "upload" /\ ~csBusy /\ ToGet # {}
       THEN csWatch' = [Idle("get") EXCEPT !.get = ToGet] /\ csBusy' = TRUE
       ELSE WatchGoto("poll") /\ UNCHANGED csBusy
    /\ UNCHANGED <<csStores, csPending, csManual, csManuals, csFate, csConfig>>

WatchGets ==
    /\ Watching("get")
    /\ \E f \in csWatch.get :
         /\ \/ csRemote[f].c # 0 /\ Fetched(f) /\ UNCHANGED csFails
            \/ csRemote[f].c = 0 /\ UNCHANGED <<csLocal, csFate>>
            \/ Fails /\ UNCHANGED <<csLocal, csLost>>
         /\ csWatch' = [csWatch EXCEPT !.get = @ \ {f}]
    /\ UNCHANGED <<csRemote, csClock, csPending, csBusy, csManual, csManuals, csConfig>>

\* The answer of sync_mod_files has no "total", so the snapshot stays: the next
\* round finds the downloaded files changed.
WatchGot ==
    /\ Watching("get") /\ csWatch.get = {}
    /\ WatchGoto("poll")
    /\ csBusy' = FALSE
    /\ UNCHANGED <<csStores, csPending, csManual, csManuals, csFate, csConfig>>

-----------------------------------------------------------------------------
(* POST /api/cloud/sync of a folder, in any direction                      *)

Differ == {f \in CloudFiles : Here(f) /\ csRemote[f].c # 0 /\ NeedSync(f)}
OnlyLocal  == {f \in CloudFiles : Here(f) /\ csRemote[f].c = 0}
OnlyRemote == {f \in CloudFiles : ~Here(f) /\ csRemote[f].c # 0}

\* Two listings, and per file what sync_mod_folder will do about it.
Plan(direction, extra) ==
    CASE direction = "upload" ->
           [put |-> OnlyLocal \cup Differ, get |-> {}, drop |-> IF extra THEN OnlyRemote ELSE {}]
      [] direction = "download" ->
           [put |-> {}, get |-> OnlyRemote \cup Differ, drop |-> {}]
      [] direction = "sync" ->
           [put |-> OnlyLocal \cup (Differ \ Newer), get |-> OnlyRemote \cup (Differ \cap Newer),
            drop |-> {}]

ManualList ==
    /\ csManual.pc = "none" /\ csManuals < CsMaxManual
    /\ csManuals' = csManuals + 1
    /\ csBusy' = TRUE
    /\ \E d \in {"upload", "download", "sync"}, extra \in BOOLEAN :
         LET p == Plan(d, extra) IN
         /\ csManual' = [pc |-> "run", put |-> p.put, get |-> p.get, drop |-> p.drop,
                         buf |-> NothingRead]
    /\ UNCHANGED <<csStores, csPending, csWatch, csFate, csConfig>>

\* One file of the plan, on the facts of the listing; its failure is a line of
\* the answer.
ManualReads ==
    /\ \E f \in csManual.put :
         /\ csManual.buf[f] = 0
         /\ csManual' = IF Here(f) THEN Reads(f, csManual) ELSE Done(f, csManual)
    /\ UNCHANGED <<csStores, csPending, csBusy, csWatch, csManuals, csFate, csConfig>>

ManualStores ==
    /\ \E f \in csManual.put :
         /\ csManual.buf[f] # 0
         /\ \/ /\ Stored(f, csManual)
               /\ LosesIf(f, csManual.buf[f] # csLocal[f].c) /\ UNCHANGED csFails
            \/ Fails /\ UNCHANGED <<csRemote, csLost>>
         /\ csManual' = Done(f, csManual)
    /\ UNCHANGED <<csLocal, csClock, csPending, csBusy, csWatch, csManuals, csConfig>>

ManualGets ==
    /\ \E f \in csManual.get :
         /\ \/ csRemote[f].c # 0 /\ Fetched(f) /\ UNCHANGED csFails
            \/ csRemote[f].c = 0 /\ UNCHANGED <<csLocal, csFate>>
            \/ Fails /\ UNCHANGED <<csLocal, csLost>>
         /\ csManual' = [csManual EXCEPT !.get = @ \ {f}]
    /\ UNCHANGED <<csRemote, csClock, csPending, csBusy, csWatch, csManuals, csConfig>>

ManualDrops ==
    /\ \E f \in csManual.drop :
         /\ \/ /\ csRemote' = [csRemote EXCEPT ![f] = Absent]
               /\ LosesIf(f, Here(f)) /\ UNCHANGED csFails
            \/ Fails /\ UNCHANGED <<csRemote, csLost>>
         /\ csManual' = [csManual EXCEPT !.drop = @ \ {f}]
    /\ UNCHANGED <<csLocal, csClock, csPending, csBusy, csWatch, csManuals, csConfig>>

ManualDone ==
    /\ csManual.pc = "run" /\ csManual.put \cup csManual.get \cup csManual.drop = {}
    /\ csManual' = Idle("none")
    /\ csBusy' = FALSE
    /\ UNCHANGED <<csStores, csPending, csWatch, csManuals, csFate, csConfig>>

CsWatcher ==
    \/ PollLocal \/ Fire \/ WatchReads \/ WatchStores \/ WatchPutsDone \/ WatchDrops
    \/ WatchSynced \/ ListRemote \/ WatchGets \/ WatchGot

CsManual == ManualReads \/ ManualStores \/ ManualGets \/ ManualDrops \/ ManualDone

CsNext ==
    \/ \E f \in CloudFiles : EditFile(f) \/ EditFileQuickly(f) \/ DeleteFile(f) \/ RemoteWrite(f)
    \/ CsWatcher \/ DebounceElapses
    \/ ManualList \/ CsManual

\* The watcher's loop never ends by itself, time passes, a transfer ends.
CsFairness == WF_csVars(CsWatcher) /\ WF_csVars(DebounceElapses) /\ WF_csVars(CsManual)

CsSpec == CsInit /\ [][CsNext]_csVars /\ CsFairness

-----------------------------------------------------------------------------
(* Properties                                                              *)

Settled(f) ==
    \/ csLocal[f].c = csRemote[f].c
    \/ ~Here(f) /\ ~csDeleteExtra
    \/ csRemote[f].c = 0 /\ csDirection = "download"

OnItsWay(f) == IF Here(f) THEN f \in csWatch.put /\ csWatch.buf[f] \in {0, csLocal[f].c}
               ELSE f \in csWatch.drop

WillBeSeen(f) ==
    \/ Here(f) # (csSnap[f].c # 0)
    \/ Here(f) /\ (csLocal[f].t # csSnap[f].t \/ csAmbig[f] \notin {0, csLocal[f].c})

\* While the watcher uploads, no local change falls between its snapshot, its
\* pending sets and the sync in progress, although files change while they are
\* read and while a folder sync holds the watcher back (realtime.cpp:660-770);
\* but for the steps that are named above, of which it takes no note.
NoChangeForgotten ==
    csDirection = "upload" =>
        \A f \in CloudFiles :
            Settled(f) \/ Pending(f) \/ OnItsWay(f) \/ WillBeSeen(f) \/ f \in csLost

\* When the user and the others come to rest, so do both sides, and they agree (a
\* deletion that is not to be synced, and what a download-only watcher leaves to
\* the local side, aside) on every file the watcher did not lose.
SidesAgree == <>[](\A f \in CloudFiles : Settled(f) \/ f \in csLost)
=============================================================================
