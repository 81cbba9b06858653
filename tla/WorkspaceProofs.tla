--------------------------- MODULE WorkspaceProofs ---------------------------
(***************************************************************************)
(* Proofs about what the server keeps beside the tables: tombstones, the   *)
(* list of mods, revisions and caches.                                     *)
(***************************************************************************)
EXTENDS Revision, Tombstones, ModList, TLAPS

-----------------------------------------------------------------------------
(* Tombstones                                                              *)

TombTypeOK ==
    /\ tombMod \in TombMods
    /\ tombMem \subseteq TombIds /\ tombPending \in BOOLEAN
    /\ tombFile \in [TombMods -> SUBSET TombIds]
    /\ tombRows \in [TombMods -> SUBSET TombIds]
    /\ tombPc \in [TombThreads -> {"idle", "mod", "root", "bury", "remove", "persist", "load"}]
    /\ tombOp \in [TombThreads -> [path : TombMods \cup {TombNone}, id : TombIds \cup {TombNone},
                                   root : TombMods \cup {TombNone}]]

\* A request that deletes has a row of a mod that is worked on; once it has buried
\* the row's id, the id stays in memory, and the root is a mod that is worked on.
RequestsSound ==
    /\ tombRoot \in tombUsed \cup {TombNone} /\ tombUsed \subseteq TombMods
    /\ \A t \in TombThreads :
        /\ tombOp[t].id # TombNone => tombOp[t].path \in tombUsed
        /\ tombPc[t] = "root" => tombOp[t].root \in TombMods
        /\ tombPc[t] \in {"bury", "remove", "persist"} => tombOp[t].id \in TombIds
        /\ tombPc[t] \in {"remove", "persist"} => tombOp[t].id \in tombMem
        /\ tombPc[t] \in {"bury", "remove", "persist", "load"} => tombRoot \in tombUsed

TombInv == TombTypeOK /\ RequestsSound /\ TombstonesMatchRows /\ RemovedIsBuried

\* The inductive invariant of the tombstones: it holds at the start and every step
\* keeps it (TombInvNext).
LEMMA TombInvInit == TombInit => TombInv
<1> SUFFICES ASSUME TombInit PROVE TombInv
  OBVIOUS
<1>1. TombTypeOK /\ RequestsSound
  BY TombConstants DEF TombInit, TombTypeOK, RequestsSound, NoDelete
<1>2. TombstonesMatchRows /\ RemovedIsBuried
  BY DEF TombInit, TombstonesMatchRows, RemovedIsBuried
<1> QED BY <1>1, <1>2 DEF TombInv

\* What a request that moves on must keep, if rows and files stay as they are and
\* it was not removing a row.
LEMMA TombMoves ==
    ASSUME TombInv, NEW t \in TombThreads, TombTypeOK',
           UNCHANGED <<tombFile, tombRows, tombKept>>,
           tombMem \subseteq tombMem', tombUsed \subseteq tombUsed', tombUsed' \subseteq TombMods,
           tombRoot' = tombRoot \/ tombRoot' \in tombUsed',
           tombPc[t] # "remove",
           \A m \in TombMods : tombUsed' \subseteq {m} =>
               /\ ~tombPending' => tombMem' \subseteq tombFile[m]
               /\ \A i \in tombRows[m] \cap tombMem' :
                      i \in tombMem \cup tombFile[m] \/ Removing(t, m, i)',
           \A u \in TombThreads \ {t} : tombPc'[u] = tombPc[u] /\ tombOp'[u] = tombOp[u],
           tombOp'[t].id # TombNone => tombOp'[t].path \in tombUsed',
           tombPc'[t] = "root" => tombOp'[t].root \in TombMods,
           tombPc'[t] \in {"bury", "remove", "persist"} => tombOp'[t].id \in TombIds,
           tombPc'[t] \in {"remove", "persist"} => tombOp'[t].id \in tombMem',
           tombPc'[t] \in {"bury", "remove", "persist", "load"} => tombRoot' \in tombUsed'
    PROVE  TombInv'
<1>1. RequestsSound'
  BY DEF TombInv, RequestsSound
<1>2. TombstonesMatchRows'
  <2> SUFFICES ASSUME NEW m \in TombMods, tombUsed' \subseteq {m}, NEW i \in tombRows[m],
                      i \in tombMem' \cup tombFile[m]
               PROVE  <<m, i>> \in tombKept \/ \E u \in TombThreads : Removing(u, m, i)'
    BY DEF TombstonesMatchRows, Removing, TombAt
  <2>1. CASE Removing(t, m, i)'
    BY <2>1
  <2>2. CASE i \in tombMem \cup tombFile[m]
    <3>1. <<m, i>> \in tombKept \/ \E u \in TombThreads : Removing(u, m, i)
      BY <2>2 DEF TombInv, TombstonesMatchRows
    <3> QED BY <3>1 DEF Removing, TombAt
  <2> QED BY <2>1, <2>2
<1>3. RemovedIsBuried'
  BY DEF TombInv, RemovedIsBuried
<1> QED BY <1>1, <1>2, <1>3 DEF TombInv

\* Every step keeps it.
LEMMA TombInvNext == TombInv /\ [TombNext]_tombVars => TombInv'
<1> SUFFICES ASSUME TombInv, [TombNext]_tombVars PROVE TombInv'
  OBVIOUS
<1>0. TombTypeOK /\ RequestsSound /\ TombstonesMatchRows /\ RemovedIsBuried
  BY DEF TombInv
<1>1. CASE /\ UNCHANGED <<tombRoot, tombMem, tombPending, tombFile, tombRows, tombUsed, tombKept,
                          tombPc, tombOp>>
           /\ tombMod' \in TombMods
  BY <1>0, <1>1 DEF TombInv, TombTypeOK, RequestsSound, TombstonesMatchRows, RemovedIsBuried,
                    Removing, TombAt
<1>2. ASSUME NEW t \in TombThreads, Delete(t)
      PROVE  TombInv'
  <2>1. PICK i \in tombRows[tombMod] :
          /\ tombOp' = [tombOp EXCEPT ![t] = [NoDelete EXCEPT !.path = tombMod, !.id = i]]
          /\ tombPc' = [tombPc EXCEPT ![t] = "mod"] /\ tombPc[t] = "idle"
          /\ tombUsed' = tombUsed \cup {tombMod}
          /\ UNCHANGED <<tombMod, tombRoot, tombMem, tombPending, tombFile, tombRows, tombKept>>
    BY <1>2 DEF Delete, TombGoto, TombAt
  <2>2. i \in TombIds /\ tombMod \in TombMods
    BY <1>0 DEF TombTypeOK
  <2>3. TombTypeOK'
    BY <1>0, <2>1, <2>2 DEF TombTypeOK, NoDelete
  <2> QED BY <1>0, <2>1, <2>2, <2>3, TombMoves
          DEF TombTypeOK, TombstonesMatchRows, RequestsSound, NoDelete
<1>3. ASSUME NEW t \in TombThreads, List(t) \/ ReadMod(t)
      PROVE  TombInv'
  <2>1. UNCHANGED <<tombMod, tombRoot, tombMem, tombPending, tombFile, tombRows, tombUsed, tombKept>>
    BY <1>3 DEF List, ReadMod
  <2>2. CASE List(t)
    <3>1. TombTypeOK'
      BY <1>0, <2>1, <2>2 DEF TombTypeOK, List, TombGoto
    <3> QED BY <1>0, <2>1, <2>2, <3>1, TombMoves
            DEF TombTypeOK, TombstonesMatchRows, RequestsSound, List, TombGoto, TombAt
  <2>3. CASE ReadMod(t)
    <3>1. TombTypeOK'
      BY <1>0, <2>1, <2>3 DEF TombTypeOK, ReadMod, TombGoto
    <3>2. /\ tombOp'[t].root = tombMod /\ tombOp'[t].id = tombOp[t].id
          /\ tombOp'[t].path = tombOp[t].path
      BY <1>0, <2>3 DEF TombTypeOK, ReadMod
    <3> QED BY <1>0, <2>1, <2>3, <3>1, <3>2, TombMoves
            DEF TombTypeOK, TombstonesMatchRows, RequestsSound, ReadMod, TombGoto, TombAt
  <2> QED BY <1>3, <2>2, <2>3
<1>4. ASSUME NEW t \in TombThreads, SetManagerRoot(t)
      PROVE  TombInv'
  <2>1. /\ tombRoot' = tombOp[t].root /\ tombUsed' = tombUsed \cup {tombRoot'}
        /\ tombPc' = [tombPc EXCEPT ![t] = IF tombOp[t].id = TombNone THEN "load" ELSE "bury"]
        /\ tombPc[t] = "root"
        /\ UNCHANGED <<tombMod, tombMem, tombPending, tombFile, tombRows, tombKept, tombOp>>
    BY <1>4 DEF SetManagerRoot, TombGoto, TombAt
  <2>2. tombOp[t].root \in TombMods /\ (tombOp[t].id # TombNone => tombOp[t].id \in TombIds)
    BY <1>0, <2>1 DEF RequestsSound, TombTypeOK
  <2>3. TombTypeOK'
    BY <1>0, <2>1, <2>2 DEF TombTypeOK
  <2>4. tombUsed' \subseteq TombMods /\ tombPc'[t] \in {"load", "bury"}
        /\ (tombPc'[t] = "bury" => tombOp[t].id # TombNone)
    BY <1>0, <2>1, <2>2 DEF TombTypeOK, RequestsSound
  <2> QED BY <1>0, <2>1, <2>2, <2>3, <2>4, TombMoves
          DEF TombstonesMatchRows, RequestsSound
<1>5. ASSUME NEW t \in TombThreads, Bury(t)
      PROVE  TombInv'
  <2>1. /\ tombMem' = tombMem \cup {tombOp[t].id}
        /\ tombPc' = [tombPc EXCEPT ![t] = "remove"] /\ tombPc[t] = "bury"
        /\ tombPending' = TRUE \/ (tombOp[t].id \in tombMem /\ tombPending' = tombPending)
        /\ UNCHANGED <<tombMod, tombRoot, tombFile, tombRows, tombUsed, tombKept, tombOp>>
    BY <1>5 DEF Bury, TombGoto, TombAt
  <2>2. tombOp[t].path \in tombUsed /\ tombOp[t].id \in TombIds /\ tombRoot \in tombUsed
    BY <1>0, <2>1, TombConstants DEF RequestsSound
  <2>3. TombTypeOK' /\ tombPc'[t] = "remove"
    BY <1>0, <2>1, <2>2 DEF TombTypeOK
  <2>4. ASSUME NEW m \in TombMods, tombUsed \subseteq {m}
        PROVE  /\ ~tombPending' => tombMem' \subseteq tombFile[m]
               /\ \A i \in tombRows[m] \cap tombMem' :
                      i \in tombMem \cup tombFile[m] \/ Removing(t, m, i)'
    BY <1>0, <2>1, <2>2, <2>3, <2>4 DEF TombstonesMatchRows, Removing, TombAt
  <2> QED BY <1>0, <2>1, <2>2, <2>3, <2>4, TombMoves DEF RequestsSound
<1>6. ASSUME NEW t \in TombThreads, RemoveRow(t)
      PROVE  TombInv'
  <2>0. /\ tombOp[t].path \in TombMods /\ tombOp[t].id \in tombMem /\ tombRoot \in tombUsed
        /\ tombOp[t].id \in TombIds /\ tombPc[t] = "remove" /\ tombOp[t].path \in tombUsed
        /\ UNCHANGED <<tombMod, tombRoot, tombMem, tombPending, tombFile, tombUsed>>
    BY <1>0, <1>6, TombConstants DEF RemoveRow, TombAt, RequestsSound
  <2>1. PICK l \in {"persist", "idle"}, o \in {tombOp[t], NoDelete} :
          /\ tombPc' = [tombPc EXCEPT ![t] = l] /\ tombOp' = [tombOp EXCEPT ![t] = o]
          /\ l = "persist" => o = tombOp[t]
    <3>1. CASE TombGoto(t, "persist") /\ UNCHANGED tombOp
      <4>1. tombOp' = [tombOp EXCEPT ![t] = tombOp[t]]
        BY <1>0, <3>1 DEF TombTypeOK
      <4> QED BY <3>1, <4>1 DEF TombGoto
    <3>2. CASE TombDone(t)
      BY <3>2 DEF TombDone, TombGoto
    <3> QED BY <1>6, <3>1, <3>2 DEF RemoveRow
  <2>2. /\ \A m \in TombMods : tombRows'[m] \subseteq tombRows[m]
        /\ tombRows' \in [TombMods -> SUBSET TombIds] /\ tombKept \subseteq tombKept'
        /\ \A m \in TombMods : tombRows[m] \subseteq tombRows'[m] \cup tombMem
        /\ \/ tombOp[t].id \notin tombRows'[tombOp[t].path]
           \/ <<tombOp[t].path, tombOp[t].id>> \in tombKept'
    BY <1>0, <1>6, <2>0 DEF RemoveRow, TombTypeOK
  <2>3. TombTypeOK'
    BY <1>0, <2>0, <2>1, <2>2 DEF TombTypeOK, NoDelete
  <2>4. RequestsSound'
    BY <1>0, <2>0, <2>1 DEF TombTypeOK, RequestsSound, NoDelete
  <2>5. RemovedIsBuried'
    BY <1>0, <2>0, <2>2 DEF RemovedIsBuried
  <2>6. TombstonesMatchRows'
    <3> SUFFICES ASSUME NEW m \in TombMods, tombUsed \subseteq {m}, NEW i \in tombRows'[m],
                        i \in tombMem \cup tombFile[m]
                 PROVE  <<m, i>> \in tombKept' \/ \E u \in TombThreads : Removing(u, m, i)'
      BY <1>0, <2>0 DEF TombstonesMatchRows, Removing, TombAt
    <3>1. <<m, i>> \in tombKept \/ \E u \in TombThreads : Removing(u, m, i)
      BY <1>0, <2>2 DEF TombstonesMatchRows
    <3>2. CASE <<m, i>> \in tombKept \/ Removing(t, m, i)
      BY <2>2, <3>2 DEF Removing
    <3>3. ASSUME NEW u \in TombThreads \ {t}, Removing(u, m, i)
          PROVE  Removing(u, m, i)'
      BY <1>0, <2>1, <3>3 DEF Removing, TombAt, TombTypeOK
    <3> QED BY <3>1, <3>2, <3>3
  <2> QED BY <2>3, <2>4, <2>5, <2>6 DEF TombInv
\* The whole map goes to the file of the root set last.
<1>7. ASSUME NEW t \in TombThreads, Persist(t)
      PROVE  TombInv'
  <2>0. /\ tombRoot \in tombUsed /\ tombUsed \subseteq TombMods /\ TombDone(t)
        /\ tombPc[t] = "persist"
        /\ UNCHANGED <<tombMod, tombRoot, tombMem, tombRows, tombUsed, tombKept>>
    BY <1>0, <1>7 DEF Persist, TombAt, RequestsSound
  <2>1. /\ tombPc' = [tombPc EXCEPT ![t] = "idle"] /\ tombOp' = [tombOp EXCEPT ![t] = NoDelete]
    BY <2>0 DEF TombDone, TombGoto
  <2>2. CASE UNCHANGED <<tombPending, tombFile>>
    <3>1. TombTypeOK'
      BY <1>0, <2>0, <2>1, <2>2 DEF TombTypeOK, NoDelete
    <3>2. tombPc'[t] = "idle" /\ tombOp'[t] = NoDelete
      BY <1>0, <2>1 DEF TombTypeOK
    <3> QED BY <1>0, <2>0, <2>1, <2>2, <3>1, <3>2, TombMoves
            DEF TombstonesMatchRows, NoDelete, RequestsSound
  <2>3. CASE tombFile' = [tombFile EXCEPT ![tombRoot] = tombMem]
    <3>0. tombPending' \in BOOLEAN
      BY <1>0, <1>7 DEF TombTypeOK, Persist, PersistFails
    <3>1. TombTypeOK'
      BY <1>0, <2>0, <2>1, <2>3, <3>0 DEF TombTypeOK, NoDelete
    <3>2. RequestsSound'
      BY <1>0, <2>0, <2>1 DEF RequestsSound, TombTypeOK, NoDelete
    <3>3. RemovedIsBuried'
      BY <1>0, <2>0 DEF RemovedIsBuried
    <3>4. TombstonesMatchRows'
      <4> SUFFICES ASSUME NEW m \in TombMods, tombUsed \subseteq {m}
                   PROVE  /\ tombMem \subseteq tombFile'[m]
                          /\ \A i \in tombRows[m] \cap (tombMem \cup tombFile'[m]) :
                               <<m, i>> \in tombKept
                               \/ \E u \in TombThreads : Removing(u, m, i)'
        BY <2>0 DEF TombstonesMatchRows, Removing, TombAt
      <4>1. tombFile'[m] = tombMem
        BY <1>0, <2>0, <2>3 DEF TombTypeOK
      <4>2. ASSUME NEW u \in TombThreads, NEW i, Removing(u, m, i) PROVE Removing(u, m, i)'
        BY <1>0, <2>0, <2>1, <4>2 DEF Removing, TombAt, TombTypeOK
      <4> QED BY <1>0, <4>1, <4>2 DEF TombstonesMatchRows
    <3> QED BY <3>1, <3>2, <3>3, <3>4 DEF TombInv
  <2> QED BY <1>7, <2>2, <2>3 DEF Persist, PersistFails
<1>8. ASSUME NEW t \in TombThreads, LoadAll(t)
      PROVE  TombInv'
  <2>0. /\ tombRoot \in tombUsed /\ tombUsed \subseteq TombMods /\ TombDone(t)
        /\ tombPc[t] = "load" /\ tombMem' = Merged
        /\ UNCHANGED <<tombMod, tombRoot, tombPending, tombFile, tombRows, tombUsed, tombKept>>
    BY <1>0, <1>8 DEF LoadAll, TombAt, RequestsSound
  <2>1. /\ tombMem \subseteq tombMem' /\ tombMem' \subseteq TombIds
        /\ tombMem' \subseteq tombMem \cup tombFile[tombRoot]
        /\ tombPending => tombMem' = tombMem
    BY <1>0, <2>0 DEF Merged, TombTypeOK
  <2>2. TombTypeOK' /\ tombPc'[t] = "idle" /\ tombOp'[t] = NoDelete
        /\ \A u \in TombThreads \ {t} : tombPc'[u] = tombPc[u] /\ tombOp'[u] = tombOp[u]
    BY <1>0, <2>0, <2>1 DEF TombTypeOK, TombDone, TombGoto, NoDelete
  <2>3. ASSUME NEW m \in TombMods, tombUsed \subseteq {m}
        PROVE  /\ ~tombPending' => tombMem' \subseteq tombFile[m]
               /\ \A i \in tombRows[m] \cap tombMem' : i \in tombMem \cup tombFile[m]
    BY <1>0, <2>0, <2>1, <2>3 DEF TombstonesMatchRows
  <2> QED BY <1>0, <2>0, <2>1, <2>2, <2>3, TombMoves DEF NoDelete
<1>9. CASE TombSelect
  BY <1>1, <1>9 DEF TombSelect
<1>10. CASE UNCHANGED tombVars
  BY <1>0, <1>1, <1>10 DEF tombVars, TombTypeOK
<1> QED BY <1>2, <1>3, <1>4, <1>5, <1>6, <1>7, <1>8, <1>9, <1>10 DEF TombNext

\* While a session works on one mod, what it takes for deleted is in that mod's file
\* or still to be saved, and no row left in the table has a tombstone unless its
\* delete is under way or its removal failed: for any requests in flight and any
\* failures (DELETE of a record, register_tombstone, persist, load_all).
THEOREM TombstonesAreSaved == TombSpec => []TombstonesMatchRows
<1>1. TombInv => TombstonesMatchRows
  BY DEF TombInv
<1> QED BY <1>1, TombInvInit, TombInvNext, PTL DEF TombSpec

\* A row that was removed has its tombstone as long as the process lives (DELETE of
\* a record buries the id before it takes the row out).
THEOREM RemovedRowsAreBuried == TombSpec => []RemovedIsBuried
<1>1. TombInv => RemovedIsBuried
  BY DEF TombInv
<1> QED BY <1>1, TombInvInit, TombInvNext, PTL DEF TombSpec

-----------------------------------------------------------------------------
(* The list of mods                                                        *)

Requests == [kind : {"none", "list", "select", "delete", "create", "root"},
             name : ListedMods \cup {NoMod}, since : 0..ListMaxTime,
             left : SUBSET ListedMods, found : SUBSET ListedMods]

ModsTypeOK ==
    /\ modsOnDisk \subseteq ListedMods
    /\ modsPast \in [0..ListMaxTime -> SUBSET SUBSET ListedMods]
    /\ modsNow \in 0..ListMaxTime
    /\ modsCache \in [valid : BOOLEAN, ts : 0..ListMaxTime, mods : SUBSET ListedMods]
    /\ modsPc \in [ListThreads -> {"idle", "list", "scan", "test", "create", "root",
                                   "invalidate", "remove", "deselect"}]
    /\ modsOp \in [ListThreads -> Requests]
    /\ \A t \in ListThreads : modsOp[t].kind \in {"select", "delete", "create", "root"} =>
                             modsOp[t].name \in ListedMods
    /\ \A t \in ListThreads : modsPc[t] \in {"create", "root", "remove"} =>
                             modsOp[t].name \in ListedMods

\* At time since or later mod n was on disk, or was not, as b says.
Witnessed(since, n, b) ==
    \E i \in since..modsNow, s \in SUBSET ListedMods : s \in modsPast[i] /\ (n \in s <=> b)

\* Every mod but those of left is in f, or not in f, as it was at time since or later.
SeenSince(since, f, left) == \A n \in ListedMods \ left : Witnessed(since, n, n \in f)

\* What a request at step l with local variables o has read so far.
Listing(l, o) ==
    /\ l \in {"list", "scan"} => o.found = {}
    /\ l \in {"scan", "test"} => o.since <= modsNow
    /\ l = "test" => SeenSince(o.since, o.found, o.left) /\ o.found \cap o.left = {}

\* A list in a request's hands or in the cache tells what was true of each mod after
\* the moment that dates it.
ListsDated ==
    /\ modsOnDisk \in modsPast[modsNow]
    /\ \A t \in ListThreads : Listing(modsPc[t], modsOp[t])
    /\ modsCache.valid => SeenSince(modsCache.ts, modsCache.mods, {})

ModsInv == ModsTypeOK /\ ListsDated

\* The inductive invariant of the list of mods holds at the start.
LEMMA ModsInvInit == ModsInit => ModsInv
<1> SUFFICES ASSUME ModsInit PROVE ModsInv
  OBVIOUS
<1>1. 0 \in 0..ListMaxTime
  BY ListConstants
<1>2. ModsTypeOK
  BY <1>1 DEF ModsInit, ModsTypeOK, NoListing, Requests
<1>3. ListsDated
  BY <1>1 DEF ModsInit, ListsDated, Listing
<1> QED BY <1>2, <1>3 DEF ModsInv


\* Time goes on, and the disk changes: what was seen has been seen.
LEMMA SeenStays ==
    ASSUME ModsTypeOK, NEW since \in 0..ListMaxTime, NEW f, NEW left, SeenSince(since, f, left),
           \/ UNCHANGED <<modsPast, modsNow>>
           \/ \E d : modsPast' = [modsPast EXCEPT ![modsNow] = @ \cup {d}] /\ UNCHANGED modsNow
           \/ /\ modsNow' = modsNow + 1
              /\ \E d : modsPast' = [modsPast EXCEPT ![modsNow + 1] = d]
    PROVE  SeenSince(since, f, left)'
<1> SUFFICES ASSUME NEW n \in ListedMods \ left PROVE Witnessed(since, n, n \in f)'
  BY DEF SeenSince
<1>1. PICK i \in since..modsNow, s \in SUBSET ListedMods : s \in modsPast[i] /\ (n \in s <=> n \in f)
  BY DEF SeenSince, Witnessed
<1>2. i \in 0..ListMaxTime /\ i <= modsNow /\ modsNow \in Nat
  <2>1. ListMaxTime \in Nat /\ modsNow \in 0..ListMaxTime
    BY ListConstants DEF ModsTypeOK
  <2> QED BY <1>1, <2>1
<1>3. s \in modsPast'[i]
  <2>1. CASE UNCHANGED <<modsPast, modsNow>>
    BY <1>1, <2>1
  <2>2. ASSUME NEW d, modsPast' = [modsPast EXCEPT ![modsNow] = @ \cup {d}]
        PROVE  s \in modsPast'[i]
    BY <1>1, <1>2, <2>2 DEF ModsTypeOK
  <2>3. ASSUME NEW d, modsPast' = [modsPast EXCEPT ![modsNow + 1] = d]
        PROVE  s \in modsPast'[i]
    <3>1. i # modsNow + 1
      BY <1>2
    <3> QED BY <1>1, <1>2, <2>3, <3>1 DEF ModsTypeOK
  <2> QED BY <2>1, <2>2, <2>3
<1>4. i \in since..modsNow'
  BY <1>1, <1>2
<1> QED BY <1>1, <1>3, <1>4 DEF Witnessed

\* What the disk is now was true of every mod at a time that is not in the future.
LEMMA DiskWitnesses ==
    ASSUME ModsTypeOK, modsOnDisk \in modsPast[modsNow], NEW since \in 0..ListMaxTime,
           since <= modsNow, NEW n
    PROVE  Witnessed(since, n, n \in modsOnDisk)
<1>1. modsNow \in since..modsNow /\ modsOnDisk \in SUBSET ListedMods
  BY ListConstants DEF ModsTypeOK
<1> QED BY <1>1 DEF Witnessed

\* A step of one request that leaves the disk alone.
LEMMA ListMoves ==
    ASSUME ModsInv, NEW t \in ListThreads, ModsTypeOK', UNCHANGED modsDisk,
           \A u \in ListThreads \ {t} : modsPc'[u] = modsPc[u] /\ modsOp'[u] = modsOp[u],
           Listing(modsPc'[t], modsOp'[t]),
           modsCache'.valid => SeenSince(modsCache'.ts, modsCache'.mods, {})
    PROVE  ModsInv'
<1>1. ListsDated'
  BY DEF ModsInv, ListsDated, Listing, SeenSince, Witnessed, modsDisk
<1> QED BY <1>1 DEF ModsInv

\* What Use does to the request of t, which lists nothing any more.
LEMMA UseMoves ==
    ASSUME ModsTypeOK, NEW t \in ListThreads, NEW listed, Use(t, listed)
    PROVE  /\ modsPc' \in [ListThreads -> {"idle", "list", "scan", "test", "create", "root",
                                          "invalidate", "remove", "deselect"}]
           /\ modsOp' \in [ListThreads -> Requests]
           /\ modsPc'[t] \in {"idle", "root", "remove"}
           /\ modsPc'[t] # "idle" => modsOp[t].kind \in {"select", "delete"} /\ UNCHANGED modsOp
           /\ modsOp'[t] \in {modsOp[t], NoListing}
           /\ \A u \in ListThreads \ {t} : modsPc'[u] = modsPc[u] /\ modsOp'[u] = modsOp[u]
<1>1. NoListing \in Requests
  BY ListConstants DEF NoListing, Requests
<1> QED BY <1>1 DEF ModsTypeOK, Use, ModsGoto, ModsDone

\* Every step keeps it: one case per action.
LEMMA ModsInvNext == ModsInv /\ [ModsNext]_modsVars => ModsInv'
<1> SUFFICES ASSUME ModsInv, [ModsNext]_modsVars PROVE ModsInv'
  OBVIOUS
<1>0. /\ ModsTypeOK /\ ListsDated
      /\ NoListing \in Requests /\ NoListing.kind = "none"
      /\ modsNow \in 0..ListMaxTime
  BY ListConstants DEF ModsInv, NoListing, Requests, ModsTypeOK
<1>1. CASE UNCHANGED modsVars
  BY <1>0, <1>1 DEF modsVars, ModsInv, ModsTypeOK, ListsDated, Listing, SeenSince,
                    Witnessed
<1>2. CASE TickSecond
  <2>1. /\ modsNow < ListMaxTime /\ modsNow' = modsNow + 1
        /\ modsPast' = [modsPast EXCEPT ![modsNow + 1] = {modsOnDisk}]
        /\ UNCHANGED <<modsOnDisk, modsCache, modsPc, modsOp>>
    BY <1>2 DEF TickSecond
  <2>2. modsNow' \in 0..ListMaxTime /\ modsOnDisk \in SUBSET ListedMods
    BY <1>0, <2>1, ListConstants DEF ModsTypeOK
  <2>3. ModsTypeOK'
    BY <1>0, <2>1, <2>2 DEF ModsTypeOK
  <2>4. modsOnDisk' \in modsPast'[modsNow']
    BY <1>0, <2>1, <2>2 DEF ModsTypeOK
  <2>5. ASSUME NEW since \in 0..ListMaxTime, NEW f, NEW left, SeenSince(since, f, left)
        PROVE  SeenSince(since, f, left)'
    BY <1>0, <2>1, <2>5, SeenStays
  <2>6. \A t \in ListThreads : modsOp[t].since \in 0..ListMaxTime
    BY <1>0 DEF ModsTypeOK, Requests
  <2>7. modsCache.ts \in 0..ListMaxTime
    BY <1>0 DEF ModsTypeOK
  <2>8. ListsDated'
    <3>1. ASSUME NEW t \in ListThreads PROVE Listing(modsPc[t], modsOp[t])'
      <4>1. Listing(modsPc[t], modsOp[t])
        BY <1>0 DEF ListsDated
      <4>2. modsPc'[t] = "test" => SeenSince(modsOp[t].since, modsOp[t].found, modsOp[t].left)'
        BY <2>1, <2>5, <2>6, <4>1 DEF Listing
      <4>3. modsOp[t].since <= modsNow => modsOp[t].since <= modsNow'
        BY <1>0, <2>1, <2>6, ListConstants
      <4> QED BY <2>1, <4>1, <4>2, <4>3 DEF Listing
    <3>2. modsCache'.valid => SeenSince(modsCache.ts, modsCache.mods, {})'
      BY <1>0, <2>1, <2>5, <2>7 DEF ListsDated
    <3> QED BY <2>4, <3>1, <3>2 DEF ListsDated
  <2> QED BY <2>3, <2>8 DEF ModsInv
\* The disk changes, and a request goes where it lists nothing.
<1>3. ASSUME NEW t \in ListThreads, NEW s \in SUBSET ListedMods, DiskBecomes(s), ModsTypeOK',
             UNCHANGED modsCache, modsPc'[t] \notin {"list", "scan", "test"},
             \A u \in ListThreads \ {t} : modsPc'[u] = modsPc[u] /\ modsOp'[u] = modsOp[u]
      PROVE  ModsInv'
  <2>1. /\ modsOnDisk' = s /\ UNCHANGED modsNow
        /\ modsPast' = [modsPast EXCEPT ![modsNow] = @ \cup {s}]
    BY <1>3 DEF DiskBecomes
  <2>2. modsOnDisk' \in modsPast'[modsNow']
    BY <1>0, <2>1 DEF ModsTypeOK
  <2>3. ASSUME NEW since \in 0..ListMaxTime, NEW f, NEW left, SeenSince(since, f, left)
        PROVE  SeenSince(since, f, left)'
    BY <1>0, <2>1, <2>3, SeenStays
  <2>4. /\ \A u \in ListThreads : modsOp[u].since \in 0..ListMaxTime
        /\ modsCache.ts \in 0..ListMaxTime
    BY <1>0 DEF ModsTypeOK, Requests
  <2>5. ASSUME NEW u \in ListThreads \ {t} PROVE Listing(modsPc[u], modsOp[u])'
    <3>1. Listing(modsPc[u], modsOp[u]) /\ modsPc'[u] = modsPc[u] /\ modsOp'[u] = modsOp[u]
      BY <1>0, <1>3 DEF ListsDated
    <3>2. modsPc[u] = "test" => SeenSince(modsOp[u].since, modsOp[u].found, modsOp[u].left)'
      BY <2>3, <2>4, <3>1 DEF Listing
    <3> QED BY <2>1, <3>1, <3>2 DEF Listing, SeenSince, Witnessed
  <2>6. modsCache'.valid => SeenSince(modsCache.ts, modsCache.mods, {})'
    BY <1>0, <1>3, <2>3, <2>4 DEF ListsDated
  <2>7. Listing(modsPc[t], modsOp[t])'
    BY <1>3 DEF Listing
  <2>8. ListsDated'
    BY <1>3, <2>2, <2>5, <2>6, <2>7 DEF ListsDated, SeenSince, Witnessed
  <2> QED BY <1>3, <2>8 DEF ModsInv
<1>4. ASSUME NEW t \in ListThreads, AskForMods(t)
      PROVE  ModsInv'
  <2>1. PICK k \in {"list", "select", "delete", "create", "root"}, n \in ListedMods :
          /\ modsOp' = [modsOp EXCEPT ![t] = [NoListing EXCEPT !.kind = k,
                           !.name = IF k = "list" THEN NoMod ELSE n]]
          /\ modsPc' = [modsPc EXCEPT ![t] = IF k \in {"create", "root"} THEN k ELSE "list"]
    BY <1>4 DEF AskForMods, ModsGoto
  <2>2. UNCHANGED <<modsOnDisk, modsPast, modsNow, modsCache>>
    BY <1>4 DEF AskForMods, modsDisk
  <2>3. PICK r \in Requests :
          /\ r = [NoListing EXCEPT !.kind = k, !.name = IF k = "list" THEN NoMod ELSE n]
          /\ r.kind = k /\ (k # "list" => r.name = n) /\ r.found = {}
    <3>2. PICK nm \in ListedMods \cup {NoMod} :
            nm = (IF k = "list" THEN NoMod ELSE n)
      OBVIOUS
    <3>3. [NoListing EXCEPT !.kind = k, !.name = nm] \in Requests
      <4>1. /\ NoListing \in [kind : {"none", "list", "select", "delete", "create", "root"},
                              name : ListedMods \cup {NoMod},
                              since : 0..ListMaxTime, left : SUBSET ListedMods,
                              found : SUBSET ListedMods]
            /\ k \in {"none", "list", "select", "delete", "create", "root"}
        BY <1>0 DEF Requests
      <4> QED BY <4>1 DEF Requests
    <3>4. PICK r \in Requests : r = [NoListing EXCEPT !.kind = k, !.name = nm]
      BY <3>3
    <3>5. r.kind = k /\ r.name = nm /\ r.found = NoListing.found
      BY <1>0, <3>4 DEF Requests
    <3>6. NoListing.found = {}
      BY DEF NoListing
    <3> QED BY <3>2, <3>4, <3>5, <3>6
  <2>4. ModsTypeOK'
    BY <1>0, <2>1, <2>2, <2>3 DEF ModsTypeOK
  <2>5. Listing(modsPc'[t], modsOp'[t])
    BY <1>0, <2>1, <2>3 DEF ModsTypeOK, Listing
  <2> QED BY <1>0, <2>1, <2>2, <2>4, <2>5, ListMoves DEF ModsTypeOK, ListsDated, modsDisk
<1>5. ASSUME NEW t \in ListThreads, ListMods(t)
      PROVE  ModsInv'
  <2>0. UNCHANGED <<modsOnDisk, modsPast, modsNow, modsCache>>
    BY <1>5 DEF ListMods, modsDisk
  <2>1. CASE Use(t, modsCache.mods)
    <3>1. ModsTypeOK'
      BY <1>0, <2>0, <2>1, UseMoves DEF ModsTypeOK
    <3>2. Listing(modsPc'[t], modsOp'[t])
      BY <1>0, <2>1, UseMoves DEF Listing
    <3> QED BY <1>0, <2>0, <2>1, <3>1, <3>2, UseMoves, ListMoves DEF ListsDated, modsDisk
  <2>2. CASE modsOp' = [modsOp EXCEPT ![t].since = modsNow] /\ ModsGoto(t, "scan")
    <3>1. /\ modsOp'[t].since = modsNow /\ modsPc'[t] = "scan"
          /\ modsOp'[t].kind = modsOp[t].kind /\ modsOp'[t].name = modsOp[t].name
          /\ modsOp'[t].found = modsOp[t].found
          /\ \A u \in ListThreads \ {t} : modsPc'[u] = modsPc[u] /\ modsOp'[u] = modsOp[u]
      BY <1>0, <2>2 DEF ModsTypeOK, Requests, ModsGoto
    <3>2. modsOp' \in [ListThreads -> Requests]
      <4>1. PICK r \in Requests : r = [modsOp[t] EXCEPT !.since = modsNow]
        <5>1. modsOp[t] \in Requests
          BY <1>0 DEF ModsTypeOK
        <5>2. [modsOp[t] EXCEPT !.since = modsNow] \in Requests
          BY <1>0, <5>1 DEF Requests
        <5> QED BY <5>2
      <4>2. modsOp' = [modsOp EXCEPT ![t] = r]
        BY <2>2, <4>1
      <4> QED BY <1>0, <4>2 DEF ModsTypeOK
    <3>3. ModsTypeOK'
      BY <1>0, <2>0, <2>2, <3>1, <3>2 DEF ModsTypeOK, ModsGoto
    <3>4. Listing("list", modsOp[t]) /\ modsNow <= modsNow
      BY <1>0, <1>5, ListConstants DEF ListMods, ModsAt, ListsDated
    <3>5. Listing(modsPc'[t], modsOp'[t])
      BY <3>1, <3>4 DEF Listing
    <3> QED BY <1>0, <2>0, <3>1, <3>3, <3>5, ListMoves DEF ListsDated, modsDisk
  <2> QED BY <1>5, <2>1, <2>2 DEF ListMods
<1>6. ASSUME NEW t \in ListThreads, NEW o \in Requests,
             UNCHANGED <<modsOnDisk, modsPast, modsNow, modsCache>>,
             modsOp' = [modsOp EXCEPT ![t] = o], modsPc' = [modsPc EXCEPT ![t] = "test"],
             o.kind = modsOp[t].kind, o.name = modsOp[t].name, Listing("test", o)
      PROVE  ModsInv'
  <2>1. /\ modsOp'[t] = o /\ modsPc'[t] = "test"
        /\ \A u \in ListThreads \ {t} : modsPc'[u] = modsPc[u] /\ modsOp'[u] = modsOp[u]
    BY <1>0, <1>6 DEF ModsTypeOK
  <2>2. ModsTypeOK'
    BY <1>0, <1>6, <2>1 DEF ModsTypeOK
  <2> QED BY <1>0, <1>6, <2>1, <2>2, ListMoves DEF ListsDated, modsDisk
<1>7. ASSUME NEW t \in ListThreads, ScanMods(t)
      PROVE  ModsInv'
  <2>0. /\ modsPc[t] = "scan" /\ UNCHANGED <<modsOnDisk, modsPast, modsNow, modsCache>>
        /\ modsOp' = [modsOp EXCEPT ![t].left = modsOnDisk]
        /\ modsPc' = [modsPc EXCEPT ![t] = "test"]
        /\ modsOp[t] \in Requests /\ modsOnDisk \in SUBSET ListedMods
    BY <1>0, <1>7 DEF ScanMods, ModsAt, ModsGoto, modsDisk, ModsTypeOK
  <2>1. PICK o \in Requests : o = [modsOp[t] EXCEPT !.left = modsOnDisk]
    <3>1. [modsOp[t] EXCEPT !.left = modsOnDisk] \in Requests
      BY <2>0 DEF Requests
    <3> QED BY <3>1
  <2>2. /\ o.since = modsOp[t].since /\ o.found = modsOp[t].found /\ o.left = modsOnDisk
        /\ o.kind = modsOp[t].kind /\ o.name = modsOp[t].name /\ o.since \in 0..ListMaxTime
    BY <2>0, <2>1 DEF Requests
  <2>3. modsOp[t].since <= modsNow /\ modsOp[t].found = {}
    BY <1>0, <2>0 DEF ListsDated, Listing
  <2>4. SeenSince(o.since, {}, modsOnDisk)
    <3> SUFFICES ASSUME NEW n \in ListedMods \ modsOnDisk PROVE Witnessed(o.since, n, n \in {})
      BY DEF SeenSince
    <3>1. Witnessed(o.since, n, n \in modsOnDisk)
      BY <1>0, <2>2, <2>3, DiskWitnesses DEF ListsDated
    <3> QED BY <3>1 DEF Witnessed
  <2>5. Listing("test", o)
    BY <2>2, <2>3, <2>4 DEF Listing
  <2>6. modsOp' = [modsOp EXCEPT ![t] = o]
    BY <2>0, <2>1
  <2> QED BY <1>6, <2>0, <2>2, <2>5, <2>6
\* What is tested now is as the disk is now.
<1>8. ASSUME NEW t \in ListThreads, TestEntry(t)
      PROVE  ModsInv'
  <2>0. PICK n \in modsOp[t].left :
          /\ modsPc[t] = "test"
          /\ modsOp' = [modsOp EXCEPT ![t].left = @ \ {n},
                                      ![t].found = @ \cup ({n} \cap modsOnDisk)]
          /\ UNCHANGED <<modsOnDisk, modsPast, modsNow, modsCache, modsPc>>
          /\ modsOp[t] \in Requests
    BY <1>0, <1>8 DEF TestEntry, ModsAt, modsDisk, ModsTypeOK
  <2>1. PICK o \in Requests : o = [modsOp[t] EXCEPT !.left = @ \ {n},
                                                    !.found = @ \cup ({n} \cap modsOnDisk)]
    <3>1. [modsOp[t] EXCEPT !.left = @ \ {n}, !.found = @ \cup ({n} \cap modsOnDisk)] \in Requests
      BY <2>0 DEF Requests
    <3> QED BY <3>1
  <2>2. /\ o.since = modsOp[t].since /\ o.since \in 0..ListMaxTime
        /\ o.found = modsOp[t].found \cup ({n} \cap modsOnDisk) /\ o.left = modsOp[t].left \ {n}
        /\ o.kind = modsOp[t].kind /\ o.name = modsOp[t].name
        /\ n \in ListedMods
    BY <2>0, <2>1 DEF Requests
  <2>3. /\ SeenSince(o.since, modsOp[t].found, modsOp[t].left) /\ o.since <= modsNow
        /\ modsOp[t].found \cap modsOp[t].left = {}
    BY <1>0, <2>0, <2>2 DEF ListsDated, Listing
  <2>4. SeenSince(o.since, o.found, o.left)
    <3> SUFFICES ASSUME NEW k \in ListedMods \ o.left PROVE Witnessed(o.since, k, k \in o.found)
      BY DEF SeenSince
    <3>1. CASE k = n
      <4>1. Witnessed(o.since, n, n \in modsOnDisk)
        BY <1>0, <2>2, <2>3, DiskWitnesses DEF ListsDated
      <4>2. n \in o.found <=> n \in modsOnDisk
        BY <2>0, <2>2, <2>3
      <4> QED BY <3>1, <4>1, <4>2 DEF Witnessed
    <3>2. CASE k # n
      <4>1. k \in o.found <=> k \in modsOp[t].found
        BY <2>2, <3>2
      <4>2. Witnessed(o.since, k, k \in modsOp[t].found)
        BY <2>2, <2>3, <3>2 DEF SeenSince
      <4> QED BY <4>1, <4>2 DEF Witnessed
    <3> QED BY <3>1, <3>2
  <2>5. Listing("test", o)
    BY <2>2, <2>3, <2>4 DEF Listing
  <2>6. modsOp' = [modsOp EXCEPT ![t] = o]
    BY <1>0, <2>0, <2>1 DEF ModsTypeOK, Requests
  <2>7. modsPc' = [modsPc EXCEPT ![t] = "test"]
    BY <1>0, <2>0 DEF ModsTypeOK
  <2> QED BY <1>6, <2>0, <2>2, <2>5, <2>6, <2>7
<1>9. ASSUME NEW t \in ListThreads, InstallMods(t)
       PROVE  ModsInv'
  <2>0. /\ modsPc[t] = "test" /\ modsOp[t].left = {}
        /\ UNCHANGED <<modsOnDisk, modsPast, modsNow>>
        /\ modsCache' = [valid |-> TRUE, ts |-> modsOp[t].since, mods |-> modsOp[t].found]
        /\ Use(t, modsOp[t].found)
    BY <1>9 DEF InstallMods, ModsAt, ScanDate, modsDisk
  <2>1. modsCache' \in [valid : BOOLEAN, ts : 0..ListMaxTime, mods : SUBSET ListedMods]
    BY <1>0, <2>0 DEF ModsTypeOK, Requests
  <2>2. ModsTypeOK'
    BY <1>0, <2>0, <2>1, UseMoves DEF ModsTypeOK
  <2>3. SeenSince(modsCache'.ts, modsCache'.mods, {})
    BY <1>0, <2>0 DEF ListsDated, Listing
  <2>4. Listing(modsPc'[t], modsOp'[t])
    BY <1>0, <2>0, UseMoves DEF Listing
  <2> QED BY <1>0, <2>0, <2>2, <2>3, <2>4, UseMoves, ListMoves DEF modsDisk
<1>10. ASSUME NEW t \in ListThreads, CreateMod(t)
       PROVE  ModsInv'
  <2>0. PICK s \in SUBSET ListedMods : s = modsOnDisk \cup {modsOp[t].name}
    BY <1>0, <1>10 DEF CreateMod, ModsAt, ModsTypeOK
  <2>1. /\ DiskBecomes(s) /\ UNCHANGED <<modsCache, modsOp>> /\ modsPc[t] = "create"
        /\ modsPc' = [modsPc EXCEPT ![t] = "root"]
    BY <1>10, <2>0 DEF CreateMod, ModsGoto, ModsAt
  <2>2. ModsTypeOK'
    BY <1>0, <2>1 DEF ModsTypeOK, DiskBecomes
  <2> QED BY <1>0, <1>3, <2>1, <2>2 DEF ModsTypeOK
<1>11. ASSUME NEW t \in ListThreads, SelectName(t) \/ InvalidateMods(t) \/ Deselect(t)
      PROVE  ModsInv'
  <2>1. /\ UNCHANGED modsDisk
        /\ modsCache' \in {modsCache, [valid |-> FALSE, ts |-> 0, mods |-> {}]}
        /\ \/ ModsDone(t)
           \/ ModsGoto(t, "invalidate") /\ UNCHANGED modsOp
    BY <1>11 DEF SelectName, InvalidateMods, Deselect
  <2>2. modsCache' \in [valid : BOOLEAN, ts : 0..ListMaxTime, mods : SUBSET ListedMods]
    <3>1. 0 \in 0..ListMaxTime
      BY ListConstants
    <3>2. [valid |-> FALSE, ts |-> 0, mods |-> {}]
            \in [valid : BOOLEAN, ts : 0..ListMaxTime, mods : SUBSET ListedMods]
      BY <3>1
    <3> QED BY <1>0, <2>1, <3>2 DEF ModsTypeOK
  <2>3. ModsTypeOK'
    BY <1>0, <2>1, <2>2 DEF ModsTypeOK, ModsDone, ModsGoto, modsDisk
  <2>4. modsPc'[t] \in {"idle", "invalidate"}
        /\ \A u \in ListThreads \ {t} : modsPc'[u] = modsPc[u] /\ modsOp'[u] = modsOp[u]
    BY <1>0, <2>1 DEF ModsTypeOK, ModsDone, ModsGoto
  <2>5. Listing(modsPc'[t], modsOp'[t])
    BY <2>4 DEF Listing
  <2> QED BY <1>0, <2>1, <2>3, <2>4, <2>5, ListMoves DEF ListsDated
<1>12. ASSUME NEW t \in ListThreads, RemoveMod(t)
       PROVE  ModsInv'
  <2>0. PICK s \in SUBSET ListedMods : s = modsOnDisk \ {modsOp[t].name}
    BY <1>0 DEF ModsTypeOK
  <2>1. /\ DiskBecomes(s) /\ UNCHANGED <<modsCache, modsOp>>
        /\ modsPc' = [modsPc EXCEPT ![t] = "deselect"]
    BY <1>12, <2>0 DEF RemoveMod, ModsGoto
  <2>2. ModsTypeOK'
    BY <1>0, <2>1 DEF ModsTypeOK, DiskBecomes
  <2> QED BY <1>0, <1>3, <2>1, <2>2 DEF ModsTypeOK
<1> QED BY <1>1, <1>2, <1>4, <1>5, <1>7, <1>8, <1>9, <1>10, <1>11, <1>12
       DEF ModsNext

\* What list_mods serves from its cache says of every mod what was true at some moment
\* since the scan that filled it began (state.cpp), for any mods that come and go
\* between the entries a scan tests and for any scans that overlap.
THEOREM ListStaysRecent == ModsSpec => []ListIsRecent
<1>1. ModsInv => ListIsRecent
  BY DEF ModsInv, ListsDated, SeenSince, Witnessed, CacheServes, ListIsRecent
<1> QED BY <1>1, ModsInvInit, ModsInvNext, PTL DEF ModsSpec


-----------------------------------------------------------------------------
(* Revisions and caches: shapes, steps and the gate                        *)

RevOps == [kind : {"none", "get", "all", "put", "undo", "poll"},
           path : RevMods \cup {RevNone}, root : RevMods \cup {RevNone},
           rev : Times \cup {RevNone}, stat : Times, seen : Times,
           got : Times \cup {RevNone}, checking : BOOLEAN]

RevPcs == {"idle", "stat", "read", "store", "allStat", "allRead", "allInstall",
           "pollRoot", "pollSet", "print", "hash", "publish", "root", "gate",
           "write", "seed", "refresh", "answer", "reverted"}

\* Request t, at step l with local variables o while g holds the gate, is where
\* its kind can be, and holds the gate exactly if it is a save past it.
Fits(t, l, o, g) ==
    /\ l = "idle" => o.kind = "none"
    /\ l # "idle" => o.path \in RevMods
    /\ l \in {"stat", "read", "store"} => o.kind \in {"get", "put"}
    /\ l \in {"allStat", "allRead", "allInstall"} => o.kind = "all"
    /\ l \in {"pollRoot", "pollSet"} => o.kind = "poll"
    /\ l \in {"print", "hash", "publish"} => o.kind \in {"poll", "put"}
    /\ l \in {"root", "gate", "seed", "refresh", "answer"} => o.kind = "put"
    /\ l = "write" => o.kind \in {"put", "undo"}
    /\ l = "reverted" => o.kind = "undo"
    /\ l \in {"store", "allInstall", "seed", "refresh"} => o.got \in Times
    /\ l = "hash" => o.root \in RevMods
    /\ l \in {"gate", "pollSet"} => o.root \in RevMods
    /\ o.rev # RevNone => o.kind = "put"
    /\ l \in {"root", "gate"} => o.rev # RevNone
    /\ o.checking => l \in {"print", "hash", "publish", "stat", "read", "store", "write"}
    /\ o.checking => o.rev # RevNone
    /\ o.rev # RevNone /\ l \in {"stat", "read", "store", "write"} => o.checking
    /\ g = t <=> o.rev # RevNone /\ l \notin {"root", "gate"}

RevData ==
    /\ revFile \in [RevMods -> [bytes : Times, mtime : Times, by : {"outside", "server"}]]
    /\ revClock \in 1..(RevMaxWrites + 1)
    /\ revMod \in RevMods
    /\ revTable \in [RevMods -> MaybeEntry]
    /\ revMeta \in [RevMods -> MaybeEntry]
    /\ revAll \in [valid : BOOLEAN, dir : RevMods \cup {RevNone}, entry : MaybeEntry]
    /\ revAll.valid => revAll.dir \in RevMods
    /\ revRoot \in RevMods \cup {RevNone}
    /\ revCached \in [valid : BOOLEAN, revision : Times \cup {RevNone}]
    /\ revClientRev \in [RevClients -> Times \cup {RevNone}]

RevRequests ==
    /\ revPc \in [RevThreads -> RevPcs]
    /\ revOp \in [RevThreads -> RevOps]
    /\ revGate \in RevThreads \cup {RevNone}
    /\ \A t \in RevThreads : Fits(t, revPc[t], revOp[t], revGate)

RevShape == RevData /\ RevRequests

\* The local variables of an idle request.
LEMMA NoOperationIsOne == NoOperation \in RevOps /\ NoOperation.kind = "none"
                          /\ NoOperation.rev = RevNone /\ ~NoOperation.checking
BY RevConstants DEF RevOps, NoOperation, Times

\* RevNone is no mod, no request and no revision.
LEMMA RevNoneIsNone == /\ RevNone \notin RevMods /\ RevNone \notin RevThreads
                       /\ RevNone \notin Times /\ RevMaxWrites \in Nat /\ 0 \in Times
BY RevConstants DEF Times

\* The shapes hold at the start.
LEMMA RevShapeInit == RevInit => RevShape
<1> SUFFICES ASSUME RevInit PROVE RevShape
  OBVIOUS
<1>1. RevData
  BY RevNoneIsNone DEF RevInit, RevData, MaybeEntry, Times
<1>2. RevRequests
  BY NoOperationIsOne, RevNoneIsNone DEF RevInit, RevRequests, Fits, RevPcs
<1> QED BY <1>1, <1>2 DEF RevShape

\* A step of one request: the others stay where they were, and so does their
\* claim on the gate.
LEMMA RequestMoves ==
    ASSUME RevRequests, NEW t \in RevThreads, NEW l \in RevPcs, NEW o \in RevOps,
           revPc' = [revPc EXCEPT ![t] = l], revOp' = [revOp EXCEPT ![t] = o],
           \/ revGate' = revGate
           \/ revGate = RevNone /\ revGate' = t
           \/ revGate = t /\ revGate' = RevNone,
           Fits(t, l, o, revGate')
    PROVE  RevRequests'
<1>1. revPc' \in [RevThreads -> RevPcs] /\ revOp' \in [RevThreads -> RevOps]
      /\ revGate' \in RevThreads \cup {RevNone}
  BY DEF RevRequests
<1>2. Fits(t, revPc'[t], revOp'[t], revGate')
  BY DEF RevRequests
<1>3. ASSUME NEW u \in RevThreads \ {t} PROVE Fits(u, revPc'[u], revOp'[u], revGate')
  <2>1. revPc'[u] = revPc[u] /\ revOp'[u] = revOp[u]
    BY DEF RevRequests
  <2>2. revGate' = u <=> revGate = u
    BY RevNoneIsNone
  <2>3. Fits(u, revPc[u], revOp[u], revGate)
    BY DEF RevRequests
  <2> QED BY <2>1, <2>2, <2>3 DEF Fits
<1> QED BY <1>1, <1>2, <1>3 DEF RevRequests

\* Two of the ways a request moves: it ends, or it only goes on.
LEMMA RequestEnds ==
    ASSUME RevRequests, NEW t \in RevThreads, Finish(t),
           \/ revGate # t /\ revGate' = revGate
           \/ revGate = t /\ revGate' = RevNone
    PROVE  RevRequests'
<1>1. revPc' = [revPc EXCEPT ![t] = "idle"] /\ revOp' = [revOp EXCEPT ![t] = NoOperation]
  BY DEF Finish, RevGoto
<1>2. Fits(t, "idle", NoOperation, revGate')
  BY NoOperationIsOne, RevNoneIsNone DEF Fits
<1> QED BY <1>1, <1>2, NoOperationIsOne, RequestMoves DEF RevPcs

\* It goes on with its local variables as they are.
LEMMA RequestGoesOn ==
    ASSUME RevRequests, NEW t \in RevThreads, NEW l \in RevPcs, RevGoto(t, l),
           UNCHANGED <<revOp, revGate>>, Fits(t, l, revOp[t], revGate)
    PROVE  RevRequests'
<1>1. revOp' = [revOp EXCEPT ![t] = revOp[t]] /\ revOp[t] \in RevOps
  BY DEF RevRequests
<1> QED BY <1>1, RequestMoves DEF RevGoto

\* Every step keeps the shapes.
LEMMA RevShapeNext == RevShape /\ [RevNext]_revVars => RevShape'
<1> SUFFICES ASSUME RevShape, [RevNext]_revVars PROVE RevShape'
  OBVIOUS
<1>0. RevData /\ RevRequests
  BY DEF RevShape
<1>1. CASE UNCHANGED revVars
  BY <1>0, <1>1 DEF revVars, revDisk, revCaches, revPrints, revReq, RevShape, RevData, RevRequests
<1>2. CASE SelectMod
  <2>1. RevData'
    BY <1>0, <1>2 DEF SelectMod, RevData, revDisk, revPrints
  <2>2. RevRequests'
    BY <1>0, <1>2 DEF SelectMod, RevRequests, revReq
  <2> QED BY <2>1, <2>2 DEF RevShape
\* A write of a table.
<1>3. ASSUME NEW m \in RevMods, NEW b \in Times, NEW w \in {"outside", "server"},
             revClock <= RevMaxWrites, Overwrite(m, b, w),
             UNCHANGED <<revMod, revCaches, revPrints, revClientRev>>
      PROVE  RevData'
  <2>1. revClock \in Times
    BY <1>0, <1>3, RevNoneIsNone DEF RevData, Times
  <2>2. revFile' = [revFile EXCEPT ![m] = [bytes |-> b, mtime |-> revClock, by |-> w]]
        /\ revClock' = revClock + 1
    BY <1>3 DEF Overwrite
  <2>3. revFile' \in [RevMods -> [bytes : Times, mtime : Times, by : {"outside", "server"}]]
    BY <1>0, <2>1, <2>2 DEF RevData
  <2>4. revClock' \in 1..(RevMaxWrites + 1)
    BY <1>0, <1>3, <2>2, RevNoneIsNone DEF RevData
  <2> QED BY <1>0, <1>3, <2>3, <2>4 DEF RevData, revCaches, revPrints
<1>4. CASE OutsideEdit
  <2>1. RevData'
    <3>1. revClock \in Times
      BY <1>0, <1>4, RevNoneIsNone DEF RevData, Times, OutsideEdit
    <3> QED BY <1>3, <1>4, <3>1 DEF OutsideEdit
  <2>2. RevRequests'
    BY <1>0, <1>4 DEF OutsideEdit, RevRequests, revReq
  <2> QED BY <2>1, <2>2 DEF RevShape
\* What the clauses of the caches and prints need, one by one.
<1>5. ASSUME NEW t \in RevThreads
      PROVE  /\ revOp[t] \in RevOps /\ revPc[t] \in RevPcs
             /\ Fits(t, revPc[t], revOp[t], revGate)
             /\ revGate \in RevThreads \cup {RevNone}
             /\ \A m \in RevMods : revFile[m].bytes \in Times /\ revFile[m].mtime \in Times
             /\ revOp[t].stat \in Times /\ revOp[t].got \in Times \cup {RevNone}
             /\ revOp[t].rev \in Times \cup {RevNone} /\ revOp[t].checking \in BOOLEAN
  BY <1>0 DEF RevData, RevRequests, RevOps
<1>6. ASSUME NEW t \in RevThreads, Arrive(t) PROVE RevShape'
  <2>1. PICK k \in RevKinds \ {"select"} :
          LET rev == IF k = "put" THEN revClientRev[RevClient[t]] ELSE RevNone IN
          /\ revOp' = [revOp EXCEPT ![t] = [NoOperation EXCEPT !.kind = k, !.rev = rev,
                                                               !.path = revMod]]
          /\ RevGoto(t, FirstStep(k, rev))
    BY <1>6 DEF Arrive
  <2>2. PICK rev : rev = IF k = "put" THEN revClientRev[RevClient[t]] ELSE RevNone
    OBVIOUS
  <2>3. rev \in Times \cup {RevNone} /\ (k # "put" => rev = RevNone)
    BY <1>0, <2>2 DEF RevData, RevClients
  <2>4. k \in {"get", "all", "put", "undo", "poll"}
    BY RevConstants DEF RevAllKinds
  <2>5. PICK o : o = [NoOperation EXCEPT !.kind = k, !.rev = rev, !.path = revMod]
    OBVIOUS
  <2>6. /\ o \in RevOps /\ o.kind = k /\ o.rev = rev /\ o.path = revMod /\ ~o.checking
    BY <1>0, <2>3, <2>4, <2>5, NoOperationIsOne DEF RevOps, RevData
  <2>7. PICK l : l = FirstStep(k, rev)
    OBVIOUS
  <2>8. /\ l \in {"stat", "allStat", "root", "write", "pollRoot"}
        /\ l = "stat" => (k = "get" \/ (k = "put" /\ rev = RevNone))
        /\ l = "allStat" => k = "all"
        /\ l = "root" => k = "put" /\ rev # RevNone
        /\ l = "write" => k = "undo"
        /\ l = "pollRoot" => k = "poll"
    <3>1. CASE k = "get"
      <4>1. l = "stat"
        BY <3>1, <2>7 DEF FirstStep
      <4> QED BY <3>1, <4>1
    <3>2. CASE k = "all"
      BY <3>2, <2>7 DEF FirstStep
    <3>3. CASE k = "put"
      BY <3>3, <2>7 DEF FirstStep
    <3>4. CASE k = "undo"
      BY <3>4, <2>7 DEF FirstStep
    <3>5. CASE k = "poll"
      BY <3>5, <2>7 DEF FirstStep
    <3> QED BY <2>4, <3>1, <3>2, <3>3, <3>4, <3>5
  <2>9. revGate' = revGate /\ revGate # t
    BY <1>5, <1>6, NoOperationIsOne DEF Arrive, Fits, At
  <2>10. Fits(t, l, o, revGate')
    BY <1>0, <2>3, <2>6, <2>8, <2>9 DEF Fits, RevData
  <2>11. RevRequests'
    <3>1. revPc' = [revPc EXCEPT ![t] = l] /\ revOp' = [revOp EXCEPT ![t] = o]
      BY <2>1, <2>2, <2>5, <2>7 DEF RevGoto
    <3> QED BY <1>0, <2>6, <2>8, <2>9, <2>10, <3>1, RequestMoves DEF RevPcs
  <2>12. RevData'
    BY <1>0, <1>6 DEF Arrive, RevData, revDisk, revCaches, revPrints
  <2> QED BY <2>11, <2>12 DEF RevShape
\* Looks at files and the like: no data changes.
<1>7. ASSUME NEW t \in RevThreads, StatTable(t) \/ ReadTable(t) \/ StatAll(t) \/ ReadAll(t)
      PROVE  RevShape'
  <2>0. revGate' = revGate /\ UNCHANGED <<revDisk, revMod, revCaches, revPrints, revClientRev>>
    BY <1>7 DEF StatTable, ReadTable, StatAll, ReadAll
  <2>1. RevData'
    BY <1>0, <2>0 DEF RevData, revDisk, revCaches, revPrints
  <2>2. revOp[t].path \in RevMods
    BY <1>5, <1>7 DEF StatTable, ReadTable, StatAll, ReadAll, At, Fits
  <2>3. CASE StatTable(t)
    <3>1. CASE AfterLoad(t)
      <4>1. CASE revOp[t].kind = "put"
        <5>1. Fits(t, "write", revOp[t], revGate)
          BY <1>5, <2>3, <4>1 DEF StatTable, At, Fits
        <5> QED BY <1>0, <2>0, <2>1, <3>1, <4>1, <5>1, RequestGoesOn DEF AfterLoad, RevPcs, RevShape
      <4>2. CASE revOp[t].kind # "put"
        <5>1. revGate # t
          BY <1>5, <4>2 DEF Fits
        <5> QED BY <1>0, <2>0, <2>1, <3>1, <4>2, <5>1, RequestEnds DEF AfterLoad, RevShape
      <4> QED BY <4>1, <4>2
    <3>2. CASE Local(t, "stat", revFile[revOp[t].path].mtime) /\ RevGoto(t, "read")
      <4>1. PICK o \in RevOps : o = [revOp[t] EXCEPT !.stat = revFile[revOp[t].path].mtime]
        <5>1. [revOp[t] EXCEPT !.stat = revFile[revOp[t].path].mtime] \in RevOps
          BY <1>5, <2>2 DEF RevOps
        <5> QED BY <5>1
      <4>2. revOp' = [revOp EXCEPT ![t] = o]
        BY <3>2, <4>1 DEF Local
      <4>3. Fits(t, "read", o, revGate)
        BY <1>5, <2>3, <4>1 DEF StatTable, At, Fits, RevOps
      <4> QED BY <1>0, <2>0, <2>1, <3>2, <4>2, <4>3, RequestMoves DEF RevGoto, RevPcs, RevShape
    <3> QED BY <2>3, <3>1, <3>2 DEF StatTable
  <2>4. CASE ReadTable(t)
    <3>1. PICK o \in RevOps : o = [revOp[t] EXCEPT !.got = revFile[revOp[t].path].bytes]
      <4>1. [revOp[t] EXCEPT !.got = revFile[revOp[t].path].bytes] \in RevOps
        BY <1>5, <2>2 DEF RevOps
      <4> QED BY <4>1
    <3>2. revOp' = [revOp EXCEPT ![t] = o] /\ RevGoto(t, "store")
      BY <2>4, <3>1 DEF ReadTable, Local
    <3>3. Fits(t, "store", o, revGate)
      BY <1>5, <2>2, <2>4, <3>1 DEF ReadTable, At, Fits, RevOps
    <3> QED BY <1>0, <2>0, <2>1, <3>2, <3>3, RequestMoves DEF RevGoto, RevPcs, RevShape
  <2>5. CASE StatAll(t)
    <3>1. CASE Finish(t)
      <4>1. revGate # t
        BY <1>5, <2>5 DEF Fits, StatAll, At
      <4> QED BY <1>0, <2>0, <2>1, <3>1, <4>1, RequestEnds DEF RevShape
    <3>2. CASE Local(t, "stat", revFile[revOp[t].path].mtime) /\ RevGoto(t, "allRead")
      <4>1. PICK o \in RevOps : o = [revOp[t] EXCEPT !.stat = revFile[revOp[t].path].mtime]
        <5>1. [revOp[t] EXCEPT !.stat = revFile[revOp[t].path].mtime] \in RevOps
          BY <1>5, <2>2 DEF RevOps
        <5> QED BY <5>1
      <4>2. revOp' = [revOp EXCEPT ![t] = o]
        BY <3>2, <4>1 DEF Local
      <4>3. Fits(t, "allRead", o, revGate)
        BY <1>5, <2>5, <4>1 DEF StatAll, At, Fits, RevOps
      <4> QED BY <1>0, <2>0, <2>1, <3>2, <4>2, <4>3, RequestMoves DEF RevGoto, RevPcs, RevShape
    <3> QED BY <2>5, <3>1, <3>2 DEF StatAll
  <2>6. CASE ReadAll(t)
    <3>1. PICK o \in RevOps : o = [revOp[t] EXCEPT !.got = revFile[revOp[t].path].bytes]
      <4>1. [revOp[t] EXCEPT !.got = revFile[revOp[t].path].bytes] \in RevOps
        BY <1>5, <2>2 DEF RevOps
      <4> QED BY <4>1
    <3>2. revOp' = [revOp EXCEPT ![t] = o] /\ RevGoto(t, "allInstall")
      BY <2>6, <3>1 DEF ReadAll, Local
    <3>3. Fits(t, "allInstall", o, revGate)
      BY <1>5, <2>2, <2>6, <3>1 DEF ReadAll, At, Fits, RevOps
    <3> QED BY <1>0, <2>0, <2>1, <3>2, <3>3, RequestMoves DEF RevGoto, RevPcs, RevShape
  <2> QED BY <1>7, <2>3, <2>4, <2>5, <2>6
<1>8. ASSUME NEW t \in RevThreads, StoreTable(t) \/ InstallAll(t)
      PROVE  RevShape'
  <2>0. revGate' = revGate /\ UNCHANGED <<revDisk, revMod, revPrints, revClientRev>>
    BY <1>8 DEF StoreTable, InstallAll
  <2>1. revOp[t].path \in RevMods /\ revOp[t].got \in Times
    BY <1>5, <1>8 DEF StoreTable, InstallAll, At, Fits
  <2>2. Entry(revOp[t].stat, revOp[t].got) \in MaybeEntry
    BY <1>5, <2>1 DEF Entry, MaybeEntry
  <2>3. RevData'
    <3>1. CASE StoreTable(t)
      <4>1. /\ revTable' = [revTable EXCEPT ![revOp[t].path] = Entry(revOp[t].stat, revOp[t].got)]
            /\ UNCHANGED revAll
        BY <3>1 DEF StoreTable, StoredPrint
      <4>2. revTable' \in [RevMods -> MaybeEntry]
        BY <1>0, <2>2, <4>1 DEF RevData
      <4> QED BY <1>0, <2>0, <4>1, <4>2 DEF RevData, revDisk, revPrints
    <3>2. CASE InstallAll(t)
      <4>1. PICK e \in MaybeEntry : e = Entry(revOp[t].stat, revOp[t].got)
        BY <2>2
      <4>2. /\ revAll' = [valid |-> TRUE, dir |-> revOp[t].path, entry |-> e]
            /\ UNCHANGED revTable
        BY <3>2, <4>1 DEF InstallAll
      <4>3. revAll' \in [valid : BOOLEAN, dir : RevMods \cup {RevNone}, entry : MaybeEntry]
            /\ revAll'.dir \in RevMods
        BY <2>1, <4>2
      <4> QED BY <1>0, <2>0, <4>2, <4>3 DEF RevData, revDisk, revPrints
    <3> QED BY <1>8, <3>1, <3>2
  <2>4. CASE StoreTable(t)
    <3>1. CASE revOp[t].kind = "put"
      <4>1. Fits(t, "write", revOp[t], revGate)
        BY <1>5, <2>4, <3>1 DEF StoreTable, At, Fits
      <4> QED BY <1>0, <2>0, <2>3, <2>4, <3>1, <4>1, RequestGoesOn
                 DEF StoreTable, AfterLoad, RevPcs, RevShape
    <3>2. CASE revOp[t].kind # "put"
      <4>1. revGate # t
        BY <1>5, <3>2 DEF Fits
      <4> QED BY <1>0, <2>0, <2>3, <2>4, <3>2, <4>1, RequestEnds
                 DEF StoreTable, AfterLoad, RevShape
    <3> QED BY <3>1, <3>2
  <2>5. CASE InstallAll(t)
    <3>1. revGate # t
      BY <1>5, <2>5 DEF Fits, InstallAll, At
    <3> QED BY <1>0, <2>0, <2>3, <2>5, <3>1, RequestEnds DEF InstallAll, RevShape
  <2> QED BY <1>8, <2>4, <2>5
<1>9. ASSUME NEW m \in RevMods, SetRoot(m), UNCHANGED <<revDisk, revMod, revCaches, revClientRev>>
      PROVE  RevData'
  BY <1>0, <1>9 DEF SetRoot, RevData, revDisk, revCaches, MaybeEntry
<1>10. ASSUME NEW t \in RevThreads, PollSet(t) PROVE RevShape'
  <2>1. RevData'
    BY <1>0, <1>5, <1>9, <1>10 DEF PollSet, At, Fits, RevData
  <2>2. Fits(t, "print", revOp[t], revGate)
    BY <1>5, <1>10 DEF PollSet, At, Fits
  <2> QED BY <1>0, <1>10, <2>1, <2>2, RequestGoesOn DEF PollSet, RevPcs, RevShape
<1>11. ASSUME NEW t \in RevThreads, PollRoot(t) \/ ReadRoot(t) PROVE RevShape'
  <2>1. RevData'
    BY <1>0, <1>11 DEF PollRoot, ReadRoot, RevData, revDisk, revCaches, revPrints
  <2>2. PICK o \in RevOps : o = [revOp[t] EXCEPT !.root = revMod]
    <3>1. [revOp[t] EXCEPT !.root = revMod] \in RevOps
      BY <1>0, <1>5 DEF RevOps, RevData
    <3> QED BY <3>1
  <2>3. revOp' = [revOp EXCEPT ![t] = o] /\ revGate' = revGate
    BY <1>11, <2>2 DEF PollRoot, ReadRoot, Local
  <2>4. PICK l \in {"gate", "pollSet"} : RevGoto(t, l) /\ Fits(t, l, o, revGate)
    BY <1>0, <1>5, <1>11, <2>2 DEF PollRoot, ReadRoot, At, Fits, RevOps, RevData
  <2> QED BY <1>0, <2>1, <2>3, <2>4, RequestMoves DEF RevGoto, RevPcs, RevShape
<1>12. ASSUME NEW t \in RevThreads, EnterGate(t) PROVE RevShape'
  <2>0. revOp[t].root \in RevMods
    BY <1>5, <1>12 DEF EnterGate, At, Fits
  <2>1. RevData'
    BY <1>9, <1>12, <2>0 DEF EnterGate
  <2>2. PICK o \in RevOps : o = [revOp[t] EXCEPT !.checking = TRUE]
    <3>1. [revOp[t] EXCEPT !.checking = TRUE] \in RevOps
      BY <1>5 DEF RevOps
    <3> QED BY <3>1
  <2>3. revOp' = [revOp EXCEPT ![t] = o] /\ RevGoto(t, "print") /\ revGate = RevNone /\ revGate' = t
    BY <1>12, <2>2 DEF EnterGate, Local, TakeGate
  <2>4. Fits(t, "print", o, t)
    BY <1>5, <1>12, <2>2 DEF EnterGate, At, Fits, RevOps
  <2> QED BY <1>0, <2>1, <2>3, <2>4, RequestMoves DEF RevGoto, RevPcs, RevShape
<1>13. ASSUME NEW t \in RevThreads, PrintStat(t) PROVE RevShape'
  <2>1. RevData'
    BY <1>0, <1>13 DEF PrintStat, RevData, revDisk, revCaches, revPrints
  <2>2. CASE Local(t, "got", RevNone) /\ RevGoto(t, "publish")
    <3>1. PICK o \in RevOps : o = [revOp[t] EXCEPT !.got = RevNone]
      <4>1. [revOp[t] EXCEPT !.got = RevNone] \in RevOps
        BY <1>5 DEF RevOps
      <4> QED BY <4>1
    <3>2. revOp' = [revOp EXCEPT ![t] = o] /\ RevGoto(t, "publish") /\ revGate' = revGate
      BY <1>13, <2>2, <3>1 DEF PrintStat, Local
    <3>3. Fits(t, "publish", o, revGate)
      BY <1>5, <1>13, <3>1 DEF PrintStat, At, Fits, RevOps
    <3> QED BY <1>0, <2>1, <3>2, <3>3, RequestMoves DEF RevGoto, RevPcs, RevShape
  <2>3. ASSUME revRoot # RevNone, Fresh(revMeta[revRoot], revFile[revRoot]),
               revOp' = [revOp EXCEPT ![t].stat = revFile[revRoot].mtime, ![t].root = revRoot,
                                      ![t].got = revMeta[revRoot].bytes],
               RevGoto(t, "publish")
        PROVE  RevShape'
    <3>0. revMeta[revRoot].bytes \in Times /\ revFile[revRoot].mtime \in Times
          /\ revRoot \in RevMods
      BY <1>0, <1>5, <2>3 DEF RevData, MaybeEntry, Fresh
    <3>1. PICK o \in RevOps : o = [revOp[t] EXCEPT !.stat = revFile[revRoot].mtime,
                                                   !.root = revRoot,
                                                   !.got = revMeta[revRoot].bytes]
      <4>1. [revOp[t] EXCEPT !.stat = revFile[revRoot].mtime, !.root = revRoot,
                             !.got = revMeta[revRoot].bytes] \in RevOps
        BY <1>5, <3>0 DEF RevOps
      <4> QED BY <4>1
    <3>2. revOp' = [revOp EXCEPT ![t] = o] /\ revGate' = revGate
      BY <1>0, <1>13, <2>3, <3>1 DEF PrintStat, RevRequests, RevOps
    <3>3. Fits(t, "publish", o, revGate)
      BY <1>5, <1>13, <3>1 DEF PrintStat, At, Fits, RevOps
    <3> QED BY <1>0, <2>1, <2>3, <3>2, <3>3, RequestMoves DEF RevGoto, RevPcs, RevShape
  <2>4. ASSUME revRoot # RevNone,
               revOp' = [revOp EXCEPT ![t].stat = revFile[revRoot].mtime, ![t].root = revRoot],
               RevGoto(t, "hash")
        PROVE  RevShape'
    <3>0. revRoot \in RevMods /\ revFile[revRoot].mtime \in Times
      BY <1>0, <1>5, <2>4 DEF RevData
    <3>1. PICK o \in RevOps : o = [revOp[t] EXCEPT !.stat = revFile[revRoot].mtime,
                                                   !.root = revRoot]
      <4>1. [revOp[t] EXCEPT !.stat = revFile[revRoot].mtime, !.root = revRoot] \in RevOps
        BY <1>5, <3>0 DEF RevOps
      <4> QED BY <4>1
    <3>2. revOp' = [revOp EXCEPT ![t] = o] /\ revGate' = revGate
      BY <1>0, <1>13, <2>4, <3>1 DEF PrintStat, RevRequests, RevOps
    <3>3. Fits(t, "hash", o, revGate)
      BY <1>5, <1>13, <3>0, <3>1 DEF PrintStat, At, Fits, RevOps
    <3> QED BY <1>0, <2>1, <2>4, <3>2, <3>3, RequestMoves DEF RevGoto, RevPcs, RevShape
  <2> QED BY <1>13, <2>2, <2>3, <2>4 DEF PrintStat
<1>14. ASSUME NEW t \in RevThreads, PrintHash(t) PROVE RevShape'
  <2>0. revOp[t].root \in RevMods
    BY <1>5, <1>14 DEF PrintHash, At, Fits
  <2>1. Entry(revOp[t].stat, revFile[revOp[t].root].bytes) \in MaybeEntry
    BY <1>5, <2>0 DEF Entry, MaybeEntry
  <2>2. RevData'
    BY <1>0, <1>14, <2>0, <2>1 DEF PrintHash, RevData, revDisk, revCaches
  <2>3. PICK o \in RevOps : o = [revOp[t] EXCEPT !.got = revFile[revOp[t].root].bytes]
    <3>1. [revOp[t] EXCEPT !.got = revFile[revOp[t].root].bytes] \in RevOps
      BY <1>5, <2>0 DEF RevOps
    <3> QED BY <3>1
  <2>4. revOp' = [revOp EXCEPT ![t] = o] /\ RevGoto(t, "publish") /\ revGate' = revGate
    BY <1>14, <2>3 DEF PrintHash, Local
  <2>5. Fits(t, "publish", o, revGate)
    BY <1>5, <1>14, <2>3 DEF PrintHash, At, Fits, RevOps
  <2> QED BY <1>0, <2>2, <2>4, <2>5, RequestMoves DEF RevGoto, RevPcs, RevShape
<1>15. ASSUME NEW t \in RevThreads, NEW r \in Times \cup {RevNone}, Adopt(t, r)
       PROVE  revClientRev' \in [RevClients -> Times \cup {RevNone}]
  BY <1>0, <1>15 DEF Adopt, RevData
<1>16. ASSUME NEW t \in RevThreads, Publish(t) PROVE RevShape'
  <2>1. revClientRev' \in [RevClients -> Times \cup {RevNone}]
    BY <1>0, <1>5, <1>15, <1>16 DEF Publish, RevData
  <2>2. RevData'
    BY <1>0, <1>5, <1>16, <2>1 DEF Publish, RevData, revDisk, revCaches
  <2>3. CASE revOp[t].checking /\ revOp[t].got = revOp[t].rev
    <3>1. PICK o \in RevOps : o = [revOp[t] EXCEPT !.seen = revOp[t].stat]
      <4>1. [revOp[t] EXCEPT !.seen = revOp[t].stat] \in RevOps
        BY <1>5 DEF RevOps
      <4> QED BY <4>1
    <3>2. revOp' = [revOp EXCEPT ![t] = o] /\ RevGoto(t, "stat") /\ revGate' = revGate
      BY <1>16, <2>3, <3>1 DEF Publish, Local
    <3>3. Fits(t, "stat", o, revGate)
      BY <1>5, <1>16, <2>3, <3>1 DEF Publish, At, Fits, RevOps
    <3> QED BY <1>0, <2>2, <3>2, <3>3, RequestMoves DEF RevGoto, RevPcs, RevShape
  <2>4. CASE revOp[t].checking /\ revOp[t].got # revOp[t].rev
    <3>1. revGate = t /\ revGate' = RevNone /\ Finish(t)
      BY <1>5, <1>16, <2>4 DEF Publish, Fits
    <3> QED BY <1>0, <2>2, <3>1, RequestEnds DEF RevShape
  <2>5. CASE ~revOp[t].checking
    <3>1. revGate' = (IF revGate = t THEN RevNone ELSE revGate) /\ Finish(t)
      BY <1>16, <2>5 DEF Publish
    <3> QED BY <1>0, <2>2, <3>1, RequestEnds DEF RevShape
  <2> QED BY <2>3, <2>4, <2>5
<1>17. ASSUME NEW t \in RevThreads, Write(t) PROVE RevShape'
  <2>0. revOp[t].path \in RevMods
    BY <1>5, <1>17 DEF Write, At, Fits
  <2>1. CASE /\ revClock <= RevMaxWrites
             /\ Overwrite(revOp[t].path, revClock, "server")
             /\ revOp' = [revOp EXCEPT ![t].stat = revClock, ![t].got = revClock,
                                       ![t].checking = FALSE]
             /\ RevGoto(t, "seed")
             /\ UNCHANGED revGate
    <3>0. revClock \in Times
      BY <1>0, <2>1, RevNoneIsNone DEF RevData, Times
    <3>1. RevData'
      BY <1>3, <1>17, <2>0, <2>1, <3>0 DEF Write
    <3>2. PICK o \in RevOps : o = [revOp[t] EXCEPT !.stat = revClock, !.got = revClock,
                                                   !.checking = FALSE]
      <4>1. [revOp[t] EXCEPT !.stat = revClock, !.got = revClock, !.checking = FALSE] \in RevOps
        BY <1>5, <3>0 DEF RevOps
      <4> QED BY <4>1
    <3>3. revOp' = [revOp EXCEPT ![t] = o]
      BY <1>0, <2>1, <3>2 DEF RevRequests, RevOps
    <3>4. Fits(t, "seed", o, revGate)
      BY <1>5, <1>17, <3>0, <3>2 DEF Write, At, Fits, RevOps
    <3> QED BY <1>0, <2>1, <3>1, <3>3, <3>4, RequestMoves DEF RevGoto, RevPcs, RevShape
  <2>2. CASE /\ revGate' = IF revGate = t THEN RevNone ELSE revGate
             /\ Finish(t)
             /\ UNCHANGED revDisk
    <3>1. RevData'
      BY <1>0, <1>17, <2>2 DEF Write, RevData, revDisk, revCaches, revPrints
    <3> QED BY <1>0, <2>2, <3>1, RequestEnds DEF RevShape
  <2> QED BY <1>17, <2>1, <2>2 DEF Write
<1>18. ASSUME NEW t \in RevThreads, Seed(t) \/ Refresh(t) PROVE RevShape'
  <2>0. revOp[t].path \in RevMods /\ revOp[t].got \in Times
    BY <1>5, <1>18 DEF Seed, Refresh, At, Fits
  <2>1. /\ Entry(revOp[t].stat, revOp[t].got) \in MaybeEntry
        /\ Entry(revFile[revOp[t].path].mtime, revOp[t].got) \in MaybeEntry
    BY <1>5, <2>0 DEF Entry, MaybeEntry
  <2>2. RevData'
    <3>1. CASE Seed(t)
      BY <1>0, <2>0, <2>1, <3>1 DEF Seed, RevData, revDisk, revPrints
    <3>2. CASE Refresh(t)
      BY <1>0, <2>0, <2>1, <3>2 DEF Refresh, RevData, revDisk, revCaches
    <3> QED BY <1>18, <3>1, <3>2
  <2>3. Fits(t, "refresh", revOp[t], revGate) \/ Refresh(t)
    BY <1>5, <1>18 DEF Seed, At, Fits
  <2>4. Fits(t, "answer", revOp[t], revGate)
    BY <1>5, <1>18 DEF Seed, Refresh, At, Fits
  <2> QED BY <1>0, <1>18, <2>2, <2>3, <2>4, RequestGoesOn DEF Seed, Refresh, RevPcs, RevShape
<1>19. ASSUME NEW t \in RevThreads, Answer(t) PROVE RevShape'
  <2>1. revClientRev' \in [RevClients -> Times \cup {RevNone}]
    BY <1>0, <1>15, <1>19 DEF Answer, RevData
  <2>2. RevData'
    BY <1>0, <1>19, <2>1 DEF Answer, RevData, revDisk, revCaches, revPrints
  <2>3. Fits(t, "print", revOp[t], revGate)
    BY <1>5, <1>19 DEF Answer, At, Fits
  <2> QED BY <1>0, <1>19, <2>2, <2>3, RequestGoesOn, RequestEnds DEF Answer, RevPcs, RevShape
<1>20. ASSUME NEW t \in RevThreads, Revert(t) PROVE RevShape'
  <2>0. revOp[t].path \in RevMods /\ revGate # t /\ revGate' = revGate
    BY <1>5, <1>20 DEF Revert, At, Fits
  <2>1. CASE UNCHANGED revDisk /\ Finish(t)
    <3>1. RevData'
      BY <1>0, <1>20, <2>1 DEF Revert, RevData, revDisk, revCaches, revPrints
    <3> QED BY <1>0, <2>0, <2>1, <3>1, RequestEnds DEF RevShape
  <2>2. ASSUME revClock <= RevMaxWrites, NEW b \in 0..(revClock - 1),
               Overwrite(revOp[t].path, b, "server"), RevGoto(t, "reverted"), UNCHANGED revOp
        PROVE  RevShape'
    <3>1. b \in Times
      BY <1>0, <2>2, RevNoneIsNone DEF RevData, Times
    <3>2. RevData'
      BY <1>3, <1>20, <2>0, <2>2, <3>1 DEF Revert
    <3>3. Fits(t, "reverted", revOp[t], revGate)
      BY <1>5, <1>20 DEF Revert, At, Fits
    <3> QED BY <1>0, <2>0, <2>2, <3>2, <3>3, RequestGoesOn DEF RevPcs, RevShape
  <2> QED BY <1>20, <2>1, <2>2 DEF Revert
<1>21. ASSUME NEW t \in RevThreads, Reverted(t) PROVE RevShape'
  <2>1. RevData'
    BY <1>0, <1>21 DEF Reverted, RevData, revDisk, revPrints
  <2>2. revGate # t /\ revGate' = revGate
    BY <1>5, <1>21 DEF Reverted, At, Fits
  <2> QED BY <1>0, <1>21, <2>1, <2>2, RequestEnds DEF Reverted, RevShape
<1> QED
  BY <1>1, <1>2, <1>4, <1>6, <1>7, <1>8, <1>10, <1>11, <1>12, <1>13, <1>14, <1>16, <1>17,
     <1>18, <1>19, <1>20, <1>21 DEF RevNext, RevRequestStep

\* The caches, the prints and the gate keep their shape, and the gate is held
\* exactly by the save that is past it (cfg_routes.cpp, revision_manager.cpp).
THEOREM RevisionsWellFormed == RevSpec => []RevTypeOK
<1>1. RevShape => RevTypeOK
  <2> SUFFICES ASSUME RevShape PROVE RevTypeOK
    OBVIOUS
  <2>1. /\ \A m \in RevMods : revTable[m] \in MaybeEntry /\ revMeta[m] \in MaybeEntry
        /\ revAll.entry \in MaybeEntry
        /\ revMod \in RevMods /\ revRoot \in RevMods \cup {RevNone}
    BY DEF RevShape, RevData
  <2>2. /\ revGate # RevNone => revOp[revGate].rev # RevNone
        /\ \A t \in RevThreads : revOp[t].checking => revGate = t
    BY DEF RevShape, RevRequests, Fits
  <2> QED BY <2>1, <2>2 DEF RevTypeOK
<1> QED BY <1>1, RevShapeInit, RevShapeNext, PTL DEF RevSpec

-----------------------------------------------------------------------------
(* Revisions and caches: an entry that looks current is                    *)

\* What a request holds at step l in its local variables o: a read that looks
\* current is, and a save that is not settled yet knows the file it wrote.
Holds(l, o) ==
    /\ o.stat < revClock /\ o.seen < revClock
    /\ l \in {"store", "allInstall"} => Honest(Entry(o.stat, o.got), revFile[o.path])
    /\ l \in {"seed", "refresh"} => /\ revFile[o.path].bytes = o.got
                                    /\ revFile[o.path].mtime = o.stat
                                    /\ o.stat > 0

\* Modification times grow; two files share one only if nobody wrote either.
TimesGrow ==
    /\ \A m \in RevMods : /\ revFile[m].mtime < revClock
                          /\ revTable[m] # RevNone => revTable[m].mtime < revClock
                          /\ revMeta[m] # RevNone => revMeta[m].mtime < revClock
    /\ revAll.entry # RevNone => revAll.entry.mtime < revClock
    /\ \A m, n \in RevMods : m # n /\ revFile[m].mtime = revFile[n].mtime => revFile[m].mtime = 0

\* Every save names a revision.
NobodyIsBlind ==
    /\ \A c \in RevClients : revClientRev[c] # RevNone
    /\ \A t \in RevThreads : revOp[t].kind = "put" => revOp[t].rev # RevNone

CachesInv ==
    /\ RevShape /\ TimesGrow /\ NobodyIsBlind /\ CacheHitIsCurrent
    /\ \A t \in RevThreads : Holds(revPc[t], revOp[t])

\* Front ends that hold a revision start from honest caches.
LEMMA CachesInvInit == ASSUME "blind" \notin RevFaults PROVE RevInit => CachesInv
<1> SUFFICES ASSUME RevInit PROVE CachesInv
  OBVIOUS
<1>1. RevShape
  BY RevShapeInit
<1>2. TimesGrow
  BY DEF RevInit, TimesGrow
<1>3. NobodyIsBlind
  BY RevNoneIsNone, NoOperationIsOne DEF RevInit, NobodyIsBlind, Times
<1>4. CacheHitIsCurrent
  BY DEF RevInit, CacheHitIsCurrent, Honest, Fresh
<1>5. \A t \in RevThreads : Holds(revPc[t], revOp[t])
  BY DEF RevInit, Holds, NoOperation
<1> QED BY <1>1, <1>2, <1>3, <1>4, <1>5 DEF CachesInv

\* A file is written by somebody who finds no save unsettled on it: nothing that
\* was kept or is held looks current any more.
LEMMA WriteOutdates ==
    ASSUME CachesInv, RevShape', NEW m \in RevMods, NEW b \in Times, NEW w,
           revClock <= RevMaxWrites, Overwrite(m, b, w),
           UNCHANGED <<revCaches, revPrints, revClientRev>>,
           NEW T \in SUBSET RevThreads,
           \A t \in T : /\ revPc'[t] = revPc[t] /\ revOp'[t] = revOp[t]
                        /\ ~(revOp[t].path = m /\ revPc[t] \in {"seed", "refresh"})
    PROVE  /\ TimesGrow' /\ CacheHitIsCurrent'
           /\ \A t \in T : Holds(revPc[t], revOp[t])'
           /\ revClock \in Nat /\ revClock > 0 /\ revClock' = revClock + 1
<1>0. /\ RevData /\ RevRequests /\ TimesGrow /\ CacheHitIsCurrent
      /\ revFile' = [revFile EXCEPT ![m] = [bytes |-> b, mtime |-> revClock, by |-> w]]
      /\ revClock' = revClock + 1
  BY DEF CachesInv, RevShape, Overwrite
<1>1. revClock \in Nat /\ revClock > 0
  BY <1>0, RevNoneIsNone DEF RevData
<1>2. /\ revFile'[m] = [bytes |-> b, mtime |-> revClock, by |-> w]
      /\ \A n \in RevMods \ {m} : revFile'[n] = revFile[n]
  BY <1>0 DEF RevData
<1>3. /\ \A n \in RevMods : /\ revFile[n].mtime \in Nat
                            /\ revTable[n] # RevNone => revTable[n].mtime \in Nat
                            /\ revMeta[n] # RevNone => revMeta[n].mtime \in Nat
      /\ revAll.entry # RevNone => revAll.entry.mtime \in Nat
      /\ \A t \in RevThreads : revOp[t].stat \in Nat /\ revOp[t].seen \in Nat
  BY <1>0, RevNoneIsNone DEF RevData, RevRequests, RevOps, MaybeEntry, Times
<1>4. TimesGrow'
  <2>1. \A n \in RevMods : /\ revFile'[n].mtime < revClock'
                           /\ revTable[n] # RevNone => revTable[n].mtime < revClock'
                           /\ revMeta[n] # RevNone => revMeta[n].mtime < revClock'
    BY <1>0, <1>1, <1>2, <1>3 DEF TimesGrow
  <2>2. revAll.entry # RevNone => revAll.entry.mtime < revClock'
    BY <1>0, <1>1, <1>3 DEF TimesGrow
  <2>3. ASSUME NEW n \in RevMods, NEW q \in RevMods, n # q, revFile'[n].mtime = revFile'[q].mtime
        PROVE  revFile'[n].mtime = 0
    <3>1. n # m /\ q # m
      BY <1>0, <1>1, <1>2, <1>3, <2>3 DEF TimesGrow
    <3> QED BY <1>0, <1>2, <2>3, <3>1 DEF TimesGrow
  <2> QED BY <2>1, <2>2, <2>3 DEF TimesGrow, revCaches, revPrints
<1>5. ASSUME NEW e, e # RevNone => e.mtime \in Nat /\ e.mtime < revClock, NEW n \in RevMods,
             Honest(e, revFile[n])
      PROVE  Honest(e, revFile'[n])
  <2>1. CASE n = m
    BY <1>1, <1>2, <1>5, <2>1 DEF Honest, Fresh
  <2>2. CASE n # m
    BY <1>2, <1>5, <2>2
  <2> QED BY <2>1, <2>2
<1>6. CacheHitIsCurrent'
  <2>1. \A n \in RevMods : Honest(revTable[n], revFile'[n]) /\ Honest(revMeta[n], revFile'[n])
    BY <1>0, <1>3, <1>5 DEF TimesGrow, CacheHitIsCurrent
  <2>2. revAll.valid => Honest(revAll.entry, revFile'[revAll.dir])
    <3>1. revAll.valid => revAll.dir \in RevMods /\ Honest(revAll.entry, revFile[revAll.dir])
      BY <1>0 DEF RevData, CacheHitIsCurrent
    <3> QED BY <1>0, <1>3, <1>5, <3>1 DEF TimesGrow
  <2> QED BY <2>1, <2>2 DEF CacheHitIsCurrent, revCaches, revPrints
<1>7. ASSUME NEW t \in T PROVE Holds(revPc[t], revOp[t])'
  <2>1. revOp[t].stat < revClock /\ revOp[t].seen < revClock /\ Holds(revPc[t], revOp[t])
    BY DEF CachesInv, Holds
  <2>2. revOp[t].stat < revClock' /\ revOp[t].seen < revClock'
    BY <1>0, <1>1, <1>3, <2>1
  <2>3. revPc[t] # "idle" => revOp[t].path \in RevMods
    BY <1>0 DEF RevRequests, Fits
  <2>4. revPc[t] \in {"store", "allInstall"} =>
          Honest(Entry(revOp[t].stat, revOp[t].got), revFile'[revOp[t].path])
    <3>1. Entry(revOp[t].stat, revOp[t].got).mtime = revOp[t].stat
      BY DEF Entry
    <3> QED BY <1>3, <1>5, <2>1, <2>3, <3>1 DEF Holds
  <2>5. revPc[t] \in {"seed", "refresh"} =>
          /\ revFile'[revOp[t].path].bytes = revOp[t].got
          /\ revFile'[revOp[t].path].mtime = revOp[t].stat
          /\ revOp[t].stat > 0
    BY <1>2, <2>1, <2>3 DEF Holds
  <2> QED BY <2>2, <2>4, <2>5 DEF Holds
<1> QED BY <1>0, <1>1, <1>2, <1>4, <1>6, <1>7

\* A step that writes no file: the entries it stores must be honest.
LEMMA DiskRests ==
    ASSUME CachesInv, RevShape', UNCHANGED revDisk, NEW t \in RevThreads,
           \A u \in RevThreads \ {t} : revPc'[u] = revPc[u] /\ revOp'[u] = revOp[u],
           revOp'[t].kind = "put" => revOp'[t].rev # RevNone,
           \A c \in RevClients : revClientRev'[c] # RevNone,
           Holds(revPc'[t], revOp'[t]),
           \A m \in RevMods :
             /\ revTable'[m] # revTable[m] =>
                  revTable'[m].mtime < revClock /\ Honest(revTable'[m], revFile[m])
             /\ revMeta'[m] \notin {RevNone, revMeta[m]} =>
                  revMeta'[m].mtime < revClock /\ Honest(revMeta'[m], revFile[m]),
           \/ revAll' = revAll
           \/ ~revAll'.valid /\ revAll'.entry = revAll.entry
           \/ revAll'.entry.mtime < revClock /\ Honest(revAll'.entry, revFile[revAll'.dir])
    PROVE  CachesInv'
<1>0. UNCHANGED <<revFile, revClock>>
  BY DEF revDisk
<1>1. TimesGrow'
  BY <1>0 DEF CachesInv, TimesGrow
<1>2. CacheHitIsCurrent'
  BY <1>0 DEF CachesInv, CacheHitIsCurrent, Honest, Fresh
<1>3. \A u \in RevThreads : Holds(revPc[u], revOp[u])'
  BY <1>0 DEF CachesInv, Holds
<1>4. NobodyIsBlind'
  BY DEF CachesInv, NobodyIsBlind
<1> QED BY <1>1, <1>2, <1>3, <1>4 DEF CachesInv

\* A request that ends holds nothing any more.
LEMMA EndsHold ==
    ASSUME CachesInv, NEW t \in RevThreads, Finish(t)
    PROVE  /\ \A u \in RevThreads \ {t} : revPc'[u] = revPc[u] /\ revOp'[u] = revOp[u]
           /\ revPc'[t] = "idle" /\ revOp'[t] = NoOperation
           /\ revOp'[t].kind = "none" /\ Holds(revPc'[t], revOp'[t])
<1>1. revClock \in Nat /\ revClock > 0
  BY RevNoneIsNone DEF CachesInv, RevShape, RevData
<1>2. NoOperation.stat = 0 /\ NoOperation.seen = 0
  BY DEF NoOperation
<1>3. /\ \A u \in RevThreads \ {t} : revPc'[u] = revPc[u] /\ revOp'[u] = revOp[u]
      /\ revPc'[t] = "idle" /\ revOp'[t] = NoOperation
  BY DEF CachesInv, RevShape, RevRequests, Finish, RevGoto
<1> QED BY <1>1, <1>2, <1>3, NoOperationIsOne DEF Holds

\* Every step keeps the caches honest.
LEMMA CachesInvNext ==
    ASSUME "seed" \notin RevFaults
    PROVE  CachesInv /\ [RevNext]_revVars => CachesInv'
<1> SUFFICES ASSUME CachesInv, [RevNext]_revVars PROVE CachesInv'
  OBVIOUS
<1>0. /\ RevShape /\ RevShape' /\ RevData /\ RevRequests
      /\ TimesGrow /\ NobodyIsBlind /\ CacheHitIsCurrent
      /\ \A c \in RevClients : revClientRev[c] # RevNone
      /\ revClock \in Nat /\ revClock > 0
  BY RevShapeNext, RevNoneIsNone DEF CachesInv, RevShape, RevData, NobodyIsBlind
<1>1. CASE UNCHANGED revVars
  <2>1. TimesGrow' /\ NobodyIsBlind' /\ CacheHitIsCurrent'
    BY <1>0, <1>1 DEF revVars, revDisk, revCaches, revPrints, revReq, TimesGrow, NobodyIsBlind,
                      CacheHitIsCurrent, Honest, Fresh
  <2>2. \A t \in RevThreads : Holds(revPc[t], revOp[t])'
    BY <1>1 DEF revVars, revDisk, revReq, CachesInv, Holds
  <2> QED BY <1>0, <2>1, <2>2 DEF CachesInv
<1>2. CASE SelectMod
  <2>0. /\ UNCHANGED <<revFile, revClock, revTable, revMeta, revClientRev, revPc, revOp>>
        /\ ~revAll'.valid /\ revAll'.entry = revAll.entry
    BY <1>0, <1>2 DEF SelectMod, revDisk, revPrints, revReq, RevData
  <2>1. TimesGrow' /\ NobodyIsBlind' /\ CacheHitIsCurrent'
    BY <1>0, <2>0 DEF TimesGrow, NobodyIsBlind, CacheHitIsCurrent, Honest, Fresh
  <2>2. \A t \in RevThreads : Holds(revPc[t], revOp[t])'
    BY <2>0 DEF CachesInv, Holds
  <2> QED BY <1>0, <2>1, <2>2 DEF CachesInv
<1>3. CASE OutsideEdit
  <2>1. PICK m \in RevMods : ~Unsettled(m) /\ Overwrite(m, revClock, "outside")
    BY <1>3 DEF OutsideEdit
  <2>2. /\ UNCHANGED <<revCaches, revPrints, revClientRev, revPc, revOp>>
        /\ revClock <= RevMaxWrites
    BY <1>3 DEF OutsideEdit, revReq
  <2>3. revClock \in Times
    BY <1>0, <2>2, RevNoneIsNone DEF Times
  <2>4. \A t \in RevThreads : ~(revOp[t].path = m /\ revPc[t] \in {"seed", "refresh"})
    BY <2>1 DEF Unsettled
  <2>5. /\ TimesGrow' /\ CacheHitIsCurrent'
        /\ \A t \in RevThreads : Holds(revPc[t], revOp[t])'
    BY <1>0, <2>1, <2>2, <2>3, <2>4, WriteOutdates
  <2>6. NobodyIsBlind'
    BY <1>0, <2>2 DEF NobodyIsBlind
  <2> QED BY <1>0, <2>5, <2>6 DEF CachesInv
<1>4. ASSUME NEW t \in RevThreads
      PROVE  /\ revOp[t] \in RevOps /\ revPc[t] \in RevPcs
             /\ Fits(t, revPc[t], revOp[t], revGate) /\ Holds(revPc[t], revOp[t])
             /\ revOp[t].kind = "put" => revOp[t].rev # RevNone
             /\ revOp[t].stat \in Nat /\ revOp[t].seen \in Nat
             /\ revOp[t].stat < revClock /\ revOp[t].seen < revClock
             /\ \A m \in RevMods : /\ revFile[m].mtime \in Nat /\ revFile[m].mtime < revClock
                                   /\ revFile[m].bytes \in Times
  BY <1>0, RevNoneIsNone
     DEF CachesInv, RevRequests, RevData, RevOps, Times, NobodyIsBlind, TimesGrow, Holds
\* A step that neither writes files nor stores entries.
<1>5. ASSUME NEW t \in RevThreads,
             UNCHANGED <<revDisk, revTable, revAll, revMeta>>,
             \A u \in RevThreads \ {t} : revPc'[u] = revPc[u] /\ revOp'[u] = revOp[u],
             revOp'[t].kind = "put" => revOp'[t].rev # RevNone,
             \A c \in RevClients : revClientRev'[c] # RevNone,
             Holds(revPc'[t], revOp'[t])
      PROVE  CachesInv'
  BY <1>0, <1>5, DiskRests
\* A front end adopts no missing revision.
<1>6. ASSUME NEW t \in RevThreads, NEW r, Adopt(t, r)
      PROVE  \A c \in RevClients : revClientRev'[c] # RevNone
  BY <1>0, <1>6 DEF Adopt, RevData
\* The local variables after one of them is set.
<1>7. ASSUME NEW t \in RevThreads, Arrive(t) PROVE CachesInv'
  <2>1. PICK k \in RevKinds \ {"select"} :
          LET rev == IF k = "put" THEN revClientRev[RevClient[t]] ELSE RevNone IN
          /\ revOp' = [revOp EXCEPT ![t] = [NoOperation EXCEPT !.kind = k, !.rev = rev,
                                                               !.path = revMod]]
          /\ RevGoto(t, FirstStep(k, rev))
    BY <1>7 DEF Arrive
  <2>2. PICK rev : rev = IF k = "put" THEN revClientRev[RevClient[t]] ELSE RevNone
    OBVIOUS
  <2>3. PICK o : o = [NoOperation EXCEPT !.kind = k, !.rev = rev, !.path = revMod]
    OBVIOUS
  <2>4. o.kind = k /\ o.rev = rev /\ o.stat = 0 /\ o.seen = 0
    BY <2>3 DEF NoOperation
  <2>5. PICK l : l = FirstStep(k, rev)
    OBVIOUS
  <2>6. l \in {"stat", "allStat", "root", "write", "pollRoot"}
    BY <2>5, RevConstants DEF FirstStep, RevAllKinds
  <2>7. /\ \A u \in RevThreads \ {t} : revPc'[u] = revPc[u] /\ revOp'[u] = revOp[u]
        /\ revPc'[t] = l /\ revOp'[t] = o
    BY <1>0, <2>1, <2>2, <2>3, <2>5 DEF RevRequests, RevGoto
  <2>8. Holds(l, o)
    BY <1>0, <2>4, <2>6 DEF Holds
  <2>9. o.kind = "put" => o.rev # RevNone
    BY <1>0, <2>2, <2>4 DEF RevClients
  <2> QED BY <1>0, <1>5, <1>7, <2>7, <2>8, <2>9 DEF Arrive, revCaches, revPrints
\* A request ends, keeping what is stored.
<1>8. ASSUME NEW t \in RevThreads, Finish(t), UNCHANGED <<revDisk, revTable, revAll, revMeta>>,
             \A c \in RevClients : revClientRev'[c] # RevNone
      PROVE  CachesInv'
  BY <1>5, <1>8, EndsHold
\* A request goes on, keeping what is stored and the kind and revision of it.
<1>9. ASSUME NEW t \in RevThreads, NEW l, NEW o, RevGoto(t, l), revOp' = [revOp EXCEPT ![t] = o],
             o.kind = revOp[t].kind, o.rev = revOp[t].rev,
             UNCHANGED <<revDisk, revTable, revAll, revMeta, revClientRev>>, Holds(l, o)
      PROVE  CachesInv'
  <2>1. /\ \A u \in RevThreads \ {t} : revPc'[u] = revPc[u] /\ revOp'[u] = revOp[u]
        /\ revPc'[t] = l /\ revOp'[t] = o
    BY <1>0, <1>9 DEF RevRequests, RevGoto
  <2> QED BY <1>0, <1>4, <1>5, <1>9, <2>1
\* The same with the local variables as they are.
<1>10. ASSUME NEW t \in RevThreads, NEW l, RevGoto(t, l), UNCHANGED revOp,
              l \notin {"store", "allInstall", "seed", "refresh"},
              UNCHANGED <<revDisk, revTable, revAll, revMeta, revClientRev>>
       PROVE  CachesInv'
  <2>1. revOp' = [revOp EXCEPT ![t] = revOp[t]]
    BY <1>0, <1>10 DEF RevRequests
  <2>2. Holds(l, revOp[t])
    BY <1>4, <1>10 DEF Holds
  <2> QED BY <1>9, <1>10, <2>1, <2>2
<1>11. ASSUME NEW t \in RevThreads, StatTable(t) \/ StatAll(t) PROVE CachesInv'
  <2>0. UNCHANGED <<revDisk, revTable, revAll, revMeta, revClientRev>>
    BY <1>11 DEF StatTable, StatAll, revCaches, revPrints
  <2>1. CASE Finish(t)
    BY <1>0, <1>8, <2>0, <2>1
  <2>2. CASE RevGoto(t, "write") /\ UNCHANGED revOp
    BY <1>10, <2>0, <2>2
  <2>3. ASSUME NEW l \in {"read", "allRead"}, RevGoto(t, l),
               Local(t, "stat", revFile[revOp[t].path].mtime)
        PROVE  CachesInv'
    <3>1. PICK o : o = [revOp[t] EXCEPT !.stat = revFile[revOp[t].path].mtime]
      OBVIOUS
    <3>2. revOp[t].path \in RevMods
      BY <1>4, <1>11 DEF StatTable, StatAll, At, Fits
    <3>3. o.stat = revFile[revOp[t].path].mtime /\ o.seen = revOp[t].seen
          /\ o.kind = revOp[t].kind /\ o.rev = revOp[t].rev
      BY <1>4, <3>1 DEF RevOps
    <3>4. Holds(l, o)
      BY <1>4, <3>2, <3>3 DEF Holds
    <3>5. revOp' = [revOp EXCEPT ![t] = o]
      BY <2>3, <3>1 DEF Local
    <3> QED BY <1>9, <2>0, <2>3, <3>3, <3>4, <3>5
  <2> QED BY <1>11, <2>1, <2>2, <2>3 DEF StatTable, StatAll, AfterLoad
<1>12. ASSUME NEW t \in RevThreads, ReadTable(t) \/ ReadAll(t) PROVE CachesInv'
  <2>0. UNCHANGED <<revDisk, revTable, revAll, revMeta, revClientRev>>
        /\ Local(t, "got", revFile[revOp[t].path].bytes)
    BY <1>12 DEF ReadTable, ReadAll, revCaches, revPrints
  <2>1. PICK l \in {"store", "allInstall"} : RevGoto(t, l)
    BY <1>12 DEF ReadTable, ReadAll
  <2>2. PICK o : o = [revOp[t] EXCEPT !.got = revFile[revOp[t].path].bytes]
    OBVIOUS
  <2>3. o.got = revFile[revOp[t].path].bytes /\ o.stat = revOp[t].stat /\ o.seen = revOp[t].seen
        /\ o.kind = revOp[t].kind /\ o.rev = revOp[t].rev /\ o.path = revOp[t].path
    BY <1>4, <2>2 DEF RevOps
  <2>4. Holds(l, o)
    BY <1>4, <2>1, <2>3 DEF Holds, Honest, Entry
  <2>5. revOp' = [revOp EXCEPT ![t] = o]
    BY <2>0, <2>2 DEF Local
  <2> QED BY <1>9, <2>0, <2>1, <2>3, <2>4, <2>5
<1>13. ASSUME NEW t \in RevThreads, StoreTable(t) PROVE CachesInv'
  <2>0. /\ UNCHANGED <<revDisk, revAll, revMeta, revClientRev>>
        /\ revOp[t].path \in RevMods /\ AfterLoad(t)
        /\ revTable' = [revTable EXCEPT ![revOp[t].path] = Entry(revOp[t].stat, revOp[t].got)]
    BY <1>4, <1>13 DEF StoreTable, StoredPrint, At, Fits, revPrints
  <2>1. /\ Honest(Entry(revOp[t].stat, revOp[t].got), revFile[revOp[t].path])
        /\ Entry(revOp[t].stat, revOp[t].got).mtime < revClock
    BY <1>4, <1>13 DEF StoreTable, At, Holds, Entry
  <2>2. /\ \A u \in RevThreads \ {t} : revPc'[u] = revPc[u] /\ revOp'[u] = revOp[u]
        /\ revOp'[t].kind = "put" => revOp'[t].rev # RevNone
        /\ Holds(revPc'[t], revOp'[t])
    <3>1. CASE Finish(t)
      BY <3>1, EndsHold
    <3>2. CASE RevGoto(t, "write") /\ UNCHANGED revOp
      <4>1. /\ \A u \in RevThreads \ {t} : revPc'[u] = revPc[u] /\ revOp'[u] = revOp[u]
            /\ revPc'[t] = "write" /\ revOp'[t] = revOp[t]
        BY <1>0, <3>2 DEF RevGoto, RevRequests
      <4> QED BY <1>4, <4>1 DEF Holds
    <3> QED BY <2>0, <3>1, <3>2 DEF AfterLoad
  <2>3. \A m \in RevMods : revTable'[m] # revTable[m] =>
          revTable'[m].mtime < revClock /\ Honest(revTable'[m], revFile[m])
    <3> TAKE m \in RevMods
    <3>1. CASE m = revOp[t].path
      BY <1>0, <2>0, <2>1, <3>1 DEF RevData
    <3>2. CASE m # revOp[t].path
      BY <1>0, <2>0, <3>2 DEF RevData
    <3> QED BY <3>1, <3>2
  <2> QED BY <1>0, <2>0, <2>2, <2>3, DiskRests
<1>14. ASSUME NEW t \in RevThreads, InstallAll(t) PROVE CachesInv'
  <2>0. /\ UNCHANGED <<revDisk, revTable, revMeta, revClientRev>> /\ Finish(t)
        /\ revAll'.dir = revOp[t].path
        /\ revAll'.entry = Entry(revOp[t].stat, revOp[t].got)
    BY <1>14 DEF InstallAll, revPrints
  <2>1. /\ Honest(Entry(revOp[t].stat, revOp[t].got), revFile[revOp[t].path])
        /\ Entry(revOp[t].stat, revOp[t].got).mtime < revClock
    BY <1>4, <1>14 DEF InstallAll, At, Holds, Entry
  <2>2. revAll'.entry.mtime < revClock /\ Honest(revAll'.entry, revFile[revAll'.dir])
    BY <2>0, <2>1
  <2> QED BY <1>0, <2>0, <2>2, EndsHold, DiskRests
\* The workspace fingerprint gets another root: it forgets.
<1>15. ASSUME NEW t \in RevThreads, NEW m, SetRoot(m),
              UNCHANGED <<revDisk, revTable, revAll, revClientRev>>,
              NEW l, NEW o, RevGoto(t, l), revOp' = [revOp EXCEPT ![t] = o],
              o.kind = revOp[t].kind, o.rev = revOp[t].rev, Holds(l, o)
       PROVE  CachesInv'
  <2>1. /\ \A u \in RevThreads \ {t} : revPc'[u] = revPc[u] /\ revOp'[u] = revOp[u]
        /\ revPc'[t] = l /\ revOp'[t] = o
    BY <1>0, <1>15 DEF RevRequests, RevGoto
  <2>2. \A n \in RevMods : revMeta'[n] \in {RevNone, revMeta[n]}
    BY <1>0, <1>15 DEF SetRoot, RevData
  <2> QED BY <1>0, <1>4, <1>15, <2>1, <2>2, DiskRests
<1>16. ASSUME NEW t \in RevThreads, PollSet(t) PROVE CachesInv'
  <2>1. revOp' = [revOp EXCEPT ![t] = revOp[t]]
    BY <1>0, <1>16 DEF RevRequests, PollSet
  <2>2. Holds("print", revOp[t])
    BY <1>4 DEF Holds
  <2> QED BY <1>15, <1>16, <2>1, <2>2 DEF PollSet, revCaches
<1>17. ASSUME NEW t \in RevThreads, EnterGate(t) PROVE CachesInv'
  <2>1. PICK o : o = [revOp[t] EXCEPT !.checking = TRUE]
    OBVIOUS
  <2>2. o.stat = revOp[t].stat /\ o.seen = revOp[t].seen
        /\ o.kind = revOp[t].kind /\ o.rev = revOp[t].rev
    BY <1>4, <2>1 DEF RevOps
  <2>3. Holds("print", o)
    BY <1>4, <2>2 DEF Holds
  <2>4. revOp' = [revOp EXCEPT ![t] = o]
    BY <1>17, <2>1 DEF EnterGate, Local
  <2> QED BY <1>15, <1>17, <2>2, <2>3, <2>4 DEF EnterGate, revCaches
<1>18. ASSUME NEW t \in RevThreads, PollRoot(t) \/ ReadRoot(t) PROVE CachesInv'
  <2>1. PICK o : o = [revOp[t] EXCEPT !.root = revMod]
    OBVIOUS
  <2>2. o.stat = revOp[t].stat /\ o.seen = revOp[t].seen
        /\ o.kind = revOp[t].kind /\ o.rev = revOp[t].rev
    BY <1>4, <2>1 DEF RevOps
  <2>3. Holds("gate", o) /\ Holds("pollSet", o)
    BY <1>4, <2>2 DEF Holds
  <2>4. revOp' = [revOp EXCEPT ![t] = o]
    BY <1>18, <2>1 DEF PollRoot, ReadRoot, Local
  <2> QED BY <1>9, <1>18, <2>2, <2>3, <2>4 DEF PollRoot, ReadRoot, revCaches, revPrints
<1>19. ASSUME NEW t \in RevThreads, PrintStat(t) PROVE CachesInv'
  <2>1. PICK l \in {"publish", "hash"} : \E o :
          /\ revOp' = [revOp EXCEPT ![t] = o] /\ RevGoto(t, l)
          /\ o.stat # revOp[t].stat => revRoot \in RevMods /\ o.stat = revFile[revRoot].mtime
          /\ o.seen = revOp[t].seen /\ o.kind = revOp[t].kind /\ o.rev = revOp[t].rev
    <3>1. CASE Local(t, "got", RevNone) /\ RevGoto(t, "publish")
      <4>1. PICK o : o = [revOp[t] EXCEPT !.got = RevNone]
        OBVIOUS
      <4>2. revOp' = [revOp EXCEPT ![t] = o]
        BY <3>1, <4>1 DEF Local
      <4>3. o.stat = revOp[t].stat /\ o.seen = revOp[t].seen
            /\ o.kind = revOp[t].kind /\ o.rev = revOp[t].rev
        BY <1>4, <4>1 DEF RevOps
      <4> QED BY <3>1, <4>2, <4>3
    <3>2. ASSUME revRoot # RevNone, RevGoto(t, "publish"),
                 revOp' = [revOp EXCEPT ![t].stat = revFile[revRoot].mtime, ![t].root = revRoot,
                                        ![t].got = revMeta[revRoot].bytes]
          PROVE  \E o : /\ revOp' = [revOp EXCEPT ![t] = o]
                        /\ revRoot \in RevMods /\ o.stat = revFile[revRoot].mtime
                        /\ o.seen = revOp[t].seen /\ o.kind = revOp[t].kind
                        /\ o.rev = revOp[t].rev
      <4>1. PICK o : o = [revOp[t] EXCEPT !.stat = revFile[revRoot].mtime, !.root = revRoot,
                                          !.got = revMeta[revRoot].bytes]
        OBVIOUS
      <4>2. revOp' = [revOp EXCEPT ![t] = o]
        BY <1>0, <3>2, <4>1 DEF RevRequests, RevOps
      <4>3. o.stat = revFile[revRoot].mtime /\ o.seen = revOp[t].seen
            /\ o.kind = revOp[t].kind /\ o.rev = revOp[t].rev
        BY <1>4, <4>1 DEF RevOps
      <4> QED BY <1>0, <3>2, <4>2, <4>3 DEF RevData
    <3>3. ASSUME revRoot # RevNone, RevGoto(t, "hash"),
                 revOp' = [revOp EXCEPT ![t].stat = revFile[revRoot].mtime, ![t].root = revRoot]
          PROVE  \E o : /\ revOp' = [revOp EXCEPT ![t] = o]
                        /\ revRoot \in RevMods /\ o.stat = revFile[revRoot].mtime
                        /\ o.seen = revOp[t].seen /\ o.kind = revOp[t].kind
                        /\ o.rev = revOp[t].rev
      <4>1. PICK o : o = [revOp[t] EXCEPT !.stat = revFile[revRoot].mtime, !.root = revRoot]
        OBVIOUS
      <4>2. revOp' = [revOp EXCEPT ![t] = o]
        BY <1>0, <3>3, <4>1 DEF RevRequests, RevOps
      <4>3. o.stat = revFile[revRoot].mtime /\ o.seen = revOp[t].seen
            /\ o.kind = revOp[t].kind /\ o.rev = revOp[t].rev
        BY <1>4, <4>1 DEF RevOps
      <4> QED BY <1>0, <3>3, <4>2, <4>3 DEF RevData
    <3> QED BY <1>19, <3>1, <3>2, <3>3 DEF PrintStat
  <2>2. PICK o :
          /\ revOp' = [revOp EXCEPT ![t] = o] /\ RevGoto(t, l)
          /\ o.stat # revOp[t].stat => revRoot \in RevMods /\ o.stat = revFile[revRoot].mtime
          /\ o.seen = revOp[t].seen /\ o.kind = revOp[t].kind /\ o.rev = revOp[t].rev
    BY <2>1
  <2>3. Holds(l, o)
    BY <1>4, <2>1, <2>2 DEF Holds
  <2> QED BY <1>9, <1>19, <2>2, <2>3 DEF PrintStat, revCaches, revPrints
<1>20. ASSUME NEW t \in RevThreads, PrintHash(t) PROVE CachesInv'
  <2>0. /\ UNCHANGED <<revDisk, revTable, revAll, revClientRev>>
        /\ RevGoto(t, "publish") /\ revOp[t].root \in RevMods
    BY <1>4, <1>20 DEF PrintHash, revCaches, At, Fits
  <2>1. PICK m \in RevMods : m = revOp[t].root
    BY <2>0
  <2>2. PICK o : o = [revOp[t] EXCEPT !.got = revFile[m].bytes]
    OBVIOUS
  <2>3. revOp' = [revOp EXCEPT ![t] = o]
        /\ revMeta' = [revMeta EXCEPT ![m] = Entry(revOp[t].stat, revFile[m].bytes)]
    BY <1>20, <2>1, <2>2 DEF PrintHash, Local
  <2>4. o.stat = revOp[t].stat /\ o.seen = revOp[t].seen
        /\ o.kind = revOp[t].kind /\ o.rev = revOp[t].rev
    BY <1>4, <2>2 DEF RevOps
  <2>5. Holds("publish", o)
    BY <1>4, <2>4 DEF Holds
  <2>6. \A n \in RevMods : revMeta'[n] \notin {RevNone, revMeta[n]} =>
          revMeta'[n].mtime < revClock /\ Honest(revMeta'[n], revFile[n])
    <3> TAKE n \in RevMods
    <3>1. CASE n = m
      <4>1. revMeta'[n] = Entry(revOp[t].stat, revFile[m].bytes)
        BY <1>0, <2>3, <3>1 DEF RevData
      <4> QED BY <1>4, <3>1, <4>1 DEF Entry, Honest
    <3>2. CASE n # m
      BY <1>0, <2>3, <3>2 DEF RevData
    <3> QED BY <3>1, <3>2
  <2>7. /\ \A u \in RevThreads \ {t} : revPc'[u] = revPc[u] /\ revOp'[u] = revOp[u]
        /\ revPc'[t] = "publish" /\ revOp'[t] = o
    BY <1>0, <2>0, <2>3 DEF RevRequests, RevGoto
  <2> QED BY <1>0, <1>4, <2>0, <2>4, <2>5, <2>6, <2>7, DiskRests
<1>21. ASSUME NEW t \in RevThreads, Publish(t) PROVE CachesInv'
  <2>0. UNCHANGED <<revDisk, revTable, revAll, revMeta>>
    BY <1>21 DEF Publish, revCaches
  <2>1. \A c \in RevClients : revClientRev'[c] # RevNone
    BY <1>0, <1>6, <1>21 DEF Publish
  <2>2. CASE Finish(t)
    BY <1>8, <2>0, <2>1, <2>2
  <2>3. CASE Local(t, "seen", revOp[t].stat) /\ RevGoto(t, "stat") /\ UNCHANGED revClientRev
    <3>1. PICK o : o = [revOp[t] EXCEPT !.seen = revOp[t].stat]
      OBVIOUS
    <3>2. o.stat = revOp[t].stat /\ o.seen = revOp[t].stat
          /\ o.kind = revOp[t].kind /\ o.rev = revOp[t].rev
      BY <1>4, <3>1 DEF RevOps
    <3>3. Holds("stat", o)
      BY <1>4, <3>2 DEF Holds
    <3>4. revOp' = [revOp EXCEPT ![t] = o]
      BY <2>3, <3>1 DEF Local
    <3> QED BY <1>9, <2>0, <2>3, <3>2, <3>3, <3>4
  <2> QED BY <1>21, <2>2, <2>3 DEF Publish
\* Whoever writes has the gate, or it is free: no other save is unsettled.
<1>22. ASSUME NEW t \in RevThreads, revPc[t] = "write", revGate \in {RevNone, t},
              NEW u \in RevThreads
       PROVE  revPc[u] \notin {"seed", "refresh"}
  BY <1>4, <1>22, RevNoneIsNone DEF Fits
<1>23. ASSUME NEW t \in RevThreads, Write(t) PROVE CachesInv'
  <2>0. revOp[t].path \in RevMods /\ revPc[t] = "write" /\ revGate \in {RevNone, t}
        /\ UNCHANGED <<revCaches, revPrints, revClientRev>>
    BY <1>4, <1>23 DEF Write, At, Fits
  <2>1. CASE Finish(t) /\ UNCHANGED revDisk
    BY <1>0, <1>8, <2>0, <2>1 DEF revCaches, revPrints
  <2>2. CASE /\ revClock <= RevMaxWrites
             /\ Overwrite(revOp[t].path, revClock, "server")
             /\ revOp' = [revOp EXCEPT ![t].stat = revClock, ![t].got = revClock,
                                       ![t].checking = FALSE]
             /\ RevGoto(t, "seed")
    <3>1. PICK o : o = [revOp[t] EXCEPT !.stat = revClock, !.got = revClock, !.checking = FALSE]
      OBVIOUS
    <3>2. revOp' = [revOp EXCEPT ![t] = o]
      BY <1>0, <2>2, <3>1 DEF RevRequests, RevOps
    <3>3. o.stat = revClock /\ o.got = revClock /\ o.seen = revOp[t].seen
          /\ o.path = revOp[t].path /\ o.kind = revOp[t].kind /\ o.rev = revOp[t].rev
      BY <1>4, <3>1 DEF RevOps
    <3>4. /\ \A u \in RevThreads \ {t} : revPc'[u] = revPc[u] /\ revOp'[u] = revOp[u]
          /\ revPc'[t] = "seed" /\ revOp'[t] = o
      BY <1>0, <2>2, <3>2 DEF RevRequests, RevGoto
    <3>5. revClock \in Times
      BY <1>0, <2>2, RevNoneIsNone DEF Times
    <3>6. /\ TimesGrow' /\ CacheHitIsCurrent'
          /\ \A u \in RevThreads \ {t} : Holds(revPc[u], revOp[u])'
          /\ revFile'[revOp[t].path] = [bytes |-> revClock, mtime |-> revClock, by |-> "server"]
          /\ revClock' = revClock + 1
      <4>1. \A u \in RevThreads \ {t} :
              /\ revPc'[u] = revPc[u] /\ revOp'[u] = revOp[u]
              /\ ~(revOp[u].path = revOp[t].path /\ revPc[u] \in {"seed", "refresh"})
        BY <1>22, <2>0, <3>4
      <4>2. PICK b \in Times : b = revClock
        BY <3>5
      <4>3. PICK m \in RevMods : m = revOp[t].path
        BY <2>0
      <4>6. Overwrite(m, b, "server")
        BY <2>2, <4>2, <4>3
      <4>4. RevThreads \ {t} \in SUBSET RevThreads
        OBVIOUS
      <4>5. /\ TimesGrow' /\ CacheHitIsCurrent'
            /\ \A u \in RevThreads \ {t} : Holds(revPc[u], revOp[u])'
            /\ revClock' = revClock + 1
        <5>1. \A u \in RevThreads \ {t} :
                /\ revPc'[u] = revPc[u] /\ revOp'[u] = revOp[u]
                /\ ~(revOp[u].path = m /\ revPc[u] \in {"seed", "refresh"})
          BY <4>1, <4>3
        <5> QED BY <1>0, <2>0, <2>2, <4>4, <4>6, <5>1, WriteOutdates
      <4>7. revFile'[m] = [bytes |-> revClock, mtime |-> revClock, by |-> "server"]
        BY <1>0, <2>2, <4>3 DEF Overwrite, RevData
      <4> QED BY <4>3, <4>5, <4>7
    <3>7. Holds(revPc[t], revOp[t])'
      BY <1>0, <1>4, <3>3, <3>4, <3>6 DEF Holds
    <3>8. NobodyIsBlind'
      BY <1>0, <1>4, <2>0, <3>3, <3>4 DEF NobodyIsBlind
    <3> QED BY <1>0, <3>6, <3>7, <3>8 DEF CachesInv
  <2> QED BY <1>23, <2>1, <2>2 DEF Write
<1>24. ASSUME NEW t \in RevThreads, Revert(t) PROVE CachesInv'
  <2>0. revOp[t].path \in RevMods /\ revPc[t] = "write" /\ revGate \in {RevNone, t}
        /\ UNCHANGED <<revCaches, revPrints, revClientRev>>
    BY <1>4, <1>24 DEF Revert, At, Fits
  <2>1. CASE Finish(t) /\ UNCHANGED revDisk
    BY <1>0, <1>8, <2>0, <2>1 DEF revCaches, revPrints
  <2>2. ASSUME revClock <= RevMaxWrites, NEW b \in 0..(revClock - 1),
               Overwrite(revOp[t].path, b, "server"), RevGoto(t, "reverted"), UNCHANGED revOp
        PROVE  CachesInv'
    <3>1. b \in Times
      BY <1>0, <2>2, RevNoneIsNone DEF Times
    <3>2. /\ \A u \in RevThreads \ {t} : revPc'[u] = revPc[u] /\ revOp'[u] = revOp[u]
          /\ revPc'[t] = "reverted" /\ revOp'[t] = revOp[t]
      BY <1>0, <2>2 DEF RevGoto, RevRequests
    <3>3. /\ TimesGrow' /\ CacheHitIsCurrent'
          /\ \A u \in RevThreads \ {t} : Holds(revPc[u], revOp[u])'
          /\ revClock' = revClock + 1
      <4>1. \A u \in RevThreads \ {t} :
              /\ revPc'[u] = revPc[u] /\ revOp'[u] = revOp[u]
              /\ ~(revOp[u].path = revOp[t].path /\ revPc[u] \in {"seed", "refresh"})
        BY <1>22, <2>0, <3>2
      <4> QED BY <1>0, <2>0, <2>2, <3>1, <4>1, WriteOutdates
    <3>4. Holds(revPc[t], revOp[t])'
      BY <1>0, <1>4, <3>2, <3>3 DEF Holds
    <3>5. NobodyIsBlind'
      BY <1>0, <1>4, <2>0, <3>2 DEF NobodyIsBlind
    <3> QED BY <1>0, <3>3, <3>4, <3>5 DEF CachesInv
  <2> QED BY <1>24, <2>1, <2>2 DEF Revert
<1>25. ASSUME NEW t \in RevThreads, Seed(t) \/ Refresh(t)
       PROVE  /\ revOp[t].path \in RevMods
              /\ revFile[revOp[t].path].bytes = revOp[t].got
              /\ revFile[revOp[t].path].mtime = revOp[t].stat
              /\ revOp[t].stat > 0
  BY <1>4, <1>25 DEF Seed, Refresh, At, Fits, Holds
<1>26. ASSUME NEW t \in RevThreads, Seed(t) PROVE CachesInv'
  <2>0. UNCHANGED <<revDisk, revMeta, revClientRev>> /\ RevGoto(t, "refresh") /\ UNCHANGED revOp
    BY <1>26 DEF Seed, revPrints
  <2>1. PICK m \in RevMods : m = revOp[t].path
    BY <1>25, <1>26
  <2>2. PICK e : e = Entry(revOp[t].stat, revOp[t].got)
    OBVIOUS
  <2>3. /\ revTable' = [revTable EXCEPT ![m] = e]
        /\ revAll' = IF revAll.valid THEN [revAll EXCEPT !.entry = e] ELSE revAll
    BY <1>25, <1>26, <2>1, <2>2 DEF Seed
  <2>4. e.mtime = revFile[m].mtime /\ e.bytes = revFile[m].bytes /\ e.mtime > 0
    BY <1>25, <1>26, <2>1, <2>2 DEF Entry
  <2>5. \A n \in RevMods : Honest(e, revFile[n]) /\ e.mtime < revClock
    BY <1>0, <1>4, <2>1, <2>4 DEF TimesGrow, Honest, Fresh
  <2>6. \A n \in RevMods : revTable'[n] # revTable[n] =>
          revTable'[n].mtime < revClock /\ Honest(revTable'[n], revFile[n])
    BY <1>0, <2>3, <2>5 DEF RevData
  <2>7. \/ revAll' = revAll
        \/ revAll'.entry.mtime < revClock /\ Honest(revAll'.entry, revFile[revAll'.dir])
    <3>1. CASE revAll.valid
      <4>1. revAll'.entry = e /\ revAll'.dir \in RevMods
        BY <1>0, <2>3, <3>1 DEF RevData
      <4> QED BY <2>1, <2>5, <4>1
    <3> QED BY <2>3, <3>1
  <2>8. /\ \A u \in RevThreads \ {t} : revPc'[u] = revPc[u] /\ revOp'[u] = revOp[u]
        /\ revPc'[t] = "refresh" /\ revOp'[t] = revOp[t]
    BY <1>0, <2>0 DEF RevGoto, RevRequests
  <2>9. Holds("refresh", revOp[t])
    BY <1>4, <1>25, <1>26 DEF Holds
  <2> QED BY <1>0, <1>4, <2>0, <2>6, <2>7, <2>8, <2>9, DiskRests
<1>27. ASSUME NEW t \in RevThreads, Refresh(t) PROVE CachesInv'
  <2>0. UNCHANGED <<revDisk, revTable, revAll, revClientRev>> /\ RevGoto(t, "answer")
        /\ UNCHANGED revOp
    BY <1>27 DEF Refresh, revCaches
  <2>1. PICK m \in RevMods : m = revOp[t].path
    BY <1>25, <1>27
  <2>2. PICK e : e = Entry(revOp[t].stat, revOp[t].got)
    OBVIOUS
  <2>3. revMeta' = [revMeta EXCEPT ![m] = e]
    BY <1>25, <1>27, <2>1, <2>2 DEF Refresh
  <2>4. e.mtime = revFile[m].mtime /\ e.bytes = revFile[m].bytes
    BY <1>25, <1>27, <2>1, <2>2 DEF Entry
  <2>5. \A n \in RevMods : revMeta'[n] \notin {RevNone, revMeta[n]} =>
          revMeta'[n].mtime < revClock /\ Honest(revMeta'[n], revFile[n])
    BY <1>0, <1>4, <2>3, <2>4 DEF RevData, Honest
  <2>6. /\ \A u \in RevThreads \ {t} : revPc'[u] = revPc[u] /\ revOp'[u] = revOp[u]
        /\ revPc'[t] = "answer" /\ revOp'[t] = revOp[t]
    BY <1>0, <2>0 DEF RevGoto, RevRequests
  <2>7. Holds("answer", revOp[t])
    BY <1>4 DEF Holds
  <2> QED BY <1>0, <1>4, <2>0, <2>5, <2>6, <2>7, DiskRests
<1>28. ASSUME NEW t \in RevThreads, Answer(t) PROVE CachesInv'
  <2>0. UNCHANGED <<revDisk, revTable, revAll, revMeta>>
    BY <1>28 DEF Answer, revCaches, revPrints
  <2>1. CASE revCached.valid
    <3>1. \A c \in RevClients : revClientRev'[c] # RevNone
      BY <1>6, <1>28, <2>1 DEF Answer
    <3> QED BY <1>8, <1>28, <2>0, <2>1, <3>1 DEF Answer
  <2>2. CASE ~revCached.valid
    BY <1>10, <1>28, <2>0, <2>2 DEF Answer
  <2> QED BY <2>1, <2>2
<1>29. ASSUME NEW t \in RevThreads, Reverted(t) PROVE CachesInv'
  <2>0. /\ UNCHANGED <<revDisk, revTable, revMeta, revClientRev>> /\ Finish(t)
        /\ ~revAll'.valid /\ revAll'.entry = revAll.entry
    BY <1>0, <1>29 DEF Reverted, revPrints, RevData
  <2> QED BY <1>0, <2>0, EndsHold, DiskRests
<1> QED
  BY <1>1, <1>2, <1>3, <1>7, <1>11, <1>12, <1>13, <1>14, <1>16, <1>17, <1>18, <1>19, <1>20,
     <1>21, <1>23, <1>24, <1>26, <1>27, <1>28, <1>29 DEF RevNext, RevRequestStep

\* While every save names the revision it edits (no front end is "blind") and no
\* other program writes a table between a save's write and its refresh ("seed"),
\* a cache entry that looks current is: whatever reads, stores and writes come
\* between, of any number of requests (cfg_cache.cpp, revision_manager.cpp).
THEOREM CachesTellTheTruth ==
    ASSUME "seed" \notin RevFaults, "blind" \notin RevFaults
    PROVE  RevSpec => []CacheHitIsCurrent
<1>1. CachesInv => CacheHitIsCurrent
  BY DEF CachesInv
<1> QED BY <1>1, CachesInvInit, CachesInvNext, PTL DEF RevSpec

-----------------------------------------------------------------------------
(* Revisions and caches: no update is lost                                 *)

\* Table m holds the bytes b, or bytes from outside that are newer than s.
Left(m, b, s) ==
    \/ revFile[m].bytes = b
    \/ revFile[m].by = "outside" /\ revFile[m].mtime > s

\* While a save is being judged there is a root, and what it compared, or is about
\* to, is what the table of the mod it looked at holds.
Looked(l, o) ==
    /\ o.checking => revRoot # RevNone
    /\ o.checking /\ l = "publish" => o.root \in RevMods /\ Left(o.root, o.got, o.stat)
    /\ o.checking /\ l \in {"stat", "read", "store", "write"} =>
         o.root \in RevMods /\ Left(o.root, o.rev, o.seen)

SavesInv == CachesInv /\ \A t \in RevThreads : Looked(revPc[t], revOp[t])

\* Nobody is being judged at the start.
LEMMA SavesInvInit == ASSUME "blind" \notin RevFaults PROVE RevInit => SavesInv
<1> SUFFICES ASSUME RevInit PROVE SavesInv
  OBVIOUS
<1>1. \A t \in RevThreads : Looked(revPc[t], revOp[t])
  BY NoOperationIsOne DEF RevInit, Looked
<1> QED BY <1>1, CachesInvInit DEF SavesInv

\* A step of one request that writes no file and does not take the root away.
LEMMA JudgesUndisturbed ==
    ASSUME SavesInv, CachesInv', NEW t \in RevThreads, UNCHANGED revFile,
           revRoot # RevNone => revRoot' # RevNone,
           \A u \in RevThreads \ {t} : revPc'[u] = revPc[u] /\ revOp'[u] = revOp[u],
           Looked(revPc[t], revOp[t])'
    PROVE  SavesInv'
<1>1. ASSUME NEW u \in RevThreads \ {t} PROVE Looked(revPc[u], revOp[u])'
  BY <1>1 DEF SavesInv, Looked, Left
<1> QED BY <1>1 DEF SavesInv

\* A request whose own save is not judged after the step.
LEMMA NotJudged ==
    ASSUME SavesInv, CachesInv', NEW t \in RevThreads,
           UNCHANGED <<revFile, revRoot>>,
           \A u \in RevThreads \ {t} : revPc'[u] = revPc[u] /\ revOp'[u] = revOp[u],
           ~revOp'[t].checking
    PROVE  SavesInv'
<1>1. Looked(revPc[t], revOp[t])'
  BY DEF Looked
<1> QED BY <1>1, JudgesUndisturbed

\* A write of a table under nobody's verdict, or from outside.
LEMMA WriteSeen ==
    ASSUME SavesInv, NEW m \in RevMods, NEW b, NEW w, Overwrite(m, b, w),
           UNCHANGED revRoot, NEW u \in RevThreads,
           revPc'[u] = revPc[u], revOp'[u] = revOp[u],
           ~revOp[u].checking \/ w = "outside"
    PROVE  Looked(revPc[u], revOp[u])'
<1>1. revFile' = [revFile EXCEPT ![m] = [bytes |-> b, mtime |-> revClock, by |-> w]]
  BY DEF Overwrite
<1>2. Looked(revPc[u], revOp[u]) /\ revOp[u].stat < revClock /\ revOp[u].seen < revClock
  BY DEF SavesInv, CachesInv, Holds
<1>3. CASE ~revOp[u].checking
  BY <1>2, <1>3 DEF Looked
<1>4. CASE w = "outside"
  <2>1. revOp[u].stat \in Nat /\ revOp[u].seen \in Nat /\ revClock \in Nat
    BY RevNoneIsNone DEF SavesInv, CachesInv, RevShape, RevRequests, RevData, RevOps, Times
  <2>2. ASSUME NEW c, NEW s \in Nat, s < revClock, revOp[u].root \in RevMods,
               Left(revOp[u].root, c, s)
        PROVE  Left(revOp[u].root, c, s)'
    <3>1. CASE revOp[u].root = m
      <4>1. revFile'[m].by = "outside" /\ revFile'[m].mtime = revClock
        BY <1>1, <1>4 DEF SavesInv, CachesInv, RevShape, RevData
      <4> QED BY <2>1, <2>2, <3>1, <4>1 DEF Left
    <3>2. CASE revOp[u].root # m
      <4>1. revFile'[revOp[u].root] = revFile[revOp[u].root]
        BY <1>1, <2>2, <3>2 DEF SavesInv, CachesInv, RevShape, RevData
      <4> QED BY <2>2, <4>1 DEF Left
    <3> QED BY <3>1, <3>2
  <2> QED BY <1>2, <1>3, <2>1, <2>2 DEF Looked, Left
<1> QED BY <1>3, <1>4

\* Every step keeps the verdicts: one case per action.
LEMMA SavesInvNext ==
    ASSUME "seed" \notin RevFaults
    PROVE  SavesInv /\ [RevNext]_revVars => SavesInv'
<1> SUFFICES ASSUME SavesInv, [RevNext]_revVars PROVE SavesInv'
  OBVIOUS
<1>0. CachesInv /\ CachesInv' /\ RevData /\ RevRequests /\ CacheHitIsCurrent
  BY CachesInvNext DEF SavesInv, CachesInv, RevShape
<1>1. CASE UNCHANGED revVars
  <2>1. \A t \in RevThreads : Looked(revPc[t], revOp[t])'
    BY <1>1 DEF revVars, revDisk, revPrints, revReq, SavesInv, Looked, Left
  <2> QED BY <1>0, <2>1 DEF SavesInv
<1>2. CASE SelectMod
  <2>1. UNCHANGED <<revFile, revRoot, revPc, revOp>>
    BY <1>2 DEF SelectMod, revDisk, revPrints, revReq
  <2>2. \A t \in RevThreads : Looked(revPc[t], revOp[t])'
    BY <2>1 DEF SavesInv, Looked, Left
  <2> QED BY <1>0, <2>2 DEF SavesInv
<1>3. CASE OutsideEdit
  <2>1. /\ UNCHANGED <<revRoot, revPc, revOp>>
        /\ \E m \in RevMods : Overwrite(m, revClock, "outside")
    BY <1>3 DEF OutsideEdit, revPrints, revReq
  <2>2. \A t \in RevThreads : Looked(revPc[t], revOp[t])'
    BY <2>1, WriteSeen
  <2> QED BY <1>0, <2>2 DEF SavesInv
<1>4. ASSUME NEW t \in RevThreads
      PROVE  /\ revOp[t] \in RevOps /\ revPc[t] \in RevPcs
             /\ Fits(t, revPc[t], revOp[t], revGate) /\ Looked(revPc[t], revOp[t])
             /\ revOp[t].checking \in BOOLEAN
  BY <1>0 DEF SavesInv, RevRequests, RevOps
\* A request ends.
<1>5. ASSUME NEW t \in RevThreads, Finish(t), UNCHANGED <<revFile, revRoot>>
      PROVE  SavesInv'
  <2>1. /\ \A u \in RevThreads \ {t} : revPc'[u] = revPc[u] /\ revOp'[u] = revOp[u]
        /\ revPc'[t] = "idle" /\ revOp'[t] = NoOperation
    BY <1>0, <1>5, EndsHold
  <2> QED BY <1>0, <1>5, <2>1, NoOperationIsOne, NotJudged
\* A request whose save is not judged goes on.
<1>6. ASSUME NEW t \in RevThreads, UNCHANGED <<revFile, revRoot>>,
             NEW l, NEW o, RevGoto(t, l), revOp' = [revOp EXCEPT ![t] = o],
             ~o.checking
      PROVE  SavesInv'
  <2>1. /\ \A u \in RevThreads \ {t} : revPc'[u] = revPc[u] /\ revOp'[u] = revOp[u]
        /\ revPc'[t] = l /\ revOp'[t] = o
    BY <1>0, <1>6 DEF RevRequests, RevGoto
  <2> QED BY <1>0, <1>6, <2>1, NotJudged
\* Any other request goes on.
<1>7. ASSUME NEW t \in RevThreads, UNCHANGED <<revFile, revRoot>>,
             NEW l, NEW o, RevGoto(t, l), revOp' = [revOp EXCEPT ![t] = o], Looked(l, o)
      PROVE  SavesInv'
  <2>1. /\ \A u \in RevThreads \ {t} : revPc'[u] = revPc[u] /\ revOp'[u] = revOp[u]
        /\ revPc'[t] = l /\ revOp'[t] = o
    BY <1>0, <1>7 DEF RevRequests, RevGoto
  <2>2. Looked(revPc[t], revOp[t])'
    BY <1>7, <2>1 DEF Looked, Left
  <2> QED BY <1>0, <1>7, <2>1, <2>2, JudgesUndisturbed
<1>8. ASSUME NEW t \in RevThreads, NEW l, RevGoto(t, l), UNCHANGED revOp
      PROVE  revOp' = [revOp EXCEPT ![t] = revOp[t]]
  BY <1>0, <1>8 DEF RevRequests
<1>9. ASSUME NEW t \in RevThreads, Arrive(t) PROVE SavesInv'
  <2>1. PICK k \in RevKinds \ {"select"} :
          LET rev == IF k = "put" THEN revClientRev[RevClient[t]] ELSE RevNone IN
          /\ revOp' = [revOp EXCEPT ![t] = [NoOperation EXCEPT !.kind = k, !.rev = rev,
                                                               !.path = revMod]]
          /\ RevGoto(t, FirstStep(k, rev))
    BY <1>9 DEF Arrive
  <2>2. PICK rev : rev = IF k = "put" THEN revClientRev[RevClient[t]] ELSE RevNone
    OBVIOUS
  <2>3. PICK o : o = [NoOperation EXCEPT !.kind = k, !.rev = rev, !.path = revMod]
    OBVIOUS
  <2>4. ~o.checking
    BY <2>3 DEF NoOperation
  <2>5. RevGoto(t, FirstStep(k, rev)) /\ revOp' = [revOp EXCEPT ![t] = o]
    BY <2>1, <2>2, <2>3
  <2> QED BY <1>6, <1>9, <2>4, <2>5 DEF Arrive, revDisk, revPrints
\* The look at the old table, by a GET or by a save that has its verdict.
<1>10. ASSUME NEW t \in RevThreads, StatTable(t) \/ ReadTable(t) \/ StoreTable(t)
       PROVE  SavesInv'
  <2>0. UNCHANGED <<revFile, revRoot>> /\ revPc[t] \in {"stat", "read", "store"}
    BY <1>10 DEF StatTable, ReadTable, StoreTable, revDisk, revPrints, At
  <2>1. CASE Finish(t)
    BY <1>5, <2>0, <2>1
  <2>2. CASE RevGoto(t, "write") /\ UNCHANGED revOp
    <3>1. Looked("write", revOp[t])
      BY <1>4, <2>0 DEF Looked
    <3> QED BY <1>7, <1>8, <2>0, <2>2, <3>1
  <2>3. ASSUME NEW v, NEW f \in {"stat", "got"}, NEW l \in {"read", "store"},
               Local(t, f, v), RevGoto(t, l)
        PROVE  SavesInv'
    <3>1. PICK o : o = [revOp[t] EXCEPT ![f] = v]
      OBVIOUS
    <3>2. /\ o.root = revOp[t].root /\ o.rev = revOp[t].rev /\ o.seen = revOp[t].seen
          /\ o.checking = revOp[t].checking
      <4>1. CASE f = "stat"
        BY <1>4, <3>1, <4>1 DEF RevOps
      <4>2. CASE f = "got"
        BY <1>4, <3>1, <4>2 DEF RevOps
      <4> QED BY <4>1, <4>2
    <3>3. Looked(l, o)
      BY <1>4, <2>0, <3>2 DEF Looked
    <3>4. revOp' = [revOp EXCEPT ![t] = o]
      BY <2>3, <3>1 DEF Local
    <3> QED BY <1>7, <2>0, <2>3, <3>3, <3>4
  <2> QED BY <1>10, <2>1, <2>2, <2>3 DEF StatTable, ReadTable, StoreTable, AfterLoad
<1>11. ASSUME NEW t \in RevThreads, StatAll(t) \/ ReadAll(t) \/ InstallAll(t)
       PROVE  SavesInv'
  <2>0. UNCHANGED <<revFile, revRoot>> /\ revPc[t] \in {"allStat", "allRead", "allInstall"}
        /\ ~revOp[t].checking
    BY <1>4, <1>11 DEF StatAll, ReadAll, InstallAll, revDisk, revPrints, At, Fits
  <2>1. CASE Finish(t)
    BY <1>5, <2>0, <2>1
  <2>2. ASSUME NEW v, NEW f \in {"stat", "got"}, NEW l \in {"allRead", "allInstall"},
               Local(t, f, v), RevGoto(t, l)
        PROVE  SavesInv'
    <3>1. PICK o : o = [revOp[t] EXCEPT ![f] = v]
      OBVIOUS
    <3>2. ~o.checking
      <4>1. CASE f = "stat"
        BY <1>4, <2>0, <3>1, <4>1 DEF RevOps
      <4>2. CASE f = "got"
        BY <1>4, <2>0, <3>1, <4>2 DEF RevOps
      <4> QED BY <4>1, <4>2
    <3>3. revOp' = [revOp EXCEPT ![t] = o]
      BY <2>2, <3>1 DEF Local
    <3> QED BY <1>6, <2>0, <2>2, <3>2, <3>3
  <2> QED BY <1>11, <2>1, <2>2 DEF StatAll, ReadAll, InstallAll
\* A late poll may move the root under a save: what the save looked at stays.
<1>12. ASSUME NEW t \in RevThreads, PollSet(t) PROVE SavesInv'
  <2>0. /\ UNCHANGED <<revFile, revOp>> /\ revPc[t] = "pollSet"
        /\ SetRoot(revOp[t].root) /\ RevGoto(t, "print")
    BY <1>12 DEF PollSet, revDisk, At
  <2>1. revRoot' \in {revRoot} \cup RevMods
    BY <1>4, <2>0 DEF SetRoot, Fits
  <2>2. /\ \A u \in RevThreads \ {t} : revPc'[u] = revPc[u] /\ revOp'[u] = revOp[u]
        /\ revPc'[t] = "print" /\ revOp'[t] = revOp[t] /\ ~revOp[t].checking
    BY <1>0, <1>4, <2>0 DEF RevRequests, RevGoto, Fits
  <2>3. Looked(revPc[t], revOp[t])'
    BY <2>2 DEF Looked
  <2> QED BY <1>0, <2>0, <2>1, <2>2, <2>3, RevNoneIsNone, JudgesUndisturbed
<1>13. ASSUME NEW t \in RevThreads, PollRoot(t) \/ ReadRoot(t) PROVE SavesInv'
  <2>1. PICK o : o = [revOp[t] EXCEPT !.root = revMod]
    OBVIOUS
  <2>2. ~o.checking
    BY <1>4, <1>13, <2>1 DEF PollRoot, ReadRoot, At, Fits, RevOps
  <2>3. revOp' = [revOp EXCEPT ![t] = o]
    BY <1>13, <2>1 DEF PollRoot, ReadRoot, Local
  <2> QED BY <1>6, <1>13, <2>2, <2>3 DEF PollRoot, ReadRoot, revDisk, revPrints
<1>14. ASSUME NEW t \in RevThreads, EnterGate(t) PROVE SavesInv'
  <2>0. /\ UNCHANGED revFile /\ revPc[t] = "gate" /\ revGate = RevNone
        /\ SetRoot(revOp[t].root) /\ RevGoto(t, "print")
    BY <1>14 DEF EnterGate, TakeGate, revDisk, At
  <2>1. PICK o : o = [revOp[t] EXCEPT !.checking = TRUE]
    OBVIOUS
  <2>2. /\ \A u \in RevThreads \ {t} : revPc'[u] = revPc[u] /\ revOp'[u] = revOp[u]
        /\ revPc'[t] = "print" /\ revOp'[t] = o
    BY <1>0, <1>14, <2>0, <2>1 DEF RevRequests, RevGoto, EnterGate, Local
  <2>3. revRoot' \in RevMods
    BY <1>4, <2>0 DEF SetRoot, Fits
  <2>4. Looked(revPc[t], revOp[t])'
    BY <2>2, <2>3, RevNoneIsNone DEF Looked
  <2> QED BY <1>0, <2>0, <2>2, <2>3, <2>4, RevNoneIsNone, JudgesUndisturbed
<1>15. ASSUME NEW t \in RevThreads, PrintStat(t) PROVE SavesInv'
  <2>0. UNCHANGED <<revFile, revRoot>> /\ revPc[t] = "print"
    BY <1>15 DEF PrintStat, revDisk, revPrints, At
  <2>1. CASE revRoot = RevNone /\ Local(t, "got", RevNone) /\ RevGoto(t, "publish")
    <3>1. PICK o : o = [revOp[t] EXCEPT !.got = RevNone]
      OBVIOUS
    <3>2. ~revOp[t].checking
      BY <1>4, <2>1 DEF Looked
    <3>3. ~o.checking
      BY <1>4, <3>1, <3>2 DEF RevOps
    <3>4. revOp' = [revOp EXCEPT ![t] = o]
      BY <2>1, <3>1 DEF Local
    <3> QED BY <1>6, <2>0, <2>1, <3>3, <3>4
  <2>2. ASSUME revRoot # RevNone, Fresh(revMeta[revRoot], revFile[revRoot]), RevGoto(t, "publish"),
               revOp' = [revOp EXCEPT ![t].stat = revFile[revRoot].mtime, ![t].root = revRoot,
                                      ![t].got = revMeta[revRoot].bytes]
        PROVE  SavesInv'
    <3>1. PICK o : o = [revOp[t] EXCEPT !.stat = revFile[revRoot].mtime, !.root = revRoot,
                                        !.got = revMeta[revRoot].bytes]
      OBVIOUS
    <3>2. revOp' = [revOp EXCEPT ![t] = o]
      BY <1>0, <2>2, <3>1 DEF RevRequests, RevOps
    <3>3. /\ o.root = revRoot /\ o.checking = revOp[t].checking
          /\ o.got = revMeta[revRoot].bytes
      BY <1>4, <3>1 DEF RevOps
    <3>4. revRoot \in RevMods /\ revMeta[revRoot].bytes = revFile[revRoot].bytes
      BY <1>0, <2>2 DEF CacheHitIsCurrent, Honest, RevData
    <3>5. Looked("publish", o)
      BY <1>4, <3>3, <3>4 DEF Looked, Left
    <3> QED BY <1>7, <2>0, <2>2, <3>2, <3>5
  <2>3. ASSUME revRoot # RevNone, RevGoto(t, "hash"),
               revOp' = [revOp EXCEPT ![t].stat = revFile[revRoot].mtime, ![t].root = revRoot]
        PROVE  SavesInv'
    <3>1. PICK o : o = [revOp[t] EXCEPT !.stat = revFile[revRoot].mtime, !.root = revRoot]
      OBVIOUS
    <3>2. revOp' = [revOp EXCEPT ![t] = o]
      BY <1>0, <2>3, <3>1 DEF RevRequests, RevOps
    <3>3. o.checking = revOp[t].checking
      BY <1>4, <3>1 DEF RevOps
    <3>4. Looked("hash", o)
      BY <1>4, <3>3 DEF Looked
    <3> QED BY <1>7, <2>0, <2>3, <3>2, <3>4
  <2> QED BY <1>15, <2>1, <2>2, <2>3 DEF PrintStat
<1>16. ASSUME NEW t \in RevThreads, PrintHash(t) PROVE SavesInv'
  <2>1. PICK m : m = revOp[t].root
    OBVIOUS
  <2>2. PICK o : o = [revOp[t] EXCEPT !.got = revFile[m].bytes]
    OBVIOUS
  <2>3. revOp' = [revOp EXCEPT ![t] = o] /\ revPc[t] = "hash" /\ RevGoto(t, "publish")
        /\ UNCHANGED <<revFile, revRoot>>
    BY <1>16, <2>1, <2>2 DEF PrintHash, Local, At, revDisk
  <2>4. /\ o.root = m /\ m \in RevMods /\ o.checking = revOp[t].checking
        /\ o.got = revFile[m].bytes
    BY <1>4, <2>1, <2>2, <2>3 DEF RevOps, Fits
  <2>5. Looked("publish", o)
    BY <1>4, <2>1, <2>3, <2>4 DEF Looked, Left
  <2> QED BY <1>7, <2>3, <2>5
<1>17. ASSUME NEW t \in RevThreads, Publish(t) PROVE SavesInv'
  <2>0. UNCHANGED <<revFile, revRoot>> /\ revPc[t] = "publish"
    BY <1>17 DEF Publish, revDisk, At
  <2>1. CASE Finish(t)
    BY <1>5, <2>0, <2>1
  <2>2. CASE revOp[t].checking /\ revOp[t].got = revOp[t].rev
             /\ Local(t, "seen", revOp[t].stat) /\ RevGoto(t, "stat")
    <3>1. PICK o : o = [revOp[t] EXCEPT !.seen = revOp[t].stat]
      OBVIOUS
    <3>2. revOp' = [revOp EXCEPT ![t] = o]
      BY <2>2, <3>1 DEF Local
    <3>3. /\ o.root = revOp[t].root /\ o.rev = revOp[t].rev /\ o.checking = revOp[t].checking
          /\ o.seen = revOp[t].stat
      BY <1>4, <3>1 DEF RevOps
    <3>4. Looked("stat", o)
      BY <1>4, <2>0, <2>2, <3>3 DEF Looked
    <3> QED BY <1>7, <2>0, <2>2, <3>2, <3>4
  <2> QED BY <1>17, <2>1, <2>2 DEF Publish
\* Nobody else is being judged while the gate is free or the writer's.
<1>18. ASSUME NEW t \in RevThreads, revGate \in {RevNone, t}, NEW u \in RevThreads \ {t}
       PROVE  ~revOp[u].checking
  BY <1>4, <1>18, RevNoneIsNone DEF Fits
<1>19. ASSUME NEW t \in RevThreads, Write(t) PROVE SavesInv'
  <2>0. revOp[t].path \in RevMods /\ revPc[t] = "write" /\ revGate \in {RevNone, t}
        /\ UNCHANGED revRoot
    BY <1>4, <1>19 DEF Write, At, Fits, revPrints
  <2>1. CASE Finish(t) /\ UNCHANGED revDisk
    BY <1>5, <2>0, <2>1 DEF revDisk
  <2>2. CASE /\ Overwrite(revOp[t].path, revClock, "server")
             /\ revOp' = [revOp EXCEPT ![t].stat = revClock, ![t].got = revClock,
                                       ![t].checking = FALSE]
             /\ RevGoto(t, "seed")
    <3>1. /\ \A u \in RevThreads \ {t} : revPc'[u] = revPc[u] /\ revOp'[u] = revOp[u]
          /\ revPc'[t] = "seed" /\ ~revOp'[t].checking
      BY <1>0, <1>4, <2>2 DEF RevRequests, RevOps, RevGoto
    <3>2. ASSUME NEW u \in RevThreads \ {t} PROVE Looked(revPc[u], revOp[u])'
      BY <1>18, <2>0, <2>2, <3>1, WriteSeen
    <3>3. Looked(revPc[t], revOp[t])'
      BY <3>1 DEF Looked
    <3> QED BY <1>0, <3>2, <3>3 DEF SavesInv
  <2> QED BY <1>19, <2>1, <2>2 DEF Write
<1>20. ASSUME NEW t \in RevThreads, Revert(t) PROVE SavesInv'
  <2>0. revOp[t].path \in RevMods /\ revPc[t] = "write" /\ revGate = RevNone
        /\ UNCHANGED revRoot
    BY <1>4, <1>20 DEF Revert, At, Fits, revPrints
  <2>1. CASE Finish(t) /\ UNCHANGED revDisk
    BY <1>5, <2>0, <2>1 DEF revDisk
  <2>2. ASSUME NEW b, Overwrite(revOp[t].path, b, "server"), RevGoto(t, "reverted"), UNCHANGED revOp
        PROVE  SavesInv'
    <3>1. /\ \A u \in RevThreads \ {t} : revPc'[u] = revPc[u] /\ revOp'[u] = revOp[u]
          /\ revPc'[t] = "reverted" /\ ~revOp'[t].checking
      BY <1>0, <1>4, <2>0, <2>2, RevNoneIsNone DEF RevRequests, RevGoto, Fits
    <3>2. ASSUME NEW u \in RevThreads \ {t} PROVE Looked(revPc[u], revOp[u])'
      BY <1>18, <2>0, <2>2, <3>1, WriteSeen
    <3>3. Looked(revPc[t], revOp[t])'
      BY <3>1 DEF Looked
    <3> QED BY <1>0, <3>2, <3>3 DEF SavesInv
  <2> QED BY <1>20, <2>1, <2>2 DEF Revert
<1>21. ASSUME NEW t \in RevThreads, Seed(t) \/ Refresh(t) \/ Answer(t) \/ Reverted(t)
       PROVE  SavesInv'
  <2>0. UNCHANGED <<revFile, revRoot>> /\ ~revOp[t].checking
    BY <1>4, <1>21 DEF Seed, Refresh, Answer, Reverted, revDisk, revPrints, At, Fits
  <2>1. CASE Finish(t)
    BY <1>5, <2>0, <2>1
  <2>2. ASSUME NEW l \in {"refresh", "answer", "print"}, RevGoto(t, l), UNCHANGED revOp
        PROVE  SavesInv'
    BY <1>6, <1>8, <2>0, <2>2
  <2> QED BY <1>21, <2>1, <2>2 DEF Seed, Refresh, Answer, Reverted
<1> QED
  BY <1>1, <1>2, <1>3, <1>9, <1>10, <1>11, <1>12, <1>13, <1>14, <1>15, <1>16, <1>17, <1>19,
     <1>20, <1>21 DEF RevNext, RevRequestStep

\* Without those faults, a save that sent a revision and was judged by the
\* fingerprint of its own mod replaces only the bytes the revision names, or bytes
\* another program wrote after the save had looked: of two saves with one revision,
\* at most one passes, whoever selects or polls meanwhile (cfg_routes.cpp).
THEOREM NoUpdateIsLost ==
    ASSUME "seed" \notin RevFaults, "blind" \notin RevFaults
    PROVE  RevSpec => NoLostUpdate
<1>1. SavesInv => \A t \in RevThreads :
                    revPc[t] = "write" /\ revOp[t].rev # RevNone =>
                      Left(revOp[t].root, revOp[t].rev, revOp[t].seen)
  <2> SUFFICES ASSUME SavesInv, NEW t \in RevThreads, revPc[t] = "write", revOp[t].rev # RevNone
               PROVE  Left(revOp[t].root, revOp[t].rev, revOp[t].seen)
    OBVIOUS
  <2>1. revOp[t].checking
    BY DEF SavesInv, CachesInv, RevShape, RevRequests, Fits
  <2> QED BY <2>1 DEF SavesInv, Looked
<1>2. SavesInv /\ [RevNext]_revVars =>
        [\A t \in RevThreads :
           /\ At(t, "write") /\ revPc'[t] = "seed"
           /\ revOp[t].rev # RevNone /\ revOp[t].root = revOp[t].path
           => LET f == revFile[revOp[t].path] IN
              \/ f.bytes = revOp[t].rev
              \/ f.by = "outside" /\ f.mtime > revOp[t].seen]_revVars
  BY <1>1 DEF At, Left
<1>3. RevSpec => []SavesInv
  BY SavesInvInit, SavesInvNext, PTL DEF RevSpec
<1> QED BY <1>2, <1>3, PTL DEF RevSpec, NoLostUpdate
=============================================================================
