------------------------------- MODULE ModList -------------------------------
(***************************************************************************)
(* The server's state of mods: the two-second cache of list_mods, the      *)
(* selected mod (state.cpp), and the handlers that list, select, create    *)
(* and delete mods (mods_routes.cpp).  A scan lists the directory and then *)
(* tests each entry, without a lock; select_mod sets the selection first   *)
(* and drops the cache after, and a delete does not drop it.               *)
(***************************************************************************)
EXTENDS Naturals, FiniteSets

CONSTANTS
    ListedMods,   \* names of mods
    ListThreads,  \* requests in flight at the same time
    NoMod,        \* nothing is selected, no name is given
    ListMaxTime,  \* bound: seconds
    ListMaxRequests \* bound: requests in a behaviour

ASSUME ListConstants == ListMaxTime \in Nat /\ ListMaxRequests \in Nat

ListTtl == 2

VARIABLES
    modsOnDisk,   \* mods under the workspace root
    modsPast,     \* [time -> sets of mods that were on disk then] (history)
    modsNow,      \* seconds
    modsCache,    \* mods_cache, mods_cache_valid and mods_ts_ms
    modsSelected, \* STATE().mod_name
    modsSent,     \* requests so far
    modsPc, modsOp

modsVars == <<modsOnDisk, modsPast, modsNow, modsCache, modsSelected, modsSent, modsPc, modsOp>>
modsDisk == <<modsOnDisk, modsPast, modsNow>>

NoListing == [kind |-> "none", name |-> NoMod, since |-> 0, left |-> {}, found |-> {}]

ModsInit ==
    /\ modsOnDisk \in SUBSET ListedMods
    /\ modsPast = [i \in 0..ListMaxTime |-> IF i = 0 THEN {modsOnDisk} ELSE {}]
    /\ modsNow = 0
    /\ modsCache = [valid |-> FALSE, ts |-> 0, mods |-> {}]
    /\ modsSelected = NoMod
    /\ modsSent = 0
    /\ modsPc = [t \in ListThreads |-> "idle"]
    /\ modsOp = [t \in ListThreads |-> NoListing]

ModsAt(t, l) == modsPc[t] = l
ModsGoto(t, l) == modsPc' = [modsPc EXCEPT ![t] = l]
ModsDone(t) == ModsGoto(t, "idle") /\ modsOp' = [modsOp EXCEPT ![t] = NoListing]

DiskBecomes(s) ==
    /\ modsOnDisk' = s
    /\ modsPast' = [modsPast EXCEPT ![modsNow] = @ \cup {s}]
    /\ UNCHANGED modsNow

TickSecond ==
    /\ modsNow < ListMaxTime
    /\ modsNow' = modsNow + 1
    /\ modsPast' = [modsPast EXCEPT ![modsNow + 1] = {modsOnDisk}]
    /\ UNCHANGED <<modsOnDisk, modsCache, modsSelected, modsSent, modsPc, modsOp>>

\* GET /api/mods, select by name and delete start with list_mods; create and
\* select by root do not.
AskForMods(t) ==
    /\ ModsAt(t, "idle")
    /\ modsSent < ListMaxRequests /\ modsSent' = modsSent + 1
    /\ \E k \in {"list", "select", "delete", "create", "root"}, n \in ListedMods :
         /\ k = "create" => n \notin modsOnDisk
         /\ k = "root" => n \in modsOnDisk
         /\ modsOp' = [modsOp EXCEPT ![t] = [NoListing EXCEPT !.kind = k,
                          !.name = IF k = "list" THEN NoMod ELSE n]]
         /\ ModsGoto(t, IF k \in {"create", "root"} THEN k ELSE "list")
    /\ UNCHANGED <<modsDisk, modsCache, modsSelected>>

\* What a handler does with the list it was given.
Use(t, listed) ==
    LET o == modsOp[t] IN
    IF o.kind \in {"select", "delete"} /\ o.name \in listed
    THEN ModsGoto(t, IF o.kind = "select" THEN "root" ELSE "remove") /\ UNCHANGED modsOp
    ELSE ModsDone(t)

CacheServes == modsCache.valid /\ modsNow - modsCache.ts < ListTtl

ListMods(t) ==
    /\ ModsAt(t, "list")
    /\ \/ CacheServes /\ Use(t, modsCache.mods)
       \/ /\ ~CacheServes
          /\ modsOp' = [modsOp EXCEPT ![t].since = modsNow]
          /\ ModsGoto(t, "scan")
    /\ UNCHANGED <<modsDisk, modsCache, modsSelected, modsSent>>

\* The names in the directory, then one entry after another: what is not a mod any
\* more is left out.
ScanMods(t) ==
    /\ ModsAt(t, "scan")
    /\ modsOp' = [modsOp EXCEPT ![t].left = modsOnDisk]
    /\ ModsGoto(t, "test")
    /\ UNCHANGED <<modsDisk, modsCache, modsSelected, modsSent>>

TestEntry(t) ==
    /\ ModsAt(t, "test")
    /\ \E n \in modsOp[t].left :
         modsOp' = [modsOp EXCEPT ![t].left = @ \ {n}, ![t].found = @ \cup ({n} \cap modsOnDisk)]
    /\ UNCHANGED <<modsDisk, modsCache, modsSelected, modsSent, modsPc>>

\* Mutant: the list is dated when it is stored.
ScanDateLate(t) == modsNow

ScanDate(t) == modsOp[t].since

InstallMods(t) ==
    /\ ModsAt(t, "test") /\ modsOp[t].left = {}
    /\ modsCache' = [valid |-> TRUE, ts |-> ScanDate(t), mods |-> modsOp[t].found]
    /\ Use(t, modsOp[t].found)
    /\ UNCHANGED <<modsDisk, modsSelected, modsSent>>

\* The name was free when the request looked.
CreateMod(t) ==
    /\ ModsAt(t, "create")
    /\ DiskBecomes(modsOnDisk \cup {modsOp[t].name})
    /\ ModsGoto(t, "root")
    /\ UNCHANGED <<modsCache, modsSelected, modsSent, modsOp>>

\* select_mod: the selection, then invalidate_mods_cache.
SelectName(t) ==
    /\ ModsAt(t, "root")
    /\ modsSelected' = modsOp[t].name
    /\ ModsGoto(t, "invalidate")
    /\ UNCHANGED <<modsDisk, modsCache, modsSent, modsOp>>

InvalidateMods(t) ==
    /\ ModsAt(t, "invalidate")
    /\ modsCache' = [valid |-> FALSE, ts |-> 0, mods |-> {}]
    /\ ModsDone(t)
    /\ UNCHANGED <<modsDisk, modsSelected, modsSent>>

\* The directory goes, then the selection; the cached list stays.
RemoveMod(t) ==
    /\ ModsAt(t, "remove")
    /\ DiskBecomes(modsOnDisk \ {modsOp[t].name})
    /\ ModsGoto(t, "deselect")
    /\ UNCHANGED <<modsCache, modsSelected, modsSent, modsOp>>

Deselect(t) ==
    /\ ModsAt(t, "deselect")
    /\ modsSelected' = IF modsSelected = modsOp[t].name THEN NoMod ELSE modsSelected
    /\ ModsDone(t)
    /\ UNCHANGED <<modsDisk, modsCache, modsSent>>

ModsNext ==
    \/ TickSecond
    \/ \E t \in ListThreads :
         \/ AskForMods(t) \/ ListMods(t) \/ ScanMods(t) \/ TestEntry(t) \/ InstallMods(t)
         \/ CreateMod(t) \/ SelectName(t) \/ InvalidateMods(t) \/ RemoveMod(t) \/ Deselect(t)

ModsSpec == ModsInit /\ [][ModsNext]_modsVars

-----------------------------------------------------------------------------
(* Properties                                                              *)

\* What list_mods serves from its cache says of each mod, whether it is in the list
\* or not, what was true at some moment of the last two seconds: although a scan
\* reads the disk entry by entry, scans overlap, and others create and delete mods
\* meanwhile (state.cpp:291-337).  It does not say that a mod just deleted is gone.
ListIsRecent ==
    CacheServes => \A n \in ListedMods : \E i \in modsCache.ts..modsNow, s \in SUBSET ListedMods :
        s \in modsPast[i] /\ (n \in s <=> n \in modsCache.mods)
=============================================================================
