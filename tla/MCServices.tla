----------------------------- MODULE MCServices -----------------------------
(***************************************************************************)
(* The instance for TLC of the services that have threads of their own:    *)
(* background jobs, the watcher of the realtime sync, the sync itself, the *)
(* file transfer, the MCP bridge and the HTTP server; and of the history   *)
(* of one table as EditHistory promises it.  part is what a behaviour is   *)
(* about; the others rest in an initial state of theirs, so their fairness *)
(* is that of the part alone.                                              *)
(***************************************************************************)
EXTENDS JobQueue, RealtimeLife, CloudSync, FileTransfer, McpBridge, HttpServer,
        CfgStoreHistory

CONSTANTS a, b, none, notext

\* The table of the history: two versions, no other writers, disk faults.
TwoTables   == {a, b}
AsIs        == [x \in TwoTables |-> x]
FirstTables == {Encode(a, FALSE)}
NoFiles     == {}
Snapshots   == {TRUE}
DiskFaults  == {"crash", "write", "restore"}

VARIABLE part

ServicesVars == <<part, jobVars, rtVars, csVars, ftVars, mcpVars, hsVars, vars>>

ServicesInit ==
    /\ part \in {"jobs", "watcher", "sync", "transfer", "bridge", "http", "history"}
    /\ JobInit /\ RtInit /\ CsInit /\ FtInit /\ McpInit /\ HsInit /\ Init
    /\ part # "sync" =>
         /\ csDirection = "upload" /\ csDeleteExtra
         /\ csLocal = [f \in CloudFiles |-> Absent]
    /\ hsLimit = IF hsPlatform = "posix" THEN 2 ELSE 1
    /\ part # "http" => hsPlatform = "posix"

\* Bounds on what comes from outside: two local writes, or one and a manual sync;
\* and in the bridge one session idle, one child that hangs or has left a process.
FewEdits   == csClock + csManuals <= 3
OneTrouble ==
    /\ Cardinality(mcpIdle) + Cardinality({s \in McpIds : mcpLines[s] > 0}) <= 1
    /\ Cardinality(mcpLeft) + Cardinality({s \in McpIds : mcpLines[s] > 0})
         + Cardinality({s \in McpIds : mcpChild[s] = "hung"}) <= 1

ServicesNext ==
    /\ UNCHANGED part
    /\ \/ /\ part = "jobs" /\ JobNext
          /\ UNCHANGED <<rtVars, csVars, ftVars, mcpVars, hsVars, vars>>
       \/ /\ part = "watcher" /\ RtNext
          /\ UNCHANGED <<jobVars, csVars, ftVars, mcpVars, hsVars, vars>>
       \/ /\ part = "sync" /\ CsNext /\ FewEdits'
          /\ UNCHANGED <<jobVars, rtVars, ftVars, mcpVars, hsVars, vars>>
       \/ /\ part = "transfer" /\ FtNext
          /\ UNCHANGED <<jobVars, rtVars, csVars, mcpVars, hsVars, vars>>
       \/ /\ part = "bridge" /\ McpNext /\ OneTrouble'
          /\ UNCHANGED <<jobVars, rtVars, csVars, ftVars, hsVars, vars>>
       \/ /\ part = "http" /\ HsNext
          /\ UNCHANGED <<jobVars, rtVars, csVars, ftVars, mcpVars, vars>>
       \/ /\ part = "history" /\ Next
          /\ UNCHANGED <<jobVars, rtVars, csVars, ftVars, mcpVars, hsVars>>

\* JobFairness, RtFairness, CsFairness, FtFairness, McpFairness and HsFairness of the part
\* that runs.
ServicesFairness ==
    /\ \A c \in JobClients : WF_jobVars(part = "jobs" /\ Notify(c))
    /\ \A w \in JobWorkers : WF_jobVars(part = "jobs" /\ WorkerStep(w))
    /\ \A w \in Watchers : WF_rtVars(part = "watcher" /\ WatcherThread(w))
    /\ WF_csVars(part = "sync" /\ CsWatcher)
    /\ WF_csVars(part = "sync" /\ DebounceElapses)
    /\ WF_csVars(part = "sync" /\ CsManual)
    /\ \A c \in FtClients : WF_ftVars(part = "transfer" /\ FtRequest(c))
    /\ \A w \in FtWorkers : WF_ftVars(part = "transfer" /\ FtWork(w))
    /\ \A t \in McpThreads : SF_mcpVars(part = "bridge" /\ McpProceeds(t))
    /\ \A s \in McpIds : WF_mcpVars(part = "bridge" /\ ReaderEnds(s))
    /\ WF_hsVars(part = "http" /\ hsMain # "exited" /\ HsAccepts)
    /\ WF_hsVars(part = "http" /\ HsOwner)
    /\ \A k \in HsConns : WF_hsVars(part = "http" /\ hsMain # "exited" /\ HsThread(k))

ServicesSpec == ServicesInit /\ [][ServicesNext]_ServicesVars /\ ServicesFairness
=============================================================================
