---------------------------- MODULE InstancePool ----------------------------
(***************************************************************************)
(* The gateway's pool of backend processes (native/gateway/gw_pool.cpp):   *)
(* request threads acquire and release the backend of their account, the   *)
(* 60 s ticker idles backends out, the main thread shuts the pool down.    *)
(*                                                                         *)
(* The pool mutex is never held across a blocking call, so what runs under *)
(* it is one step.  A record's own mutex is held over starts and stops:    *)
(* `mu`.  Its `starting` flag is only ever set while the mutex is held and *)
(* only read by its holder, so it is left out.  Time is left out too: any  *)
(* unused backend may be the least recently used one and may have been     *)
(* idle long enough.                                                       *)
(***************************************************************************)
EXTENDS Integers, FiniteSets

CONSTANTS
    Accounts,
    Threads,       \* connection threads of the gateway's HTTP server
    MaxInstances,  \* Options.max_instances
    MaxRecords,    \* bound: Instance records made in a behaviour
    MaxRequests,   \* bound: requests of a thread
    MaxForks,      \* bound: backends forked in a behaviour
    MaxTicks,      \* bound: ticks of the reaper
    MaxFaults,     \* bound: backends that die or do not answer in time
    NoAccount

Records == 1..MaxRecords
Procs   == 1..MaxForks
None    == 0

ASSUME PoolAssumption ==
    /\ MaxInstances \in Nat \ {0}
    /\ MaxRecords \in Nat /\ MaxForks \in Nat /\ MaxRequests \in Nat
    /\ MaxTicks \in Nat /\ MaxFaults \in Nat
    /\ NoAccount \notin Accounts

VARIABLES
    map,       \* map_: the record of each account
    rec,       \* the Instance records, in the order they are made
    made,      \* how many there are
    proc,      \* the backend processes, in the order they are forked
    portFile,  \* <account>.port: the process that wrote it
    th,        \* the request threads
    reaper,    \* the ticker thread
    main,      \* the main thread
    faults     \* deaths and timeouts so far

vars == <<map, rec, made, proc, portFile, th, reaper, main, faults>>

NewRecord(a) == [name |-> a, pid |-> None, port |-> None, inflight |-> 0,
                 detached |-> FALSE, mu |-> FALSE]
NoProc       == [name |-> NoAccount, state |-> "none"]
IdleThread   == [pc |-> "idle", name |-> NoAccount, in |-> None, victim |-> None,
                 requests |-> 0]

Init ==
    /\ map = [a \in Accounts |-> None]
    /\ rec = [r \in Records |-> NewRecord(NoAccount)]
    /\ made = 0
    /\ proc = [p \in Procs |-> NoProc]
    /\ portFile = [a \in Accounts |-> None]
    /\ th = [t \in Threads |-> IdleThread]
    /\ reaper = [todo |-> {}, in |-> None, ticks |-> 0]
    /\ main = [pc |-> "running", todo |-> {}, in |-> None]
    /\ faults = 0

Mapped   == {map[a] : a \in Accounts} \ {None}
Up(p)    == p # None /\ proc[p].state = "up"
Runs(p)  == p # None /\ proc[p].state \in {"booting", "up"}
Live     == {r \in Mapped : ~rec[r].detached /\ rec[r].pid # None}
Forked   == {p \in Procs : proc[p].state # "none"}

Locks(r)        == ~rec[r].mu
Killed(p)       == IF p = None THEN proc ELSE [proc EXCEPT ![p].state = "dead"]
Erased(r)       == [a \in Accounts |-> IF map[a] = r THEN None ELSE map[a]]
At(t, pc)       == th[t].pc = pc
Move(t, pc)     == th' = [th EXCEPT ![t].pc = pc]

\* The tail of stop_locked, and the unlock: the process is gone, the record forgets
\* it, the account's port file is removed.
Forget(r) ==
    /\ rec' = [rec EXCEPT ![r].pid = None, ![r].port = None, ![r].mu = FALSE]
    /\ portFile' = [portFile EXCEPT ![rec[r].name] = None]

-----------------------------------------------------------------------------
(* acquire: find or make the record, make room, lock                       *)

\* The cap only matters when this record will have to fork.
Lookup(t, a, fresh) ==
    LET r    == IF fresh THEN made + 1 ELSE map[a]
        full == rec[r].pid = None /\ Cardinality(Live) >= MaxInstances
    IN /\ fresh <=> (map[a] = None \/ rec[map[a]].detached)
       /\ fresh => made < MaxRecords                               \* bound
       /\ made' = IF fresh THEN r ELSE made
       /\ map' = [map EXCEPT ![a] = r]
       /\ rec' = IF fresh THEN [rec EXCEPT ![r] = NewRecord(a)] ELSE rec
       /\ th' = [th EXCEPT ![t].pc = IF full THEN "evict" ELSE "lock",
                           ![t].name = a, ![t].in = r]
       /\ UNCHANGED <<proc, portFile, reaper, main, faults>>

Request(t, a) ==
    /\ At(t, "idle") /\ main.pc = "running"
    /\ th[t].requests < MaxRequests                               \* bound
    /\ th' = [th EXCEPT ![t].pc = "lookup", ![t].name = a,
                        ![t].requests = th[t].requests + 1]
    /\ UNCHANGED <<map, rec, made, proc, portFile, reaper, main, faults>>

Find(t) ==
    /\ At(t, "lookup")
    /\ \E fresh \in BOOLEAN : Lookup(t, th[t].name, fresh)

Idle(r) == ~rec[r].detached /\ rec[r].pid # None /\ rec[r].inflight <= 0

\* detach_lru_idle
DetachVictim(t) ==
    /\ At(t, "evict")
    /\ \E v \in Mapped :
         /\ rec[v].name # th[t].name /\ Idle(v)
         /\ rec' = [rec EXCEPT ![v].detached = TRUE]
         /\ map' = [map EXCEPT ![rec[v].name] = None]
         /\ th' = [th EXCEPT ![t].pc = "retire", ![t].victim = v]
    /\ UNCHANGED <<made, proc, portFile, reaper, main, faults>>

\* All are busy: the cap is overrun.
NoVictim(t) ==
    /\ At(t, "evict")
    /\ ~\E v \in Mapped : rec[v].name # th[t].name /\ Idle(v)
    /\ Move(t, "lock")
    /\ UNCHANGED <<map, rec, made, proc, portFile, reaper, main, faults>>

\* Mutant: the victim is put back under the evicting thread's account.
SpareVictimUnderOwnName(t) ==
    LET v == th[t].victim IN
    /\ At(t, "retire") /\ Locks(v) /\ rec[v].inflight > 0
    /\ IF map[rec[v].name] = None
       THEN /\ map' = [map EXCEPT ![th[t].name] = v]
            /\ rec' = [rec EXCEPT ![v].detached = FALSE]
       ELSE UNCHANGED <<map, rec>>
    /\ Move(t, "lock")
    /\ UNCHANGED <<made, proc, portFile, reaper, main, faults>>

\* retire_detached: the victim became busy meanwhile and goes back into the map,
\* unless its account has a new record by now.
SpareVictim(t) ==
    LET v == th[t].victim IN
    /\ At(t, "retire") /\ Locks(v) /\ rec[v].inflight > 0
    /\ IF map[rec[v].name] = None
       THEN /\ map' = [map EXCEPT ![rec[v].name] = v]
            /\ rec' = [rec EXCEPT ![v].detached = FALSE]
       ELSE UNCHANGED <<map, rec>>
    /\ Move(t, "lock")
    /\ UNCHANGED <<made, proc, portFile, reaper, main, faults>>

RetireVictim(t) ==
    LET v == th[t].victim IN
    /\ At(t, "retire") /\ Locks(v) /\ rec[v].inflight <= 0
    /\ rec' = [rec EXCEPT ![v].mu = TRUE]
    /\ proc' = Killed(rec[v].pid)
    /\ Move(t, "retired")
    /\ UNCHANGED <<map, made, portFile, reaper, main, faults>>

VictimGone(t) ==
    /\ At(t, "retired")
    /\ Forget(th[t].victim)
    /\ Move(t, "lock")
    /\ UNCHANGED <<map, made, proc, reaper, main, faults>>

\* Mutant: the record is looked up once, before the loop.
LockKeepsRecord(t) ==
    LET r == th[t].in IN
    /\ At(t, "lock") /\ Locks(r) /\ ~rec[r].detached
    /\ rec' = [rec EXCEPT ![r].mu = TRUE]
    /\ Move(t, IF rec[r].pid # None THEN "check" ELSE "start")
    /\ UNCHANGED <<map, made, proc, portFile, reaper, main, faults>>

Lock(t) ==
    LET r == th[t].in IN
    /\ At(t, "lock") /\ Locks(r)
    /\ IF rec[r].detached
       THEN Move(t, "lookup") /\ UNCHANGED rec
       ELSE /\ rec' = [rec EXCEPT ![r].mu = TRUE]
            /\ Move(t, IF rec[r].pid # None THEN "check" ELSE "start")
    /\ UNCHANGED <<map, made, proc, portFile, reaper, main, faults>>

-----------------------------------------------------------------------------
(* acquire, holding the record's mutex: reuse, recycle or start            *)

\* The backend answers /api/ping and is handed out.
HandOut(t) ==
    LET r == th[t].in IN
    /\ rec' = [rec EXCEPT ![r].inflight = @ + 1, ![r].mu = FALSE]
    /\ Move(t, "serving")
    /\ UNCHANGED <<map, made, proc, portFile, reaper, main>>

Reuse(t) ==
    /\ At(t, "check")
    /\ Runs(rec[th[t].in].pid) /\ Up(rec[th[t].in].port)
    /\ HandOut(t) /\ UNCHANGED faults

\* No answer, or a dead process: killed hard, and the whole search starts over.
Recycle(t) ==
    LET r == th[t].in IN
    /\ At(t, "check")
    /\ \/ (~Runs(rec[r].pid) \/ ~Up(rec[r].port)) /\ UNCHANGED faults
       \/ faults < MaxFaults /\ faults' = faults + 1             \* bound
    /\ proc' = Killed(rec[r].pid)
    /\ Move(t, "recycled")
    /\ UNCHANGED <<map, rec, made, portFile, reaper, main>>

\* Mutant: the record of a dead backend is dropped, as the reaper does.
RecycledDropsRecord(t) ==
    /\ At(t, "recycled")
    /\ Forget(th[t].in)
    /\ map' = Erased(th[t].in)
    /\ Move(t, "lookup")
    /\ UNCHANGED <<made, proc, reaper, main, faults>>

Recycled(t) ==
    /\ At(t, "recycled")
    /\ Forget(th[t].in)
    /\ Move(t, "lookup")
    /\ UNCHANGED <<map, made, proc, reaper, main, faults>>

\* start_locked: the stale port file goes, the backend is forked.
Fork(t) ==
    LET r == th[t].in
        p == Cardinality(Forked) + 1
    IN /\ At(t, "start")
       /\ p <= MaxForks                                            \* bound
       /\ portFile' = [portFile EXCEPT ![rec[r].name] = None]
       /\ proc' = [proc EXCEPT ![p] = [name |-> rec[r].name, state |-> "booting"]]
       /\ rec' = [rec EXCEPT ![r].pid = p]
       /\ Move(t, "wait port")
       /\ UNCHANGED <<map, made, reaper, main, faults>>

ReadPort(t) ==
    LET r == th[t].in IN
    /\ At(t, "wait port") /\ portFile[rec[r].name] # None
    /\ rec' = [rec EXCEPT ![r].port = portFile[rec[r].name]]
    /\ Move(t, "wait ping")
    /\ UNCHANGED <<map, made, proc, portFile, reaper, main, faults>>

Started(t) ==
    /\ At(t, "wait ping") /\ Up(rec[th[t].in].port)
    /\ HandOut(t) /\ UNCHANGED faults

\* Mutant: a start that gave up leaves the process to itself.
StartFailsQuietly(t) ==
    LET r == th[t].in IN
    /\ \/ /\ At(t, "wait port")
          /\ \/ ~Runs(rec[r].pid)
             \/ Up(rec[r].pid) /\ portFile[rec[r].name] = None
          /\ UNCHANGED faults
       \/ At(t, "wait ping") /\ ~Up(rec[r].port) /\ UNCHANGED faults
       \/ /\ th[t].pc \in {"wait port", "wait ping"}
          /\ faults < MaxFaults /\ faults' = faults + 1
    /\ Move(t, "start failed")
    /\ UNCHANGED <<map, rec, made, proc, portFile, reaper, main>>

\* The process exited, wrote no port file in 10 s (it is slow, or the file was
\* removed by a stop of the account's former backend), or did not answer in 3 s.
StartFails(t) ==
    LET r == th[t].in IN
    /\ \/ /\ At(t, "wait port")
          /\ \/ ~Runs(rec[r].pid)
             \/ Up(rec[r].pid) /\ portFile[rec[r].name] = None
          /\ UNCHANGED faults
       \/ At(t, "wait ping") /\ ~Up(rec[r].port) /\ UNCHANGED faults
       \/ /\ th[t].pc \in {"wait port", "wait ping"}
          /\ faults < MaxFaults /\ faults' = faults + 1           \* bound
    /\ proc' = Killed(rec[r].pid)
    /\ Move(t, "start failed")
    /\ UNCHANGED <<map, rec, made, portFile, reaper, main>>

\* acquire returns 0 and the proxy answers 502.
Refused(t) ==
    /\ At(t, "start failed")
    /\ Forget(th[t].in)
    /\ Move(t, "idle")
    /\ UNCHANGED <<map, made, proc, reaper, main, faults>>

-----------------------------------------------------------------------------
(* release: by account name, not by record                                 *)

Answered(t) ==
    /\ At(t, "serving")
    /\ th' = [th EXCEPT ![t].in = map[th[t].name],
                        ![t].pc = IF map[th[t].name] = None THEN "idle" ELSE "unref"]
    /\ UNCHANGED <<map, rec, made, proc, portFile, reaper, main, faults>>

Unref(t) ==
    LET r == th[t].in IN
    /\ At(t, "unref") /\ Locks(r)
    /\ rec' = [rec EXCEPT ![r].inflight = IF @ < 0 THEN 0 ELSE @ - 1]
    /\ Move(t, "idle")
    /\ UNCHANGED <<map, made, proc, portFile, reaper, main, faults>>

-----------------------------------------------------------------------------
(* reap_idle                                                               *)

Tick ==
    /\ main.pc = "running" /\ reaper.todo = {} /\ reaper.in = None
    /\ reaper.ticks < MaxTicks                                    \* bound
    /\ reaper' = [reaper EXCEPT !.todo = {r \in Mapped : ~rec[r].detached},
                                !.ticks = @ + 1]
    /\ UNCHANGED <<map, rec, made, proc, portFile, th, main, faults>>

\* A record whose backend exited or never started is dropped from the map.
ReapDead(r) ==
    /\ reaper.in = None /\ r \in reaper.todo /\ Locks(r) /\ ~Runs(rec[r].pid)
    /\ rec' = [rec EXCEPT ![r].pid = None,
                          ![r].port = IF rec[r].pid # None THEN None ELSE @]
    /\ map' = IF rec[r].pid # None \/ rec[r].inflight = 0 THEN Erased(r) ELSE map
    /\ reaper' = [reaper EXCEPT !.todo = @ \ {r}]
    /\ UNCHANGED <<made, proc, portFile, th, main, faults>>

ReapSpares(r) ==
    /\ reaper.in = None /\ r \in reaper.todo /\ Locks(r) /\ Runs(rec[r].pid)
    /\ reaper' = [reaper EXCEPT !.todo = @ \ {r}]
    /\ UNCHANGED <<map, rec, made, proc, portFile, th, main, faults>>

ReapIdle(r) ==
    /\ reaper.in = None /\ r \in reaper.todo /\ Locks(r) /\ Runs(rec[r].pid)
    /\ rec[r].inflight = 0
    /\ rec' = [rec EXCEPT ![r].mu = TRUE]
    /\ proc' = Killed(rec[r].pid)
    /\ reaper' = [reaper EXCEPT !.todo = @ \ {r}, !.in = r]
    /\ UNCHANGED <<map, made, portFile, th, main, faults>>

\* The record leaves the map without being marked detached.
ReapIdled ==
    /\ reaper.in # None
    /\ Forget(reaper.in)
    /\ map' = Erased(reaper.in)
    /\ reaper' = [reaper EXCEPT !.in = None]
    /\ UNCHANGED <<made, proc, th, main, faults>>

-----------------------------------------------------------------------------
(* The end of the gateway: the reaper is joined, the server stops          *)
(* listening, shutdown_all runs; the server's destructor then waits for    *)
(* the connection threads and the pool's runs shutdown_all again.          *)

Quit ==
    /\ main.pc = "running" /\ reaper.todo = {} /\ reaper.in = None
    /\ main' = [main EXCEPT !.pc = "shutdown"]
    /\ UNCHANGED <<map, rec, made, proc, portFile, th, reaper, faults>>

ShutdownDetach ==
    /\ \/ main.pc = "shutdown"
       \/ main.pc = "drain" /\ \A t \in Threads : At(t, "idle")
    /\ rec' = [r \in Records |->
                 [rec[r] EXCEPT !.detached = @ \/ r \in Mapped]]
    /\ map' = [a \in Accounts |-> None]
    /\ main' = [main EXCEPT !.todo = Mapped,
                            !.pc = IF main.pc = "shutdown" THEN "stop" ELSE "last stop"]
    /\ UNCHANGED <<made, proc, portFile, th, reaper, faults>>

ShutdownStop(r) ==
    /\ main.in = None /\ r \in main.todo /\ Locks(r)
    /\ rec' = [rec EXCEPT ![r].mu = TRUE]
    /\ proc' = Killed(rec[r].pid)
    /\ main' = [main EXCEPT !.todo = @ \ {r}, !.in = r]
    /\ UNCHANGED <<map, made, portFile, th, reaper, faults>>

ShutdownStopped ==
    /\ main.in # None
    /\ Forget(main.in)
    /\ main' = [main EXCEPT !.in = None]
    /\ UNCHANGED <<map, made, proc, th, reaper, faults>>

\* Mutant: the pool is stopped once, before the connection threads are gone.
ShutdownDoneOnce ==
    /\ main.pc \in {"stop", "last stop"} /\ main.todo = {} /\ main.in = None
    /\ main' = [main EXCEPT !.pc = "exited"]
    /\ UNCHANGED <<map, rec, made, proc, portFile, th, reaper, faults>>

ShutdownDone ==
    /\ main.pc \in {"stop", "last stop"} /\ main.todo = {} /\ main.in = None
    /\ main' = [main EXCEPT !.pc = IF main.pc = "stop" THEN "drain" ELSE "exited"]
    /\ UNCHANGED <<map, rec, made, proc, portFile, th, reaper, faults>>

-----------------------------------------------------------------------------
(* The backend processes                                                   *)

\* The backend listens and writes its port file.
Bind(p) ==
    /\ proc[p].state = "booting"
    /\ proc' = [proc EXCEPT ![p].state = "up"]
    /\ portFile' = [portFile EXCEPT ![proc[p].name] = p]
    /\ UNCHANGED <<map, rec, made, th, reaper, main, faults>>

Die(p) ==
    /\ Runs(p)
    /\ faults < MaxFaults /\ faults' = faults + 1                 \* bound
    /\ proc' = Killed(p)
    /\ UNCHANGED <<map, rec, made, portFile, th, reaper, main>>

-----------------------------------------------------------------------------
Acquire(t) ==
    \/ Find(t)
    \/ DetachVictim(t) \/ NoVictim(t)
    \/ SpareVictim(t) \/ RetireVictim(t) \/ VictimGone(t)
    \/ Lock(t) \/ Reuse(t) \/ Recycle(t) \/ Recycled(t)
    \/ Fork(t) \/ ReadPort(t) \/ Started(t) \/ StartFails(t) \/ Refused(t)
Release(t) == Answered(t) \/ Unref(t)
Reap       == ReapIdled \/ \E r \in Records : ReapDead(r) \/ ReapSpares(r) \/ ReapIdle(r)
Shutdown   == \/ ShutdownDetach \/ ShutdownStopped \/ ShutdownDone
              \/ \E r \in Records : ShutdownStop(r)

Done == main.pc = "exited" /\ UNCHANGED vars

Next ==
    \/ \E t \in Threads : Acquire(t) \/ Release(t) \/ \E a \in Accounts : Request(t, a)
    \/ Tick \/ Reap \/ Quit \/ Shutdown
    \/ \E p \in Procs : Bind(p) \/ Die(p)
    \/ Done

Fairness ==
    /\ \A t \in Threads : WF_vars(Acquire(t)) /\ WF_vars(Release(t))
    /\ WF_vars(Reap) /\ WF_vars(Shutdown)
    /\ \A p \in Procs : WF_vars(Bind(p))

Spec == Init /\ [][Next]_vars /\ Fairness

-----------------------------------------------------------------------------
(* Properties                                                              *)

TypeOK ==
    /\ map \in [Accounts -> Records \cup {None}]
    /\ \A a \in Accounts : map[a] # None => rec[map[a]].name = a
    /\ rec \in [Records -> [name : Accounts \cup {NoAccount},
                           pid : Procs \cup {None}, port : Procs \cup {None},
                           inflight : Int, detached : BOOLEAN, mu : BOOLEAN]]
    /\ made \in Records \cup {None}
    /\ proc \in [Procs -> [name : Accounts \cup {NoAccount},
                           state : {"none", "booting", "up", "dead"}]]
    /\ portFile \in [Accounts -> Procs \cup {None}]
    /\ th \in [Threads -> [pc : {"idle", "lookup", "evict", "retire", "retired",
                                 "lock", "check", "recycled", "start", "wait port",
                                 "wait ping", "start failed", "serving", "unref"},
                           name : Accounts \cup {NoAccount},
                           in : Records \cup {None}, victim : Records \cup {None},
                           requests : 0..MaxRequests]]
    /\ reaper \in [todo : SUBSET Records, in : Records \cup {None},
                   ticks : 0..MaxTicks]
    /\ main \in [pc : {"running", "shutdown", "stop", "drain", "last stop", "exited"},
                 todo : SUBSET Records, in : Records \cup {None}]
    /\ faults \in 0..MaxFaults

\* Nothing has been evicted or reaped so far: never more accounts than places, no
\* tick of the reaper yet.
Used  == {rec[r].name : r \in 1..made}
Roomy == Cardinality(Used) <= MaxInstances /\ reaper.ticks = 0

\* Until something is evicted or reaped, a running backend can be found: it is that
\* of its account's record, or of one that a shutdown is about to stop.  (An
\* eviction and a reap lose backends: the runs inflight and orphan.)
NoLostBackend ==
    Roomy => \A p \in Procs :
        Runs(p) => \E r \in Mapped \cup main.todo : rec[r].pid = p

\* Every request is handed a backend or refused, and gives it back, whatever the
\* evictions, deaths and the shutdown do to the records it waits for: no two
\* threads ever wait for each other's mutex, no search goes round for ever.
EveryRequestAnswered ==
    \A t \in Threads : ~At(t, "idle") ~> At(t, "idle")

\* Between acquire and release the account's record stays in the pool ("the
\* inflight reference keeps the instance from being evicted", gw_pool.h).
InflightProtects ==
    \A t \in Threads :
        At(t, "serving") /\ main.pc = "running" => map[th[t].name] = th[t].in

\* So it does until something is evicted or reaped, whichever backends die, are slow
\* or are started again meanwhile.
RoomyProtects == Roomy => InflightProtects

\* Once the gateway has exited, no backend it forked is running ("Stop everything
\* (gateway shutdown path)", gw_pool.h).
NothingOutlivesTheGateway ==
    main.pc = "exited" => \A p \in Procs : ~Runs(p)

\* So it is until something is evicted or reaped, however late a request acquires.
RoomyLeavesNothing == Roomy => NothingOutlivesTheGateway
=============================================================================
