---------------------------- MODULE RealtimeLife ----------------------------
(***************************************************************************)
(* The life of the watcher thread of realtime.cpp: rt_start and rt_stop    *)
(* under the life mutex, the watcher that runs detached, and the flags     *)
(* running, enabled (g_state), g_stop and g_alive through which they speak. *)
(* A watcher that leaves clears running, then g_alive; rt_stop waits two   *)
(* seconds for it and goes on, rt_start five and fails.                    *)
(***************************************************************************)
EXTENDS Naturals, FiniteSets

CONSTANTS
    Watchers,     \* threads that may exist at the same time
    RtCallers,    \* requests in flight at the same time
    RtNobody,
    RtFaults,     \* a subset of {"window"}
    RtMaxCalls    \* bound: starts and stops in a behaviour

ASSUME RtConstants ==
    /\ RtNobody \notin RtCallers
    /\ RtFaults \subseteq {"window"} /\ RtMaxCalls \in Nat

VARIABLES
    rtRunning, rtEnabled, \* g_state["running"], g_state["enabled"]
    rtStop, rtAlive,      \* g_stop, g_alive
    rtLife,               \* who holds g_life_mu
    rtWatcher,            \* [Watchers -> "none", "loop", "busy", "leave" or "left"]
    rtCaller,             \* [RtCallers -> where the call is]
    rtCalls

rtFlags == <<rtRunning, rtEnabled, rtStop, rtAlive>>
rtVars  == <<rtFlags, rtLife, rtWatcher, rtCaller, rtCalls>>

RtInit ==
    /\ rtRunning = FALSE /\ rtEnabled = FALSE
    /\ rtStop = FALSE /\ rtAlive = FALSE
    /\ rtLife = RtNobody
    /\ rtWatcher = [w \in Watchers |-> "none"]
    /\ rtCaller = [c \in RtCallers |-> "idle"]
    /\ rtCalls = 0

RtGoto(c, l)      == rtCaller' = [rtCaller EXCEPT ![c] = l]
RtReturn(c)       == RtGoto(c, "idle") /\ rtLife' = RtNobody
WatcherIs(w, l)   == rtWatcher' = [rtWatcher EXCEPT ![w] = l]

CallRealtime(c) ==
    /\ rtCaller[c] = "idle" /\ rtCalls < RtMaxCalls
    /\ rtCalls' = rtCalls + 1
    /\ \E l \in {"start", "stop"} : RtGoto(c, l)
    /\ UNCHANGED <<rtFlags, rtLife, rtWatcher>>

-----------------------------------------------------------------------------
(* rt_start                                                                *)

InWindow == \E w \in Watchers : rtWatcher[w] = "left"

\* The decision: running and g_alive are read together, and draining.
StartDecides(c) ==
    /\ rtCaller[c] = "start" /\ rtLife = RtNobody
    /\ "window" \in RtFaults \/ ~InWindow
    /\ LET alive == rtRunning /\ rtAlive IN
       IF alive /\ ~rtStop
       THEN rtEnabled' = TRUE /\ RtGoto(c, "idle") /\ UNCHANGED rtLife
       ELSE /\ rtLife' = c
            /\ RtGoto(c, IF alive THEN "drain" ELSE "publish")
            /\ UNCHANGED rtEnabled
    /\ UNCHANGED <<rtRunning, rtStop, rtAlive, rtWatcher, rtCalls>>

\* Mutant: the call goes on although the old watcher is still there.
DrainTimesOutAndGoesOn(c) == RtGoto(c, "publish") /\ UNCHANGED rtLife

DrainTimesOut(c) == RtReturn(c)

\* wait_thread_done(5000): the old watcher is gone, or the call fails.
StartDrains(c) ==
    /\ rtCaller[c] = "drain"
    /\ \/ ~rtAlive /\ RtGoto(c, "publish") /\ UNCHANGED rtLife
       \/ rtAlive /\ DrainTimesOut(c)
    /\ UNCHANGED <<rtFlags, rtWatcher, rtCalls>>

StartPublishes(c) ==
    /\ rtCaller[c] = "publish"
    /\ rtRunning' = TRUE /\ rtEnabled' = TRUE
    /\ RtGoto(c, "clear")
    /\ UNCHANGED <<rtStop, rtAlive, rtLife, rtWatcher, rtCalls>>

StartClears(c) ==
    /\ rtCaller[c] = "clear"
    /\ rtStop' = FALSE /\ rtAlive' = TRUE
    /\ RtGoto(c, "spawn")
    /\ UNCHANGED <<rtRunning, rtEnabled, rtLife, rtWatcher, rtCalls>>

\* Mutant: the flags stay as they were published.
RollBackForgotten == UNCHANGED <<rtAlive, rtRunning, rtEnabled>>

\* What a failed thread construction takes back.
RollBack == rtAlive' = FALSE /\ rtRunning' = FALSE /\ rtEnabled' = FALSE

StartSpawns(c) ==
    /\ rtCaller[c] = "spawn"
    /\ \/ /\ \E w \in Watchers : rtWatcher[w] = "none" /\ WatcherIs(w, "loop")
          /\ UNCHANGED <<rtAlive, rtRunning, rtEnabled>>
       \/ RollBack /\ UNCHANGED rtWatcher
    /\ RtReturn(c)
    /\ UNCHANGED <<rtStop, rtCalls>>

-----------------------------------------------------------------------------
(* rt_stop                                                                 *)

StopSignals(c) ==
    /\ rtCaller[c] = "stop" /\ rtLife = RtNobody
    /\ rtLife' = c
    /\ rtStop' = TRUE
    /\ rtEnabled' = FALSE
    /\ RtGoto(c, "join")
    /\ UNCHANGED <<rtRunning, rtAlive, rtWatcher, rtCalls>>

\* wait_thread_done(2000), with no error when it times out.
StopReturnsAfterJoin(c) ==
    /\ rtCaller[c] = "join"
    /\ RtReturn(c)
    /\ UNCHANGED <<rtFlags, rtWatcher, rtCalls>>

-----------------------------------------------------------------------------
(* The watcher                                                             *)

\* Mutant: the sleep at the end of a round does not look at the flag.
SeesStopNever(w) == FALSE

\* Every sleep of the loop is cut short by g_stop, and every round tests it.
SeesStop(w) == rtStop

WatcherRound(w) ==
    /\ rtWatcher[w] = "loop"
    /\ IF SeesStop(w) THEN WatcherIs(w, "leave") ELSE WatcherIs(w, "busy")
    /\ UNCHANGED <<rtFlags, rtLife, rtCaller, rtCalls>>

\* A sync has ended or failed; both lead to the next test of g_stop.
WatcherSynced(w) ==
    /\ rtWatcher[w] = "busy"
    /\ WatcherIs(w, "loop")
    /\ UNCHANGED <<rtFlags, rtLife, rtCaller, rtCalls>>

WatcherLeaves(w) ==
    /\ rtWatcher[w] = "leave"
    /\ rtRunning' = FALSE /\ rtEnabled' = FALSE
    /\ WatcherIs(w, "left")
    /\ UNCHANGED <<rtStop, rtAlive, rtLife, rtCaller, rtCalls>>

WatcherGone(w) ==
    /\ rtWatcher[w] = "left"
    /\ rtAlive' = FALSE
    /\ WatcherIs(w, "none")
    /\ UNCHANGED <<rtRunning, rtEnabled, rtStop, rtLife, rtCaller, rtCalls>>

WatcherThread(w) == WatcherRound(w) \/ WatcherSynced(w) \/ WatcherLeaves(w) \/ WatcherGone(w)
RtCallStep(c) ==
    \/ StartDecides(c) \/ StartDrains(c) \/ StartPublishes(c) \/ StartClears(c)
    \/ StartSpawns(c) \/ StopSignals(c) \/ StopReturnsAfterJoin(c)

RtNext ==
    \/ \E c \in RtCallers : CallRealtime(c) \/ RtCallStep(c)
    \/ \E w \in Watchers : WatcherThread(w)

\* Threads are scheduled; a sync ends, its network calls have timeouts.
RtFairness == \A w \in Watchers : WF_rtVars(WatcherThread(w))

RtSpec == RtInit /\ [][RtNext]_rtVars /\ RtFairness

-----------------------------------------------------------------------------
(* Properties                                                              *)

Working == {w \in Watchers : rtWatcher[w] \in {"loop", "busy"}}

\* "only ever one live watcher — rt_start refuses to respawn while an old
\* draining thread is alive" (realtime.cpp:101-102): the pending sets and the
\* snapshots are shared without a lock because of it.
AtMostOneWatcher == Cardinality(Working) <= 1

\* Between calls g_alive is set exactly while a watcher will clear it, so no
\* later start waits for a thread that never was; and once it is clear the
\* status says neither running nor enabled (realtime.cpp:826-835, 1044-1060).
FlagsTellTheTruth ==
    rtLife = RtNobody =>
        /\ rtAlive = \E w \in Watchers : rtWatcher[w] # "none"
        /\ ~rtAlive => ~rtRunning /\ ~rtEnabled

\* A stop takes effect: the watcher leaves, unless somebody starts again.
StopTakesEffect == rtStop ~> Working = {} \/ ~rtStop
=============================================================================
