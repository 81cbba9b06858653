----------------------------- MODULE HttpServer -----------------------------
(***************************************************************************)
(* httpd.cpp: the HTTP server under the editor backend and the gateway.    *)
(* An accept loop admits connections up to a number of slots and gives     *)
(* each a detached thread, which answers requests until the client, a      *)
(* refusal or `quit` ends it.  The destructor may only return, and free    *)
(* what the threads use, when all of them are through.                     *)
(*                                                                         *)
(* A connection stands for its socket, its client and its thread.  A       *)
(* handle is the number the process knows a socket by: once closed it may  *)
(* be given to the next connection, also while a thread still uses it.     *)
(* POSIX builds wake a parked recv() by shutdown() and leave closing to    *)
(* the thread, Windows builds close.                                       *)
(***************************************************************************)
EXTENDS Naturals, FiniteSets

CONSTANTS
    HsConns,      \* bound: the connections of a behaviour
    HsHandles,    \* bound: the handles sockets may get, numbers
    HsLimits,     \* max_slots
    HsPlatforms,  \* subset of {"posix", "windows"}
    HsMaxAsks,    \* bound: requests of a behaviour
    HsNone

ASSUME HsConstants ==
    /\ HsLimits \subseteq Nat \ {0} /\ HsHandles \subseteq Nat /\ HsMaxAsks \in Nat
    /\ HsPlatforms \subseteq {"posix", "windows"} /\ HsNone \notin HsConns

VARIABLES
    hsPlatform, hsLimit,
    hsMain,      \* the thread of run.cpp that owns the Httpd; "exited": no process
    hsAccept,    \* the accept loop: pc and the connection it has accepted
    hsListening, \* the listening socket is open
    hsQuit, hsSlots,
    hsRegistry,  \* conns: handles of live connections
    hsLock,      \* who holds conn_mu from one step to the next
    hsFlag,      \* g_shutdown_after
    hsConn,      \* [HsConns -> pc, handle and request of the thread]
    hsSocket,    \* [HsHandles -> the connection the handle stands for now]
    hsPipe,      \* [HsConns -> the request that waits to be read]
    hsShut,      \* connections wake_conns has shut down
    hsAsked,     \* requests so far
    hsAnswered   \* [HsConns -> threads whose answers the client has had] (history)

hsVars == <<hsPlatform, hsLimit, hsMain, hsAccept, hsListening, hsQuit, hsSlots, hsRegistry,
            hsLock, hsFlag, hsConn, hsSocket, hsPipe, hsShut, hsAsked, hsAnswered>>
hsSetup == <<hsPlatform, hsLimit>>
hsPeers == <<hsPipe, hsAsked>>
hsHost == <<hsMain, hsListening>>

HsKinds == {"any", "shutdown"}

HsAway == [pc |-> "away", handle |-> 0, kind |-> "any"]

HsInit ==
    /\ hsPlatform \in HsPlatforms /\ hsLimit \in HsLimits
    /\ hsMain = "serving"
    /\ hsAccept = [pc |-> "look", conn |-> HsNone]
    /\ hsListening = TRUE /\ hsQuit = FALSE /\ hsSlots = 0
    /\ hsRegistry = {} /\ hsLock = HsNone /\ hsFlag = FALSE
    /\ hsConn = [k \in HsConns |-> HsAway]
    /\ hsSocket = [h \in HsHandles |-> HsNone]
    /\ hsPipe = [k \in HsConns |-> "quiet"]
    /\ hsShut = {} /\ hsAsked = 0
    /\ hsAnswered = [k \in HsConns |-> {}]

HsAt(k, pc) == hsConn[k].pc = pc
HsGo(k, pc) == hsConn' = [hsConn EXCEPT ![k].pc = pc]

\* The connection at the other end of what thread k takes for its socket.
HsPeer(k) == hsSocket[hsConn[k].handle]

\* The client of k has a socket the server has not closed.
HsOpen(k) == \E h \in HsHandles : hsSocket[h] = k

HsInside == {"top", "recv", "handle", "answer", "leave", "stop", "kill", "close", "count", "unlock"}

-----------------------------------------------------------------------------
(* The clients                                                             *)

HsAsk(k, kind) ==
    /\ HsOpen(k) /\ hsPipe[k] = "quiet" /\ k \notin hsShut
    /\ hsAsked < HsMaxAsks                                        \* bound
    /\ hsPipe' = [hsPipe EXCEPT ![k] = kind]
    /\ hsAsked' = hsAsked + 1
    /\ UNCHANGED <<hsSetup, hsHost, hsAccept, hsQuit, hsSlots, hsRegistry, hsLock, hsFlag,
                   hsConn, hsSocket, hsShut, hsAnswered>>

-----------------------------------------------------------------------------
(* The accept loop                                                         *)

HsAcceptUnchanged == UNCHANGED <<hsSetup, hsMain, hsQuit, hsLock, hsFlag, hsPeers, hsAnswered>>

\* The POSIX loop looks at quit first, Windows at nothing but what accept() returns.
HsLook ==
    /\ hsAccept.pc = "look"
    /\ hsAccept' = [hsAccept EXCEPT !.pc = IF hsPlatform = "posix" /\ hsQuit
                                           THEN "end" ELSE "poll"]
    /\ UNCHANGED <<hsListening, hsSlots, hsRegistry, hsConn, hsSocket, hsShut>>
    /\ HsAcceptUnchanged

\* poll() times out (POSIX), or stop() has closed the listening socket (Windows).
HsNobody ==
    /\ hsAccept.pc = "poll"
    /\ hsPlatform = "posix" \/ ~hsListening
    /\ hsAccept' = [hsAccept EXCEPT !.pc = IF hsPlatform = "posix" THEN "look" ELSE "end"]
    /\ UNCHANGED <<hsListening, hsSlots, hsRegistry, hsConn, hsSocket, hsShut>>
    /\ HsAcceptUnchanged

\* poll() or accept() fails with an error the loop does not retry, such as no
\* descriptor left: it ends, and the process stays.
HsAcceptFails ==
    /\ hsAccept.pc = "poll"
    /\ hsAccept' = [hsAccept EXCEPT !.pc = "end"]
    /\ UNCHANGED <<hsListening, hsSlots, hsRegistry, hsConn, hsSocket, hsShut>>
    /\ HsAcceptUnchanged

\* Handles accept() may return: closed ones, whoever still holds their number.
HsFree == {h \in HsHandles : hsSocket[h] = HsNone}

\* accept() returns a connection of the listening socket's queue, with the least
\* free handle.
HsTake(k) ==
    /\ hsAccept.pc = "poll" /\ hsListening /\ HsAt(k, "away")
    /\ \E h \in HsFree :
         /\ \A g \in HsFree : h <= g
         /\ hsSocket' = [hsSocket EXCEPT ![h] = k]
         /\ hsConn' = [hsConn EXCEPT ![k].pc = "taken", ![k].handle = h]
    /\ hsAccept' = [pc |-> "admit", conn |-> k]
    /\ UNCHANGED <<hsListening, hsSlots, hsRegistry, hsShut>>
    /\ HsAcceptUnchanged

\* try_acquire, register_conn and the start of the thread.  Nobody sees a step
\* between them: without its slot the loop cannot be joined, and what wake_conns
\* does to a registered connection its thread finds at its first recv().
HsAdmit ==
    /\ hsAccept.pc = "admit" /\ hsSlots < hsLimit /\ hsLock = HsNone
    /\ hsSlots' = hsSlots + 1
    /\ hsRegistry' = hsRegistry \cup {hsConn[hsAccept.conn].handle}
    /\ HsGo(hsAccept.conn, "top")
    /\ hsAccept' = [pc |-> "look", conn |-> HsNone]
    /\ UNCHANGED <<hsListening, hsSocket, hsShut>>
    /\ HsAcceptUnchanged

\* A connection over the limit is answered 503 and closed.
HsRefuse ==
    LET k == hsAccept.conn IN
    /\ hsAccept.pc = "admit" /\ hsSlots >= hsLimit
    /\ hsSocket' = [hsSocket EXCEPT ![hsConn[k].handle] = HsNone]
    /\ HsGo(k, "over")
    /\ hsAccept' = [pc |-> "look", conn |-> HsNone]
    /\ UNCHANGED <<hsListening, hsSlots, hsRegistry, hsShut>>
    /\ HsAcceptUnchanged

\* std::thread throws and nothing catches it: the process is terminated.
HsSpawnFails ==
    /\ hsAccept.pc = "admit" /\ hsSlots < hsLimit
    /\ hsMain' = "exited"
    /\ UNCHANGED <<hsSetup, hsAccept, hsListening, hsQuit, hsSlots, hsRegistry, hsLock, hsFlag,
                   hsConn, hsSocket, hsPeers, hsShut, hsAnswered>>

\* The loop closes the listening socket it owns; what is still in its queue is refused.
HsAcceptEnds ==
    /\ hsAccept.pc = "end"
    /\ hsListening' = (hsListening /\ hsPlatform = "windows")
    /\ hsAccept' = [hsAccept EXCEPT !.pc = "over"]
    /\ UNCHANGED <<hsSlots, hsRegistry, hsConn, hsSocket, hsShut>>
    /\ HsAcceptUnchanged

-----------------------------------------------------------------------------
(* serve_connection and the Release guard of a connection's thread         *)

HsThreadUnchanged == UNCHANGED <<hsSetup, hsHost, hsAccept>>

HsTop(k) ==
    /\ HsAt(k, "top")
    /\ HsGo(k, IF hsQuit THEN "leave" ELSE "recv")
    /\ UNCHANGED <<hsQuit, hsSlots, hsRegistry, hsLock, hsFlag, hsSocket, hsPeers, hsShut, hsAnswered>>
    /\ HsThreadUnchanged

\* recv() returns a request, or the end of what a shut or closed socket gives.
HsReceive(k) ==
    LET p == HsPeer(k) IN
    /\ HsAt(k, "recv")
    /\ \/ /\ p # HsNone /\ hsPipe[p] # "quiet"
          /\ hsConn' = [hsConn EXCEPT ![k].pc = "handle", ![k].kind = hsPipe[p]]
          /\ hsPipe' = [hsPipe EXCEPT ![p] = "quiet"]
       \/ /\ IF p = HsNone THEN TRUE ELSE p \in hsShut /\ hsPipe[p] = "quiet"
          /\ HsGo(k, "leave")
          /\ UNCHANGED hsPipe
    /\ UNCHANGED <<hsQuit, hsSlots, hsRegistry, hsLock, hsFlag, hsSocket, hsShut, hsAsked, hsAnswered>>
    /\ HsThreadUnchanged

\* The client has hung up or stopped in the middle of a request, or the receive
\* timeout of an idle connection is over.
HsIdle(k) ==
    /\ HsAt(k, "recv")
    /\ HsGo(k, "leave")
    /\ UNCHANGED <<hsQuit, hsSlots, hsRegistry, hsLock, hsFlag, hsSocket, hsPeers, hsShut, hsAnswered>>
    /\ HsThreadUnchanged

\* Router::dispatch, for a request that gets there.
HsHandle(k) ==
    /\ HsAt(k, "handle")
    /\ hsFlag' = (hsFlag \/ hsConn[k].kind = "shutdown")
    /\ HsGo(k, "answer")
    /\ UNCHANGED <<hsQuit, hsSlots, hsRegistry, hsLock, hsSocket, hsPeers, hsShut, hsAnswered>>
    /\ HsThreadUnchanged

\* The connection stays open unless the client or a refusal ends it, or somebody
\* has asked for shutdown.  A send() to a closed or shut socket fails; it also may
\* because the client left.
HsAnswer(k) ==
    LET p == HsPeer(k) IN
    /\ HsAt(k, "answer")
    /\ \/ /\ p # HsNone /\ p \notin hsShut
          /\ hsAnswered' = [hsAnswered EXCEPT ![p] = @ \cup {k}]
          /\ \E pc \in {"top", "leave"} :
               /\ hsFlag => pc = "leave"
               /\ hsConn' = [hsConn EXCEPT ![k].pc = pc, ![k].kind = "any"]
       \/ /\ hsConn' = [hsConn EXCEPT ![k].pc = "leave", ![k].kind = "any"]
          /\ UNCHANGED hsAnswered
    /\ UNCHANGED <<hsQuit, hsSlots, hsRegistry, hsLock, hsFlag, hsSocket, hsPeers, hsShut>>
    /\ HsThreadUnchanged

\* The first thread to leave after /api/shutdown takes the process with it.
HsLeave(k) ==
    /\ HsAt(k, "leave")
    /\ HsGo(k, IF hsFlag THEN "stop" ELSE "close")
    /\ hsFlag' = FALSE
    /\ UNCHANGED <<hsQuit, hsSlots, hsRegistry, hsLock, hsSocket, hsPeers, hsShut, hsAnswered>>
    /\ HsThreadUnchanged

\* close_conn; what was still in the socket goes with it.
HsClose(k) ==
    LET h == hsConn[k].handle IN
    /\ HsAt(k, "close") /\ hsLock = HsNone
    /\ hsRegistry' = hsRegistry \ {h}
    /\ hsSocket' = IF h \in hsRegistry THEN [hsSocket EXCEPT ![h] = HsNone] ELSE hsSocket
    /\ hsPipe' = [hsPipe EXCEPT ![k] = "quiet"] /\ hsShut' = hsShut \ {k}
    /\ HsGo(k, "count")
    /\ UNCHANGED <<hsQuit, hsSlots, hsLock, hsFlag, hsAsked, hsAnswered>>
    /\ HsThreadUnchanged

\* The rest of ~Release: the slot is given back while conn_mu is held.
HsCount(k) ==
    /\ HsAt(k, "count") /\ hsLock = HsNone
    /\ hsLock' = k
    /\ hsSlots' = hsSlots - 1
    /\ HsGo(k, "unlock")
    /\ UNCHANGED <<hsQuit, hsRegistry, hsFlag, hsSocket, hsPeers, hsShut, hsAnswered>>
    /\ HsThreadUnchanged

HsUnlock(k) ==
    /\ HsAt(k, "unlock")
    /\ hsLock' = HsNone
    /\ HsGo(k, "over")
    /\ UNCHANGED <<hsQuit, hsSlots, hsRegistry, hsFlag, hsSocket, hsPeers, hsShut, hsAnswered>>
    /\ HsThreadUnchanged

-----------------------------------------------------------------------------
(* stop() and ~Httpd                                                       *)

\* Mutant: every build closes the sockets it wakes.
HsAnyBuild == TRUE

\* wake_conns of this build closes.
HsWakeCloses == hsPlatform = "windows"

\* Mutant: the parked threads are left to their receive timeout.
HsWakesNobody == {}

\* The connections wake_conns finds in the registry.
HsWoken == {hsSocket[h] : h \in hsRegistry}

\* wake_conns
HsWake ==
    /\ hsLock = HsNone
    /\ IF HsWakeCloses
       THEN /\ hsSocket' = [h \in HsHandles |-> IF hsSocket[h] \in HsWoken
                                                THEN HsNone ELSE hsSocket[h]]
            /\ hsRegistry' = {h \in hsRegistry : hsSocket[h] \notin HsWoken}
            /\ UNCHANGED hsShut
       ELSE hsShut' = hsShut \cup HsWoken /\ UNCHANGED <<hsSocket, hsRegistry>>

\* A connection's thread runs stop() and _Exit.
HsStopHere(k) ==
    /\ HsAt(k, "stop")
    /\ hsQuit' = TRUE
    /\ HsWake
    /\ hsListening' = (hsListening /\ hsPlatform = "posix")
    /\ HsGo(k, "kill")
    /\ UNCHANGED <<hsSetup, hsMain, hsAccept, hsSlots, hsLock, hsFlag, hsPeers,
                   hsAnswered>>

HsKill(k) ==
    /\ HsAt(k, "kill")
    /\ hsMain' = "exited"
    /\ UNCHANGED <<hsSetup, hsAccept, hsListening, hsQuit, hsSlots, hsRegistry, hsLock, hsFlag,
                   hsConn, hsSocket, hsPeers, hsShut, hsAnswered>>

\* SIGINT, SIGTERM or request_exit
HsSignal ==
    /\ hsMain = "serving"
    /\ hsMain' = "stop"
    /\ UNCHANGED <<hsSetup, hsAccept, hsListening, hsQuit, hsSlots, hsRegistry, hsLock, hsFlag,
                   hsConn, hsSocket, hsPeers, hsShut, hsAnswered>>

HsMainUnchanged ==
    UNCHANGED <<hsSetup, hsAccept, hsSlots, hsLock, hsFlag, hsConn, hsPeers, hsAnswered>>

\* stop(), called by run.cpp: quit, then wake_conns, then, on Windows, the
\* listening socket.
HsQuits ==
    /\ hsMain = "stop"
    /\ hsQuit' = TRUE
    /\ hsMain' = "wake"
    /\ UNCHANGED <<hsListening, hsRegistry, hsSocket, hsShut>>
    /\ HsMainUnchanged

HsWakes ==
    /\ hsMain = "wake"
    /\ HsWake
    /\ hsMain' = IF hsPlatform = "windows" THEN "unlisten" ELSE "destroy"
    /\ UNCHANGED <<hsListening, hsQuit>>
    /\ HsMainUnchanged

HsUnlistens ==
    /\ hsMain = "unlisten"
    /\ hsListening' = FALSE
    /\ hsMain' = "destroy"
    /\ UNCHANGED <<hsQuit, hsRegistry, hsSocket, hsShut>>
    /\ HsMainUnchanged

\* The destructor calls stop() again: what is left for it to do is to wake.
HsDestroys ==
    /\ hsMain = "destroy"
    /\ HsWake
    /\ hsMain' = "join"
    /\ UNCHANGED <<hsListening, hsQuit>>
    /\ HsMainUnchanged

HsJoin ==
    /\ hsMain = "join" /\ hsAccept.pc = "over"
    /\ hsMain' = "drain"
    /\ UNCHANGED <<hsListening, hsQuit, hsRegistry, hsSocket, hsShut>>
    /\ HsMainUnchanged

\* Mutant: the drain waits for the registry to empty.
HsDrainedByRegistry == hsRegistry = {}

\* What ends drain_conns.  The loop reads slots without conn_mu, so it may see the
\* last slot given back before the thread that did so has unlocked.
HsDrained == hsSlots = 0

\* drain_conns: a round wakes who is parked and waits at most 10 ms.
HsDrainRound ==
    /\ hsMain = "drain" /\ hsSlots > 0
    /\ HsWake
    /\ UNCHANGED <<hsMain, hsListening, hsQuit>>
    /\ HsMainUnchanged

\* ~Httpd returns: Impl and then the Router are freed.
HsFreed ==
    /\ hsMain = "drain" /\ HsDrained
    /\ hsMain' = "gone"
    /\ UNCHANGED <<hsListening, hsQuit, hsRegistry, hsSocket, hsShut>>
    /\ HsMainUnchanged

-----------------------------------------------------------------------------
HsAccepts == HsLook \/ HsNobody \/ HsAdmit \/ HsRefuse \/ HsAcceptEnds
             \/ \E k \in HsConns : HsTake(k)

\* Of a thread's steps only HsIdle is no part of the fairness.
HsThread(k) ==
    \/ HsTop(k) \/ HsReceive(k) \/ HsHandle(k) \/ HsAnswer(k) \/ HsLeave(k)
    \/ HsStopHere(k) \/ HsKill(k) \/ HsClose(k) \/ HsCount(k) \/ HsUnlock(k)

HsOwner == HsQuits \/ HsWakes \/ HsUnlistens \/ HsDestroys \/ HsJoin \/ HsDrainRound \/ HsFreed

HsNext ==
    /\ hsMain # "exited"
    /\ \/ HsAccepts \/ HsAcceptFails \/ HsSpawnFails \/ HsOwner \/ HsSignal
       \/ \E k \in HsConns :
            \/ HsThread(k) \/ HsIdle(k)
            \/ \E kind \in HsKinds : HsAsk(k, kind)

\* Handlers return, a shut or closed socket ends a recv(), poll() times out.
\* Nothing makes a client ask or leave, and no idle timeout is waited for.
HsFairness ==
    /\ WF_hsVars(hsMain # "exited" /\ HsAccepts)
    /\ WF_hsVars(HsOwner)
    /\ \A k \in HsConns : WF_hsVars(hsMain # "exited" /\ HsThread(k))

HsSpec == HsInit /\ [][HsNext]_hsVars /\ HsFairness

-----------------------------------------------------------------------------
(* Properties                                                              *)

\* When the destructor has returned, the accept loop is over and every thread has
\* given its slot back: none is in a handler or before close_conn, where it would
\* use the freed Impl or the Router, and of the guards only the last may still
\* have to unlock (drain_conns, ~Httpd, ~Release).
FreedAfterTheLastSlot ==
    hsMain = "gone" =>
        /\ hsAccept.pc = "over"
        /\ \A k \in HsConns : hsConn[k].pc \in HsInside => HsAt(k, "unlock") /\ hsLock = k

\* The destructor does not free Impl while a guard is still touching it ("it must
\* not observe 0 and free Impl until this destructor is done touching it", ~Release).
NothingRunsInTheFreed ==
    hsMain = "gone" => \A k \in HsConns : hsConn[k].pc \notin HsInside

\* A client only ever gets answers of the thread that serves it: no thread writes
\* to a handle that was closed under it and given to somebody else.  With POSIX
\* this holds to the end, with Windows until the server is told to stop: from then
\* on wake_conns closes sockets their threads still use.
AnswersStayHome ==
    hsPlatform = "posix" \/ ~hsQuit => \A k \in HsConns : hsAnswered[k] \subseteq {k}

\* Once the server is told to stop its destructor returns, without waiting for a
\* client or an idle timeout, whatever was connected or being accepted just then.
DestructorReturns == hsMain = "stop" ~> hsMain \in {"gone", "exited"}
=============================================================================
