----------------------------- MODULE McpBridge -----------------------------
(***************************************************************************)
(* mcp_bridge.cpp: child processes that speak JSON-RPC over stdin and      *)
(* stdout, kept in a table of at most kMaxSessions.  A reader thread per   *)
(* child queues its lines, an SSE stream takes them; a request starts a    *)
(* child, writes to it or stops it, and every start first closes the idle  *)
(* sessions while it holds the table's mutex.  A fork takes along every    *)
(* pipe end that is open in the server, those of another start's session   *)
(* too: nothing is close-on-exec.                                          *)
(***************************************************************************)
EXTENDS Naturals, FiniteSets

CONSTANTS
    McpIds,         \* sessions of a behaviour
    McpThreads,     \* requests in flight at the same time
    McpNone,
    McpMaxSessions, \* kMaxSessions
    McpMaxLines     \* kMaxQueuedLines

ASSUME McpConstants ==
    /\ {McpMaxSessions, McpMaxLines} \subseteq Nat \ {0}
    /\ McpNone \notin McpIds \cup McpThreads

VARIABLES
    mcpTable,  \* ids in g_sessions
    mcpMutex,  \* the request that holds g_mu across a sweep
    mcpChild,  \* [McpIds -> "none", "pipes", "up", "hung" or "dead"]
    mcpLeft,   \* children that left a process of their own (cmd /c, npx)
    mcpPipes,  \* [McpIds -> the sessions whose processes hold its pipes' far ends]
    mcpStdin,  \* [McpIds -> is stdin_w open?]
    mcpReader, \* [McpIds -> "none", "run" or "done"]
    mcpLines,  \* [McpIds -> lines queued]
    mcpClosed, \* [McpIds -> Session::closed]
    mcpIdle,   \* sessions not used for ten minutes
    mcpWriter, \* [McpIds -> who holds write_mu]
    mcpThread  \* [McpThreads -> [op, at, s]]

mcpProcess == <<mcpChild, mcpLeft, mcpPipes>>
mcpSession == <<mcpProcess, mcpStdin, mcpReader, mcpLines, mcpClosed>>
mcpVars == <<mcpTable, mcpMutex, mcpSession, mcpIdle, mcpWriter, mcpThread>>

McpFree == [op |-> "none", at |-> "none", s |-> McpNone]

McpInit ==
    /\ mcpTable = {} /\ mcpMutex = McpNone
    /\ mcpChild = [s \in McpIds |-> "none"]
    /\ mcpLeft = {}
    /\ mcpPipes = [s \in McpIds |-> {}]
    /\ mcpStdin = [s \in McpIds |-> FALSE]
    /\ mcpReader = [s \in McpIds |-> "none"]
    /\ mcpLines = [s \in McpIds |-> 0]
    /\ mcpClosed = [s \in McpIds |-> FALSE]
    /\ mcpIdle = {}
    /\ mcpWriter = [s \in McpIds |-> McpNone]
    /\ mcpThread = [t \in McpThreads |-> McpFree]

McpAt(t, o, l)      == mcpThread[t].op = o /\ mcpThread[t].at = l
McpGoto(t, o, l, s) == mcpThread' = [mcpThread EXCEPT ![t] = [op |-> o, at |-> l, s |-> s]]
McpAnswer(t)        == mcpThread' = [mcpThread EXCEPT ![t] = McpFree]
McpRests            == UNCHANGED <<mcpSession, mcpWriter>>

-----------------------------------------------------------------------------
(* The child and its reader                                                *)

\* The processes of session h run: the child, or one it left.
Runs(h) == mcpChild[h] \in {"up", "hung"} \/ h \in mcpLeft

\* A process other than s's own child holds the far ends of its pipes.
HeldElsewhere(s) == s \in mcpLeft \/ \E h \in mcpPipes[s] \ {s} : Runs(h)

\* A line of output; the oldest goes when the queue is full.
ChildWrites(s) ==
    /\ mcpChild[s] = "up" /\ mcpReader[s] = "run" /\ mcpLines[s] < McpMaxLines
    /\ mcpLines' = [mcpLines EXCEPT ![s] = @ + 1]
    /\ UNCHANGED <<mcpTable, mcpMutex, mcpProcess, mcpStdin, mcpReader, mcpClosed, mcpIdle,
                   mcpWriter, mcpThread>>

\* The child exits, or with its pipe full stops reading; it leaves a process
\* that holds all it holds; and such a process ends.
ChildChanges(s) ==
    /\ \/ /\ mcpChild[s] = "up"
          /\ \E st \in {"dead", "hung"} : mcpChild' = [mcpChild EXCEPT ![s] = st]
          /\ UNCHANGED mcpLeft
       \/ mcpChild[s] = "up" /\ mcpLeft' = mcpLeft \cup {s} /\ UNCHANGED mcpChild
       \/ s \in mcpLeft /\ mcpLeft' = mcpLeft \ {s} /\ UNCHANGED mcpChild
    /\ UNCHANGED <<mcpTable, mcpMutex, mcpPipes, mcpStdin, mcpReader, mcpLines, mcpClosed,
                   mcpIdle, mcpWriter, mcpThread>>

\* End of file: nobody holds the other end any more.
ReaderEnds(s) ==
    /\ mcpReader[s] = "run" /\ mcpChild[s] = "dead" /\ ~HeldElsewhere(s)
    /\ mcpReader' = [mcpReader EXCEPT ![s] = "done"]
    /\ mcpClosed' = [mcpClosed EXCEPT ![s] = TRUE]
    /\ UNCHANGED <<mcpTable, mcpMutex, mcpProcess, mcpStdin, mcpLines, mcpIdle, mcpWriter,
                   mcpThread>>

SessionIdles(s) ==
    /\ s \in mcpTable \ mcpIdle
    /\ mcpIdle' = mcpIdle \cup {s}
    /\ UNCHANGED <<mcpTable, mcpMutex, mcpSession, mcpWriter, mcpThread>>

-----------------------------------------------------------------------------
(* POST start: sweep and cap under g_mu, spawn without it, insert under it *)

StartSweeps(t) ==
    /\ mcpThread[t] = McpFree /\ mcpMutex = McpNone
    /\ \E s \in McpIds : mcpChild[s] = "none"
    /\ mcpMutex' = t
    /\ McpGoto(t, "start", "sweep", McpNone)
    /\ McpRests /\ UNCHANGED <<mcpTable, mcpIdle>>

\* The next idle session of the sweep, or the cap.
SweepNext(t) ==
    /\ McpAt(t, "start", "sweep")
    /\ \/ \E s \in mcpTable \cap mcpIdle : McpGoto(t, "start", "shut", s) /\ UNCHANGED mcpMutex
       \/ /\ mcpTable \cap mcpIdle = {}
          /\ mcpMutex' = McpNone
          /\ IF Cardinality(mcpTable) >= McpMaxSessions THEN McpAnswer(t)
             ELSE McpGoto(t, "start", "spawn", McpNone)
    /\ McpRests /\ UNCHANGED <<mcpTable, mcpIdle>>

MakePipes(t) ==
    /\ McpAt(t, "start", "spawn")
    /\ \/ \E s \in McpIds :
            /\ mcpChild[s] = "none"
            /\ mcpChild' = [mcpChild EXCEPT ![s] = "pipes"]
            /\ McpGoto(t, "start", "fork", s)
       \/ McpAnswer(t) /\ UNCHANGED mcpChild
    /\ UNCHANGED <<mcpTable, mcpMutex, mcpLeft, mcpPipes, mcpStdin, mcpReader, mcpLines,
                   mcpClosed, mcpIdle, mcpWriter>>

\* The far ends of s's pipes are open in the server.
FarEndsOpen(s) ==
    \E t \in McpThreads :
        mcpThread[t].op = "start" /\ mcpThread[t].at \in {"fork", "close"} /\ mcpThread[t].s = s

\* The child holds the far ends of its own pipes, and those of every session that
\* another request has made pipes for and not yet closed them.
ForkChild(t) ==
    LET s == mcpThread[t].s IN
    /\ McpAt(t, "start", "fork")
    /\ \/ /\ mcpChild' = [mcpChild EXCEPT ![s] = "up"]
          /\ mcpPipes' = [x \in McpIds |->
                             IF FarEndsOpen(x) THEN mcpPipes[x] \cup {s} ELSE mcpPipes[x]]
          /\ McpGoto(t, "start", "close", s)
       \/ /\ mcpChild' = [mcpChild EXCEPT ![s] = "none"]
          /\ mcpPipes' = [mcpPipes EXCEPT ![s] = {}]
          /\ McpAnswer(t)
    /\ UNCHANGED <<mcpTable, mcpMutex, mcpLeft, mcpStdin, mcpReader, mcpLines, mcpClosed,
                   mcpIdle, mcpWriter>>

\* The server closes the far ends; the session has its stdin and its reader.
CloseFarEnds(t) ==
    LET s == mcpThread[t].s IN
    /\ McpAt(t, "start", "close")
    /\ mcpStdin' = [mcpStdin EXCEPT ![s] = TRUE]
    /\ mcpReader' = [mcpReader EXCEPT ![s] = "run"]
    /\ McpGoto(t, "start", "insert", s)
    /\ UNCHANGED <<mcpTable, mcpMutex, mcpProcess, mcpLines, mcpClosed, mcpIdle, mcpWriter>>

InsertSession(t) ==
    /\ McpAt(t, "start", "insert") /\ mcpMutex = McpNone
    /\ mcpTable' = mcpTable \cup {mcpThread[t].s}
    /\ McpAnswer(t)
    /\ McpRests /\ UNCHANGED <<mcpMutex, mcpIdle>>

-----------------------------------------------------------------------------
(* close_session, for a stop or (under g_mu) for a sweep                   *)

\* POST stop takes the session out of the table first.
StopSession(t) ==
    /\ mcpThread[t] = McpFree /\ mcpMutex = McpNone
    /\ \E s \in mcpTable :
         /\ mcpTable' = mcpTable \ {s}
         /\ McpGoto(t, "stop", "shut", s)
    /\ McpRests /\ UNCHANGED <<mcpMutex, mcpIdle>>

\* Mutant: the reader is joined before the child is killed.
AfterShutJoin == "join"

\* What follows the closing of stdin.
AfterShut == "kill"

CloseStdin(t) ==
    LET s == mcpThread[t].s IN
    /\ mcpThread[t].at = "shut" /\ mcpWriter[s] = McpNone
    /\ mcpStdin' = [mcpStdin EXCEPT ![s] = FALSE]
    /\ McpGoto(t, mcpThread[t].op, AfterShut, s)
    /\ UNCHANGED <<mcpTable, mcpMutex, mcpProcess, mcpReader, mcpLines, mcpClosed, mcpIdle,
                   mcpWriter>>

\* SIGTERM, a second of grace, SIGKILL, waitpid; what the child left is not killed.
KillChild(t) ==
    LET s == mcpThread[t].s IN
    /\ mcpThread[t].at = "kill"
    /\ mcpChild' = [mcpChild EXCEPT ![s] = "dead"]
    /\ McpGoto(t, mcpThread[t].op, "join", s)
    /\ UNCHANGED <<mcpTable, mcpMutex, mcpLeft, mcpPipes, mcpStdin, mcpReader, mcpLines,
                   mcpClosed, mcpIdle, mcpWriter>>

JoinReader(t) ==
    LET s == mcpThread[t].s IN
    /\ mcpThread[t].at = "join" /\ mcpReader[s] = "done"
    /\ IF mcpThread[t].op = "stop" THEN McpAnswer(t) /\ UNCHANGED mcpTable
       ELSE McpGoto(t, "start", "sweep", McpNone) /\ mcpTable' = mcpTable \ {s}
    /\ McpRests /\ UNCHANGED <<mcpMutex, mcpIdle>>

-----------------------------------------------------------------------------
(* POST send, GET stream                                                   *)

FindSession(t, o) ==
    /\ mcpThread[t] = McpFree /\ mcpMutex = McpNone
    /\ \E s \in mcpTable :
         /\ o = "send" => ~mcpClosed[s]
         /\ McpGoto(t, o, "found", s)
         /\ mcpIdle' = mcpIdle \ {s}
    /\ McpRests /\ UNCHANGED <<mcpTable, mcpMutex>>

\* Mutant: a closed stdin is not noticed.
StdinGoneUnseen(s) == FALSE

StdinGone(s) == ~mcpStdin[s]

\* write_line takes write_mu; the session may have been closed meanwhile.
BeginWrite(t) ==
    LET s == mcpThread[t].s IN
    /\ McpAt(t, "send", "found") /\ mcpWriter[s] = McpNone
    /\ IF StdinGone(s) THEN McpAnswer(t) /\ UNCHANGED mcpWriter
       ELSE McpGoto(t, "send", "write", s) /\ mcpWriter' = [mcpWriter EXCEPT ![s] = t]
    /\ UNCHANGED <<mcpTable, mcpMutex, mcpSession, mcpIdle>>

\* The pipe takes the line, or is broken.
EndWrite(t) ==
    LET s == mcpThread[t].s IN
    /\ McpAt(t, "send", "write")
    /\ mcpWriter' = [mcpWriter EXCEPT ![s] = McpNone]
    /\ McpAnswer(t)
    /\ UNCHANGED <<mcpTable, mcpMutex, mcpSession, mcpIdle>>

\* It may not, for ever, when it is full and nobody reads it but somebody could.
PipeMoves(s) == mcpChild[s] = "up" \/ (mcpChild[s] = "dead" /\ ~HeldElsewhere(s))

\* A turn of the stream: the lines, a ping after fifteen seconds, or the end
\* when the session is closed and empty.  The browser may leave at any time.
StreamTurn(t) ==
    LET s == mcpThread[t].s IN
    /\ McpAt(t, "stream", "found")
    /\ mcpLines' = [mcpLines EXCEPT ![s] = 0]
    /\ mcpIdle' = mcpIdle \ {s}
    /\ \/ UNCHANGED mcpThread /\ ~(mcpClosed[s] /\ mcpLines[s] = 0)
       \/ McpAnswer(t)
    /\ UNCHANGED <<mcpTable, mcpMutex, mcpProcess, mcpStdin, mcpReader, mcpClosed, mcpWriter>>

-----------------------------------------------------------------------------

McpStep(t) ==
    \/ SweepNext(t) \/ MakePipes(t) \/ ForkChild(t) \/ CloseFarEnds(t) \/ InsertSession(t)
    \/ CloseStdin(t) \/ KillChild(t) \/ JoinReader(t) \/ BeginWrite(t) \/ EndWrite(t)

McpNext ==
    \/ \E s \in McpIds : ChildWrites(s) \/ ChildChanges(s) \/ ReaderEnds(s) \/ SessionIdles(s)
    \/ \E t \in McpThreads :
         \/ StartSweeps(t) \/ StopSession(t) \/ StreamTurn(t) \/ McpStep(t)
         \/ \E o \in {"send", "stream"} : FindSession(t, o)

\* A step that only the scheduler, or a mutex that is free again, keeps waiting.
McpProceeds(t) ==
    /\ McpStep(t)
    /\ McpAt(t, "send", "write") => PipeMoves(mcpThread[t].s)

\* Threads are scheduled; a mutex that is free again and again is got.
McpFairness ==
    /\ \A t \in McpThreads : SF_mcpVars(McpProceeds(t))
    /\ \A s \in McpIds : WF_mcpVars(ReaderEnds(s))

McpSpec == McpInit /\ [][McpNext]_mcpVars /\ McpFairness

-----------------------------------------------------------------------------
(* Properties                                                              *)

\* Nothing is written to a pipe that close_session has closed, however a stop or
\* a sweep falls between the lookup of a session and the write.
WritesGoToOpenPipes ==
    \A t \in McpThreads : McpAt(t, "send", "write") => mcpStdin[mcpThread[t].s]

BeingClosed(s) ==
    \E t \in McpThreads :
        mcpThread[t].at \in {"shut", "kill", "join"} /\ mcpThread[t].s = s

\* What a close of s waits for and nothing in the server ends: a write to a pipe
\* that nobody reads, or a process that the child left, or that another start
\* forked while s's pipes were open, and that holds s's stdout.
Obstructed(s) ==
    \/ mcpWriter[s] # McpNone /\ ~PipeMoves(s)
    \/ mcpChild[s] = "dead" /\ HeldElsewhere(s)

\* A stop, and a start that sweeps, are done with a session they close, unless
\* such an obstruction stays for ever: neither the writer nor the reader, nor the
\* session's own living child, waits for the closer.
ClosingEnds ==
    \A s \in McpIds : <>[]Obstructed(s) \/ (BeingClosed(s) ~> ~BeingClosed(s))
=============================================================================
