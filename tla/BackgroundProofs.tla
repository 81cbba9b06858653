-------------------------- MODULE BackgroundProofs --------------------------
(***************************************************************************)
(* Theorems about the server's background threads: the MCP bridge's        *)
(* writers, the realtime watcher, what it uploads, and the job queue, for  *)
(* any number of requests, sessions, lives, files and jobs.                *)
(***************************************************************************)
EXTENDS JobQueue, RealtimeLife, McpBridge, CloudSync, FiniteSetTheorems, TLAPS

-----------------------------------------------------------------------------
(* The MCP bridge                                                          *)

McpTypeOK ==
    /\ mcpStdin \in [McpIds -> BOOLEAN]
    /\ mcpWriter \in [McpIds -> McpThreads \cup {McpNone}]
    /\ DOMAIN mcpThread = McpThreads

\* A thread that writes holds write_mu of an open session: close_session takes
\* write_mu to close stdin, and write_line looks at stdin once it has it.
WriterHolds ==
    \A t \in McpThreads : McpAt(t, "send", "write") =>
        /\ mcpThread[t].s \in McpIds
        /\ mcpWriter[mcpThread[t].s] = t
        /\ mcpStdin[mcpThread[t].s]

\* The places of a start that has a session.
Starting == {"fork", "close", "insert"}

\* A thread that deals with a session knows which.
SessionKnown ==
    \A t \in McpThreads :
        mcpThread[t].at \in {"shut", "kill", "join", "found", "write"} \cup Starting =>
            mcpThread[t].s \in McpIds

TableTyped == mcpTable \subseteq McpIds

McpInv == McpTypeOK /\ WriterHolds /\ SessionKnown /\ TableTyped

\* At first no thread writes.
LEMMA McpInvInit == McpInit => McpInv
BY DEF McpInit, McpInv, McpTypeOK, WriterHolds, SessionKnown, TableTyped, McpAt, McpFree,
       Starting

\* A step that leaves stdin and write_mu alone keeps the writers' hold, whichever
\* thread it moves to a place other than a write.
LEMMA McpOthersMove ==
    ASSUME McpInv, NEW t \in McpThreads, NEW o, NEW l, NEW s,
           McpGoto(t, o, l, s), l # "write",
           l \in {"shut", "kill", "join", "found"} \cup Starting => s \in McpIds,
           UNCHANGED <<mcpStdin, mcpWriter>>, mcpTable' \subseteq McpIds
    PROVE  McpInv'
BY DEF McpInv, McpTypeOK, WriterHolds, SessionKnown, TableTyped, McpAt, McpGoto

\* close_session waits for write_mu, so no step takes the pipe from its writer.
LEMMA McpInvNext == McpInv /\ [McpNext]_mcpVars => McpInv'
<1> SUFFICES ASSUME McpInv, [McpNext]_mcpVars
             PROVE  McpInv'
  OBVIOUS
<1>0. McpTypeOK /\ WriterHolds /\ SessionKnown /\ TableTyped
  BY DEF McpInv
<1>1. ASSUME UNCHANGED <<mcpStdin, mcpWriter, mcpThread, mcpTable>>
      PROVE  McpInv'
  BY <1>1 DEF McpInv, McpTypeOK, WriterHolds, SessionKnown, TableTyped, McpAt
<1>2. ASSUME NEW t \in McpThreads, McpAnswer(t), UNCHANGED <<mcpStdin, mcpWriter>>,
             mcpTable' \subseteq McpIds
      PROVE  McpInv'
  BY <1>2, McpOthersMove DEF McpAnswer, McpFree, McpGoto, Starting
<1>3. ASSUME NEW s \in McpIds,
             ChildWrites(s) \/ ChildChanges(s) \/ ReaderEnds(s) \/ SessionIdles(s)
      PROVE  McpInv'
  BY <1>1, <1>3 DEF ChildWrites, ChildChanges, ReaderEnds, SessionIdles, mcpSession, mcpProcess
<1>4. ASSUME NEW t \in McpThreads, StartSweeps(t) \/ SweepNext(t)
      PROVE  McpInv'
  BY <1>0, <1>2, <1>4, McpOthersMove
     DEF StartSweeps, SweepNext, McpRests, mcpSession, TableTyped, Starting
<1>5. ASSUME NEW t \in McpThreads, MakePipes(t) \/ ForkChild(t) \/ CloseFarEnds(t)
      PROVE  McpInv'
  <2>1. CASE MakePipes(t)
    BY <1>0, <1>2, <2>1, McpOthersMove DEF MakePipes, TableTyped, Starting
  <2>2. CASE ForkChild(t)
    BY <1>0, <1>2, <2>2, McpOthersMove DEF ForkChild, McpAt, TableTyped, SessionKnown, Starting
  <2>3. CASE CloseFarEnds(t)
    BY <1>0, <2>3
       DEF CloseFarEnds, McpInv, McpTypeOK, WriterHolds, SessionKnown, Starting, TableTyped,
           McpAt, McpGoto
  <2> QED BY <1>5, <2>1, <2>2, <2>3
<1>6. ASSUME NEW t \in McpThreads, InsertSession(t) \/ StopSession(t) \/ JoinReader(t)
      PROVE  McpInv'
  BY <1>0, <1>2, <1>6, McpOthersMove
     DEF InsertSession, StopSession, JoinReader, McpAt, McpRests, mcpSession, TableTyped,
         SessionKnown, Starting
<1>7. ASSUME NEW t \in McpThreads, CloseStdin(t)
      PROVE  McpInv'
  BY <1>0, <1>7, McpConstants
     DEF CloseStdin, AfterShut, McpInv, McpTypeOK, WriterHolds, SessionKnown, TableTyped,
         McpAt, McpGoto
<1>8. ASSUME NEW t \in McpThreads, KillChild(t)
      PROVE  McpInv'
  BY <1>0, <1>8, McpOthersMove DEF KillChild, TableTyped, SessionKnown
<1>9. ASSUME NEW t \in McpThreads, NEW o \in {"send", "stream"}, FindSession(t, o)
      PROVE  McpInv'
  BY <1>0, <1>9, McpOthersMove DEF FindSession, McpRests, mcpSession, TableTyped
<1>10. ASSUME NEW t \in McpThreads, BeginWrite(t)
       PROVE  McpInv'
  <2>1. mcpThread[t].s \in McpIds
    BY <1>0, <1>10 DEF BeginWrite, McpAt, SessionKnown
  <2>2. CASE McpAnswer(t) /\ UNCHANGED mcpWriter
    BY <1>0, <1>2, <1>10, <2>2 DEF BeginWrite, mcpSession, TableTyped
  <2>3. CASE /\ ~StdinGone(mcpThread[t].s)
             /\ McpGoto(t, "send", "write", mcpThread[t].s)
             /\ mcpWriter' = [mcpWriter EXCEPT ![mcpThread[t].s] = t]
    BY <1>0, <1>10, <2>1, <2>3, McpConstants
       DEF BeginWrite, StdinGone, mcpSession, McpInv, McpTypeOK, WriterHolds, SessionKnown,
           TableTyped, McpAt, McpGoto
  <2> QED BY <1>10, <2>2, <2>3 DEF BeginWrite
<1>11. ASSUME NEW t \in McpThreads, EndWrite(t)
       PROVE  McpInv'
  BY <1>0, <1>11, McpConstants
     DEF EndWrite, mcpSession, McpInv, McpTypeOK, WriterHolds, SessionKnown, TableTyped,
         McpAt, McpAnswer, McpFree, Starting
<1>12. ASSUME NEW t \in McpThreads, StreamTurn(t)
       PROVE  McpInv'
  BY <1>0, <1>1, <1>2, <1>12 DEF StreamTurn, TableTyped
<1>13. CASE UNCHANGED mcpVars
  BY <1>1, <1>13 DEF mcpVars, mcpSession
<1> QED
  BY <1>3, <1>4, <1>5, <1>6, <1>7, <1>8, <1>9, <1>10, <1>11, <1>12, <1>13
     DEF McpNext, McpStep

\* No request ever writes to a session's stdin once close_session has closed it,
\* however many requests send, stop and sweep at the same time.
THEOREM WritersSafe == McpSpec => []WritesGoToOpenPipes
<1>1. McpInv => WritesGoToOpenPipes
  BY DEF McpInv, WriterHolds, WritesGoToOpenPipes
<1> QED BY <1>1, McpInvInit, McpInvNext, PTL DEF McpSpec

-----------------------------------------------------------------------------
(* The realtime watcher                                                    *)

RtInside == {"drain", "publish", "clear", "spawn", "join"}

RtTypeOK ==
    /\ rtRunning \in BOOLEAN /\ rtEnabled \in BOOLEAN
    /\ rtStop \in BOOLEAN /\ rtAlive \in BOOLEAN
    /\ rtLife \in RtCallers \cup {RtNobody}
    /\ rtWatcher \in [Watchers -> {"none", "loop", "busy", "leave", "left"}]
    /\ rtCaller \in [RtCallers -> RtInside \cup {"idle", "start", "stop"}]

\* A call past its decision holds the life mutex, and nobody else does.
LifeHeld ==
    /\ \A c \in RtCallers : rtCaller[c] \in RtInside => rtLife = c
    /\ rtLife # RtNobody => rtCaller[rtLife] \in RtInside

RtCallAt(l) == \E c \in RtCallers : rtCaller[c] = l
NoWatcher   == \A w \in Watchers : rtWatcher[w] = "none"
OneWatcher  == \A v, w \in Watchers :
                  rtWatcher[v] # "none" /\ rtWatcher[w] # "none" => v = w

\* What the flags say of the watcher at each point of a start.
FlagsFollow ==
    /\ RtCallAt("publish") => NoWatcher /\ ~rtAlive
    /\ RtCallAt("clear") => NoWatcher /\ ~rtAlive /\ rtRunning
    /\ RtCallAt("spawn") => NoWatcher /\ rtAlive /\ rtRunning
    /\ ~(RtCallAt("publish") \/ RtCallAt("clear") \/ RtCallAt("spawn")) =>
          /\ rtAlive <=> ~NoWatcher
          /\ ~rtAlive => ~rtRunning /\ ~rtEnabled
    /\ \A w \in Watchers :
          /\ rtWatcher[w] \in {"loop", "busy", "leave"} => rtRunning
          /\ rtWatcher[w] = "left" => ~rtRunning /\ ~rtEnabled

RtInv == RtTypeOK /\ LifeHeld /\ OneWatcher /\ FlagsFollow

\* At first there is no watcher and no call.
LEMMA RtInvInit == RtInit => RtInv
BY RtConstants
   DEF RtInit, RtInv, RtTypeOK, RtInside, LifeHeld, OneWatcher, FlagsFollow, RtCallAt,
       NoWatcher

\* g_life_mu serialises starts and stops; a watcher lowers its flags itself, in
\* order.
LEMMA RtInvNext ==
    ASSUME "window" \notin RtFaults, RtInv, [RtNext]_rtVars
    PROVE  RtInv'
<1>0. RtTypeOK /\ LifeHeld /\ OneWatcher /\ FlagsFollow
  BY DEF RtInv
<1> USE RtConstants DEF RtInv, RtTypeOK, RtInside, LifeHeld, OneWatcher, FlagsFollow,
        RtCallAt, NoWatcher, RtGoto, RtReturn, WatcherIs, rtFlags
<1>1. ASSUME NEW c \in RtCallers, CallRealtime(c)
      PROVE  RtInv'
  BY <1>0, <1>1 DEF CallRealtime
<1>2. ASSUME NEW c \in RtCallers, StartDecides(c)
      PROVE  RtInv'
  <2>1. CASE rtRunning /\ rtAlive /\ ~rtStop
    BY <1>0, <1>2, <2>1 DEF StartDecides
  <2>2. CASE rtRunning /\ rtAlive /\ rtStop
    BY <1>0, <1>2, <2>2 DEF StartDecides
  <2>3. CASE ~(rtRunning /\ rtAlive)
    <3>1. \A c2 \in RtCallers : rtCaller[c2] \notin RtInside
      BY <1>0, <1>2 DEF StartDecides
    <3>2. NoWatcher /\ ~rtAlive
      BY <1>0, <1>2, <2>3, <3>1 DEF StartDecides, InWindow
    <3> QED BY <1>0, <1>2, <2>3, <3>1, <3>2 DEF StartDecides
  <2> QED BY <1>0, <2>1, <2>2, <2>3
<1>3. ASSUME NEW c \in RtCallers, StartDrains(c)
      PROVE  RtInv'
  BY <1>0, <1>3 DEF StartDrains, DrainTimesOut
<1>4. ASSUME NEW c \in RtCallers, StartPublishes(c)
      PROVE  RtInv'
  BY <1>0, <1>4 DEF StartPublishes
<1>5. ASSUME NEW c \in RtCallers, StartClears(c)
      PROVE  RtInv'
  BY <1>0, <1>5 DEF StartClears
<1>6. ASSUME NEW c \in RtCallers, StartSpawns(c)
      PROVE  RtInv'
  BY <1>0, <1>6 DEF StartSpawns, RollBack
<1>7. ASSUME NEW c \in RtCallers, StopSignals(c)
      PROVE  RtInv'
  BY <1>0, <1>7 DEF StopSignals
<1>12. ASSUME NEW c \in RtCallers, StopReturnsAfterJoin(c)
       PROVE  RtInv'
  BY <1>0, <1>12 DEF StopReturnsAfterJoin
<1>8. ASSUME NEW w \in Watchers, WatcherRound(w) \/ WatcherSynced(w)
      PROVE  RtInv'
  BY <1>0, <1>8 DEF WatcherRound, WatcherSynced
<1>9. ASSUME NEW w \in Watchers, WatcherLeaves(w)
      PROVE  RtInv'
  BY <1>0, <1>9 DEF WatcherLeaves
<1>10. ASSUME NEW w \in Watchers, WatcherGone(w)
       PROVE  RtInv'
  BY <1>0, <1>10 DEF WatcherGone
<1>11. CASE UNCHANGED rtVars
  BY <1>0, <1>11 DEF rtVars
<1> QED
  BY <1>1, <1>2, <1>3, <1>4, <1>5, <1>6, <1>7, <1>8, <1>9, <1>10, <1>11, <1>12
     DEF RtNext, RtCallStep, WatcherThread

\* The flags and the watchers agree in every behaviour without the window.
LEMMA RtSpecInv ==
    ASSUME "window" \notin RtFaults
    PROVE  RtSpec => []RtInv
<1>1. RtInv /\ [RtNext]_rtVars => RtInv'
  BY RtInvNext
<1> QED BY <1>1, RtInvInit, PTL DEF RtSpec

\* rt_start never leaves two watchers at work, however starts and stops of any
\* number of requests interleave with the threads they start, unless one decides
\* between a watcher's two last flags.
THEOREM OneWatcherWorks ==
    ASSUME "window" \notin RtFaults
    PROVE  RtSpec => []AtMostOneWatcher
<1>1. ASSUME RtInv
      PROVE  AtMostOneWatcher
  <2>1. \A v, w \in Working : v = w
    BY <1>1 DEF RtInv, OneWatcher, Working
  <2>2. CASE Working = {}
    BY <2>2, FS_EmptySet DEF AtMostOneWatcher
  <2>3. ASSUME NEW w \in Working
        PROVE  AtMostOneWatcher
    <3>1. Working = {w}
      BY <2>1, <2>3
    <3> QED BY <3>1, FS_Singleton DEF AtMostOneWatcher
  <2> QED BY <2>2, <2>3
<1> QED BY <1>1, RtSpecInv, PTL

\* Between calls g_alive, running and enabled say what threads there are.
THEOREM FlagsAreTrue ==
    ASSUME "window" \notin RtFaults
    PROVE  RtSpec => []FlagsTellTheTruth
<1>1. RtInv => FlagsTellTheTruth
  BY RtConstants
     DEF RtInv, RtTypeOK, RtInside, LifeHeld, FlagsFollow, RtCallAt, NoWatcher,
         FlagsTellTheTruth
<1> QED BY <1>1, RtSpecInv, PTL

-----------------------------------------------------------------------------
(* The job queue                                                           *)

JobStates == {"none", "queued", "running", "done", "evicted"}
JobHands  == [pc : {"look", "asleep", "popped", "running", "gone"}, job : Jobs \cup {NoJob}]

JobTypeOK ==
    /\ jobQueue \in Seq(Jobs)
    /\ jobState \in [Jobs -> JobStates]
    /\ jobRuns \in [Jobs -> Nat]
    /\ jobWorker \in [JobWorkers -> JobHands]

ElementsOf(q) == {q[i] : i \in DOMAIN q}
Distinct(q)   == \A i, k \in DOMAIN q : q[i] = q[k] => i = k

\* The queue holds queued jobs, each once.
QueueSound ==
    /\ Distinct(jobQueue)
    /\ \A j \in ElementsOf(jobQueue) : jobState[j] = "queued"

\* A worker holds a job from the pop to the end of its run, and alone.
WorkersSound ==
    /\ \A w \in JobWorkers :
          LET j == jobWorker[w].job IN
          /\ j # NoJob <=> jobWorker[w].pc \in {"popped", "running"}
          /\ jobWorker[w].pc = "popped" => jobState[j] = "queued" /\ j \notin ElementsOf(jobQueue)
          /\ jobWorker[w].pc = "running" => jobState[j] = "running"
    /\ \A v, w \in JobWorkers :
          jobWorker[v].job = jobWorker[w].job /\ jobWorker[w].job # NoJob => v = w

\* An unfinished job of the table is somewhere, and has run as often as it says.
Held(j) == \E w \in JobWorkers : jobWorker[w].job = j

JobsSound ==
    \A j \in Jobs :
        /\ jobState[j] = "queued" => j \in ElementsOf(jobQueue) \/ Held(j)
        /\ jobState[j] = "running" => Held(j)
        /\ jobRuns[j] = IF jobState[j] \in {"none", "queued"} THEN 0 ELSE 1

JobInv == JobTypeOK /\ QueueSound /\ WorkersSound /\ JobsSound

\* At first no job is anywhere.
LEMMA JobInvInit == JobInit => JobInv
BY JobConstants
   DEF JobInit, JobInv, JobTypeOK, JobStates, JobHands, QueueSound, WorkersSound, JobsSound,
       Distinct, ElementsOf

\* What a push and a pop do to a queue without repetitions.
LEMMA PushKeepsDistinct ==
    ASSUME NEW q \in Seq(Jobs), Distinct(q), NEW j \in Jobs, j \notin ElementsOf(q)
    PROVE  /\ Append(q, j) \in Seq(Jobs) /\ Distinct(Append(q, j))
           /\ ElementsOf(Append(q, j)) = ElementsOf(q) \cup {j}
<1> DEFINE r == Append(q, j)
<1>1. /\ Len(q) \in Nat /\ DOMAIN q = 1..Len(q) /\ r \in Seq(Jobs)
      /\ DOMAIN r = 1..(Len(q) + 1) /\ r[Len(q) + 1] = j
      /\ \A i \in 1..Len(q) : r[i] = q[i]
  OBVIOUS
<1> HIDE DEF r
<1>2. \A i \in DOMAIN r : i \in DOMAIN q \/ i = Len(q) + 1
  BY <1>1
<1>3. Distinct(r)
  BY <1>1, <1>2 DEF Distinct, ElementsOf
<1>4. ElementsOf(r) = ElementsOf(q) \cup {j}
  BY <1>1, <1>2 DEF ElementsOf
<1> QED BY <1>1, <1>3, <1>4 DEF r

\* Taking the head of a queue without duplicates.
LEMMA PopKeepsDistinct ==
    ASSUME NEW q \in Seq(Jobs), Distinct(q), q # <<>>
    PROVE  /\ Tail(q) \in Seq(Jobs) /\ Distinct(Tail(q)) /\ Head(q) \in Jobs
           /\ Head(q) \in ElementsOf(q) /\ ElementsOf(Tail(q)) = ElementsOf(q) \ {Head(q)}
<1> DEFINE r == Tail(q)
<1>1. /\ Len(q) \in Nat \ {0} /\ DOMAIN q = 1..Len(q) /\ r \in Seq(Jobs)
      /\ DOMAIN r = 1..(Len(q) - 1) /\ Head(q) = q[1] /\ q[1] \in Jobs
      /\ \A i \in 1..(Len(q) - 1) : r[i] = q[i + 1]
  OBVIOUS
<1> HIDE DEF r
<1>2. ASSUME NEW i \in DOMAIN r, NEW k \in DOMAIN r, r[i] = r[k]
      PROVE  i = k
  <2>1. i + 1 \in DOMAIN q /\ k + 1 \in DOMAIN q /\ q[i + 1] = q[k + 1]
    BY <1>1, <1>2
  <2> QED BY <1>1, <1>2, <2>1 DEF Distinct
<1>3. ElementsOf(r) \subseteq ElementsOf(q) \ {q[1]}
  BY <1>1 DEF Distinct, ElementsOf
<1>4. ASSUME NEW i \in DOMAIN q, q[i] # q[1]
      PROVE  q[i] \in ElementsOf(r)
  <2>1. i - 1 \in DOMAIN r /\ r[i - 1] = q[i]
    BY <1>1, <1>4
  <2> QED BY <2>1 DEF ElementsOf
<1>5. ElementsOf(r) = ElementsOf(q) \ {q[1]}
  BY <1>3, <1>4 DEF ElementsOf
<1>6. q[1] \in ElementsOf(q)
  BY <1>1 DEF ElementsOf
<1> QED BY <1>1, <1>2, <1>5, <1>6 DEF r, Distinct

\* Pruning the table touches finished jobs only.
LEMMA PruneEvictsDone ==
    ASSUME NEW j \in Jobs, NEW l \in JobStates, NEW done, JobTypeOK,
           Prune([jobState EXCEPT ![j] = l], done)
    PROVE  /\ jobState' \in [Jobs -> JobStates]
           /\ \A k \in Jobs \ {j} :
                jobState'[k] = jobState[k] \/ (jobState[k] = "done" /\ jobState'[k] = "evicted")
           /\ jobState'[j] = l \/ (l = "done" /\ jobState'[j] = "evicted")
<1>0. PICK st : st = [jobState EXCEPT ![j] = l]
  OBVIOUS
<1>1. /\ st \in [Jobs -> JobStates] /\ st[j] = l
      /\ \A k \in Jobs \ {j} : st[k] = jobState[k]
  BY <1>0 DEF JobTypeOK
<1>2. Prune(st, done)
  BY <1>0
<1>3. /\ jobState' \in [Jobs -> JobStates]
      /\ \A k \in Jobs :
           jobState'[k] = st[k] \/ (st[k] = "done" /\ jobState'[k] = "evicted")
  BY <1>1, <1>2 DEF Prune, Survivors, JobStates
<1>4. \A k \in Jobs \ {j} :
        jobState'[k] = jobState[k] \/ (jobState[k] = "done" /\ jobState'[k] = "evicted")
  BY <1>1, <1>3
<1>5. jobState'[j] = l \/ (l = "done" /\ jobState'[j] = "evicted")
  BY <1>1, <1>3
<1> QED BY <1>3, <1>4, <1>5

\* Submit, take, start, finish and prune move a job from one place to the next.
LEMMA JobInvNext == JobInv /\ [JobNext]_jobVars => JobInv'
<1> SUFFICES ASSUME JobInv, [JobNext]_jobVars
             PROVE  JobInv'
  OBVIOUS
<1>0. JobTypeOK /\ QueueSound /\ WorkersSound /\ JobsSound /\ NoJob \notin Jobs
  BY JobConstants DEF JobInv
\* A worker that holds no job goes to another place where it holds none.
<1>1. ASSUME NEW w \in JobWorkers, jobWorker[w].job = NoJob,
             NEW l \in {"look", "asleep", "gone"}, WorkerAt(w, l, NoJob),
             UNCHANGED <<jobQueue, jobState, jobRuns>>
      PROVE  JobInv'
  <2>1. /\ jobWorker' \in [JobWorkers -> JobHands]
        /\ jobWorker'[w] = [pc |-> l, job |-> NoJob]
        /\ \A v \in JobWorkers \ {w} : jobWorker'[v] = jobWorker[v]
    BY <1>0, <1>1 DEF JobTypeOK, JobHands, WorkerAt
  <2>2. \A v \in JobWorkers : jobWorker'[v].job = jobWorker[v].job
    BY <1>1, <2>1
  <2>3. WorkersSound'
    BY <1>0, <1>1, <2>1, <2>2 DEF WorkersSound
  <2>4. JobsSound'
    BY <1>0, <1>1, <2>2 DEF JobsSound, Held
  <2> QED BY <1>0, <1>1, <2>1, <2>3, <2>4 DEF JobInv, JobTypeOK, QueueSound
<1>2. CASE UNCHANGED <<jobQueue, jobState, jobRuns, jobWorker>>
  BY <1>0, <1>2 DEF JobInv, JobTypeOK, QueueSound, WorkersSound, JobsSound, Held
<1>3. ASSUME NEW c \in JobClients, Submit(c)
      PROVE  JobInv'
  <2>1. PICK j \in Jobs :
          /\ jobState[j] = "none" /\ jobQueue' = Append(jobQueue, j)
          /\ Prune([jobState EXCEPT ![j] = "queued"], jobDone)
    BY <1>3 DEF Submit
  <2>2. /\ jobState' \in [Jobs -> JobStates] /\ jobState'[j] = "queued"
        /\ \A k \in Jobs \ {j} : \/ jobState'[k] = jobState[k]
                                 \/ jobState[k] = "done" /\ jobState'[k] = "evicted"
    BY <1>0, <2>1, PruneEvictsDone DEF JobStates
  <2>3. /\ jobQueue' \in Seq(Jobs) /\ Distinct(jobQueue')
        /\ ElementsOf(jobQueue') = ElementsOf(jobQueue) \cup {j}
    BY <1>0, <2>1, PushKeepsDistinct DEF JobTypeOK, QueueSound
  <2>4. UNCHANGED <<jobRuns, jobWorker>>
    BY <1>3 DEF Submit
  <2>5. ElementsOf(jobQueue) \subseteq Jobs
    BY <1>0 DEF JobTypeOK, ElementsOf
  <2>6. QueueSound'
    BY <1>0, <2>1, <2>2, <2>3, <2>5 DEF QueueSound
  <2>7. WorkersSound'
    BY <1>0, <2>1, <2>2, <2>3, <2>4 DEF WorkersSound, JobTypeOK, JobHands
  <2>8. JobsSound'
    BY <1>0, <2>1, <2>2, <2>3, <2>4 DEF JobsSound, Held
  <2> QED BY <1>0, <2>2, <2>3, <2>4, <2>6, <2>7, <2>8 DEF JobInv, JobTypeOK
<1>4. ASSUME NEW c \in JobClients, Notify(c)
      PROVE  JobInv'
  <2>1. CASE UNCHANGED jobWorker
    BY <1>2, <1>4, <2>1 DEF Notify, jobTable
  <2>2. ASSUME NEW w \in Asleep, WorkerAt(w, "look", NoJob)
        PROVE  JobInv'
    <3>1. w \in JobWorkers /\ jobWorker[w].job = NoJob
      BY <1>0, <2>2 DEF Asleep, WorkersSound
    <3> QED BY <1>1, <1>4, <2>2, <3>1 DEF Notify, jobTable
  <2> QED BY <1>4, <2>1, <2>2 DEF Notify, NotifyOne
<1>5. ASSUME NEW w \in JobWorkers, TakeJob(w)
      PROVE  JobInv'
  <2>0. jobWorker[w].job = NoJob /\ UNCHANGED <<jobState, jobRuns>>
    BY <1>0, <1>5 DEF TakeJob, WorkersSound
  <2>1. ASSUME UNCHANGED jobQueue, NEW l \in {"gone", "asleep"}, WorkerAt(w, l, NoJob)
        PROVE  JobInv'
    BY <1>1, <2>0, <2>1
  <2>2. ASSUME jobQueue # <<>>, jobQueue' = Tail(jobQueue),
               WorkerAt(w, "popped", Head(jobQueue))
        PROVE  JobInv'
    <3>0. PICK j : j = Head(jobQueue)
      OBVIOUS
    <3>1. /\ jobQueue' \in Seq(Jobs) /\ Distinct(jobQueue') /\ j \in Jobs
          /\ j \in ElementsOf(jobQueue) /\ ElementsOf(jobQueue') = ElementsOf(jobQueue) \ {j}
      BY <1>0, <2>2, <3>0, PopKeepsDistinct DEF JobTypeOK, QueueSound
    <3>2. /\ jobWorker' \in [JobWorkers -> JobHands]
          /\ jobWorker'[w] = [pc |-> "popped", job |-> j]
          /\ \A v \in JobWorkers \ {w} : jobWorker'[v] = jobWorker[v]
      BY <1>0, <2>2, <3>0, <3>1 DEF JobTypeOK, JobHands, WorkerAt
    <3>3. jobState[j] = "queued" /\ \A v \in JobWorkers : jobWorker[v].job # j
      BY <1>0, <3>1 DEF QueueSound, WorkersSound
    <3>4. QueueSound'
      BY <1>0, <2>0, <3>1 DEF QueueSound
    <3>5. WorkersSound'
      BY <1>0, <2>0, <3>1, <3>2, <3>3 DEF WorkersSound
    <3>6. \A k \in Jobs : Held(k) => Held(k)'
      BY <1>0, <2>0, <3>2 DEF Held
    <3>7. Held(j)'
      BY <3>2 DEF Held
    <3>8. JobsSound'
      BY <1>0, <2>0, <3>1, <3>6, <3>7 DEF JobsSound
    <3> QED BY <1>0, <2>0, <3>1, <3>2, <3>4, <3>5, <3>8 DEF JobInv, JobTypeOK
  <2> QED BY <1>5, <2>1, <2>2 DEF TakeJob
<1>6. ASSUME NEW w \in JobWorkers, StartJob(w)
      PROVE  JobInv'
  <2>0. PICK j : j = jobWorker[w].job
    OBVIOUS
  <2>1. /\ jobWorker[w].pc = "popped" /\ jobState[j] = "queued" /\ j \in Jobs
        /\ j \notin ElementsOf(jobQueue)
    BY <1>0, <1>6, <2>0 DEF StartJob, WorkersSound, JobTypeOK, JobHands
  <2>2. /\ jobWorker' \in [JobWorkers -> JobHands]
        /\ jobWorker'[w] = [pc |-> "running", job |-> j]
        /\ \A v \in JobWorkers \ {w} : jobWorker'[v] = jobWorker[v]
    BY <1>0, <1>6, <2>0, <2>1 DEF StartJob, WorkerAt, JobTypeOK, JobHands
  <2>3. /\ jobState' \in [Jobs -> JobStates] /\ jobState'[j] = "running"
        /\ jobRuns' \in [Jobs -> Nat] /\ jobRuns'[j] = jobRuns[j] + 1
        /\ \A k \in Jobs \ {j} : jobState'[k] = jobState[k] /\ jobRuns'[k] = jobRuns[k]
        /\ UNCHANGED jobQueue
    BY <1>0, <1>6, <2>0, <2>1 DEF StartJob, JobTypeOK, JobStates
  <2>4. \A v \in JobWorkers \ {w} : jobWorker[v].job # j
    BY <1>0, <2>0, <2>1 DEF WorkersSound
  <2>5. \A v \in JobWorkers : jobWorker'[v].job = jobWorker[v].job
    BY <2>0, <2>2
  <2>6. QueueSound'
    BY <1>0, <2>1, <2>3 DEF QueueSound, ElementsOf, JobTypeOK
  <2>7. WorkersSound'
    BY <1>0, <2>0, <2>1, <2>2, <2>3, <2>4, <2>5 DEF WorkersSound, JobTypeOK, JobHands
  <2>8. Held(j)' /\ \A k \in Jobs : Held(k) => Held(k)'
    BY <2>0, <2>2, <2>5 DEF Held
  <2>9. JobsSound'
    BY <1>0, <2>1, <2>3, <2>8 DEF JobsSound
  <2> QED BY <1>0, <2>2, <2>3, <2>6, <2>7, <2>9 DEF JobInv, JobTypeOK
<1>7. ASSUME NEW w \in JobWorkers, FinishJob(w)
      PROVE  JobInv'
  <2>0. PICK j : j = jobWorker[w].job
    OBVIOUS
  <2>1. j \in Jobs /\ jobWorker[w].pc = "running" /\ jobState[j] = "running"
    BY <1>0, <1>7, <2>0 DEF FinishJob, WorkersSound, JobTypeOK, JobHands
  <2>2. Prune([jobState EXCEPT ![j] = "done"], Append(jobDone, j))
    BY <1>7, <2>0, <2>1 DEF FinishJob
  <2>3. UNCHANGED <<jobQueue, jobRuns>> /\ WorkerAt(w, "look", NoJob)
    BY <1>7 DEF FinishJob
  <2>4. \A v \in JobWorkers \ {w} : jobWorker[v].job # j
    BY <1>0, <2>0, <2>1 DEF WorkersSound
  <2>5. /\ jobState' \in [Jobs -> JobStates] /\ jobState'[j] \in {"done", "evicted"}
        /\ \A k \in Jobs \ {j} : \/ jobState'[k] = jobState[k]
                                 \/ jobState[k] = "done" /\ jobState'[k] = "evicted"
    BY <1>0, <2>1, <2>2, PruneEvictsDone DEF JobStates
  <2>6. /\ jobWorker' \in [JobWorkers -> JobHands]
        /\ jobWorker'[w] = [pc |-> "look", job |-> NoJob]
        /\ \A v \in JobWorkers \ {w} : jobWorker'[v] = jobWorker[v]
    BY <1>0, <2>3 DEF JobTypeOK, JobHands, WorkerAt
  <2>7. QueueSound'
    BY <1>0, <2>1, <2>3, <2>5 DEF QueueSound, ElementsOf, JobTypeOK
  <2>8. WorkersSound'
    <3>1. ASSUME NEW v \in JobWorkers \ {w}, jobWorker[v].pc \in {"popped", "running"}
          PROVE  jobState'[jobWorker[v].job] = jobState[jobWorker[v].job]
      <4>1. jobWorker[v].job \in Jobs \ {j} /\ jobState[jobWorker[v].job] # "done"
        BY <1>0, <2>4, <3>1 DEF WorkersSound, JobTypeOK, JobHands
      <4> QED BY <2>5, <4>1
    <3> QED BY <1>0, <2>3, <2>6, <3>1 DEF WorkersSound
  <2>9. \A k \in Jobs \ {j} : Held(k) => Held(k)'
    BY <2>0, <2>4, <2>6 DEF Held
  <2>10. JobsSound'
    BY <1>0, <2>1, <2>3, <2>5, <2>9 DEF JobsSound
  <2> QED BY <1>0, <2>3, <2>5, <2>6, <2>7, <2>8, <2>10 DEF JobInv, JobTypeOK
<1>8. CASE StopJobs
  <2>1. UNCHANGED <<jobQueue, jobState, jobRuns>> /\ jobWorker' = WokenAll
    BY <1>8 DEF StopJobs, jobTable
  <2>2. /\ jobWorker' \in [JobWorkers -> JobHands]
        /\ \A w \in JobWorkers :
              \/ jobWorker'[w] = jobWorker[w]
              \/ /\ jobWorker[w].pc = "asleep"
                 /\ jobWorker'[w] = [pc |-> "look", job |-> NoJob]
    BY <1>0, <2>1 DEF WokenAll, Asleep, JobTypeOK, JobHands
  <2>3. \A w \in JobWorkers : jobWorker'[w].job = jobWorker[w].job
    BY <1>0, <2>2 DEF WorkersSound
  <2>4. WorkersSound'
    BY <1>0, <2>1, <2>2, <2>3 DEF WorkersSound
  <2>5. JobsSound'
    BY <1>0, <2>1, <2>3 DEF JobsSound, Held
  <2> QED BY <1>0, <2>1, <2>2, <2>4, <2>5 DEF JobInv, JobTypeOK, QueueSound
<1>9. CASE ExpireJob \/ UNCHANGED jobVars
  BY <1>2, <1>9 DEF ExpireJob, jobVars
<1> QED
  BY <1>3, <1>4, <1>5, <1>6, <1>7, <1>8, <1>9 DEF JobNext, WorkerStep

\* A submitted job waits in one place, is run by one worker and at most once, and
\* leaves the table only after it has run: for any number of jobs, workers and
\* clients, whatever the cap of the table.
THEOREM JobsRunOnce == JobSpec => []JobInOnePlace
<1>1. ASSUME JobInv, NEW j \in Jobs
      PROVE  /\ jobState[j] = "queued" => Cardinality(Places(j)) + Cardinality(Holders(j)) = 1
             /\ jobState[j] = "running" => Places(j) = {} /\ Cardinality(Holders(j)) = 1
             /\ jobState[j] \in {"done", "evicted"} => jobRuns[j] = 1
             /\ jobRuns[j] <= 1
  <2>0. JobTypeOK /\ QueueSound /\ WorkersSound /\ JobsSound /\ j # NoJob
    BY <1>1, JobConstants DEF JobInv
  <2>1. \A i \in Places(j) : Places(j) = {i} /\ Holders(j) = {}
    BY <2>0 DEF QueueSound, WorkersSound, Distinct, ElementsOf, Places, Holders
  <2>2. \A w \in Holders(j) : Holders(j) = {w} /\ Places(j) = {}
    BY <2>0 DEF QueueSound, WorkersSound, ElementsOf, Places, Holders
  <2>3. Cardinality({}) = 0 /\ \A x : Cardinality({x}) = 1
    BY FS_EmptySet, FS_Singleton
  <2>4. CASE \E i : i \in Places(j)
    <3>1. Cardinality(Places(j)) = 1 /\ Cardinality(Holders(j)) = 0 /\ Holders(j) = {}
      BY <2>1, <2>3, <2>4
    <3> QED BY <2>0, <3>1 DEF JobsSound, Held, Holders
  <2>5. CASE \E w : w \in Holders(j)
    <3>1. Cardinality(Holders(j)) = 1 /\ Cardinality(Places(j)) = 0 /\ Places(j) = {}
      BY <2>2, <2>3, <2>5
    <3> QED BY <2>0, <3>1 DEF JobsSound
  <2>6. CASE Places(j) = {} /\ Holders(j) = {}
    BY <2>0, <2>6 DEF JobsSound, Held, ElementsOf, Places, Holders
  <2> QED BY <2>4, <2>5, <2>6
<1>2. JobInv => JobInOnePlace
  BY <1>1 DEF JobInOnePlace
<1> QED BY <1>2, JobInvInit, JobInvNext, PTL DEF JobSpec

-----------------------------------------------------------------------------
(* What the watcher uploads                                                *)

CsDates  == 0..csClock
CsCopies == [c : CsDates, t : CsDates]
CsTasks(pcs) ==
    [pc : pcs, put : SUBSET CloudFiles, drop : SUBSET CloudFiles, get : SUBSET CloudFiles,
     buf : [CloudFiles -> CsDates]]

\* Nothing is dated later than the last write.  A watcher that uploads never
\* downloads.
CsTypeOK ==
    /\ csClock \in Nat
    /\ csLocal \in [CloudFiles -> CsCopies] /\ csRemote \in [CloudFiles -> CsCopies]
    /\ csSnap \in [CloudFiles -> CsCopies] /\ csAmbig \in [CloudFiles -> CsDates]
    /\ csWatch \in CsTasks({"poll", "fire", "put", "drop", "remote"})
    /\ csManual \in CsTasks({"none", "run"})
    /\ csChanged \subseteq CloudFiles /\ csDeleted \subseteq CloudFiles
    /\ csDirection = "upload" /\ csDeleteExtra \in BOOLEAN

\* The watcher polls when its lists are done.
ListsDone ==
    /\ csWatch.pc # "put" => csWatch.put = {}
    /\ csWatch.pc \notin {"put", "drop"} => csWatch.drop = {}

\* The watcher has f on its list, or the next poll will put it there.
Noticed(f) ==
    \/ f \in csChanged \/ csSnap[f].c = 0
    \/ csLocal[f].t # csSnap[f].t \/ csAmbig[f] \notin {0, csLocal[f].c}

\* A file that is here is the same over there, noticed, on its way, or lost; what
\* the watcher holds of it in its hands is old only if that has been noticed, or
\* lost, too.
FileHere(f) == Here(f) =>
    /\ \/ csLocal[f].c = csRemote[f].c \/ Noticed(f) \/ f \in csLost
       \/ f \in csWatch.put /\ csWatch.buf[f] \in {0, csLocal[f].c}
    /\ (f \in csWatch.put /\ csWatch.buf[f] \notin {0, csLocal[f].c}) =>
         Noticed(f) \/ f \in csLost

\* A file that is gone here is gone over there, or its deletion is noticed, on its
\* way or lost.
FileGone(f) == (csDeleteExtra /\ ~Here(f)) =>
    \/ csRemote[f].c = 0 \/ csSnap[f].c # 0
    \/ f \in csDeleted \/ f \in csWatch.drop \/ f \in csLost

\* What a put could bring back a drop takes away again.
FileDropped(f) == csDeleteExtra =>
    /\ (f \in csChanged /\ csSnap[f].c = 0) => f \in csDeleted
    /\ (f \in csWatch.put /\ csSnap[f].c = 0) => f \in csWatch.drop

FileSafe(f) == FileHere(f) /\ FileGone(f) /\ FileDropped(f)

CsInv == CsTypeOK /\ ListsDone /\ \A f \in CloudFiles : FileSafe(f)

\* At first both sides agree and nothing is pending.
LEMMA CsInvInit == CsInit /\ csDirection = "upload" => CsInv
<1> SUFFICES ASSUME CsInit, csDirection = "upload"
             PROVE  CsInv
  OBVIOUS
<1>1. csClock = 1 /\ csLocal \in [CloudFiles -> CsCopies]
  BY DEF CsInit, CsCopies, CsDates, Absent
<1>2. CsTypeOK
  BY <1>1 DEF CsInit, CsTypeOK, CsDates, CsTasks, Idle, NothingRead
<1>3. ListsDone
  BY DEF CsInit, ListsDone, Idle
<1>4. ASSUME NEW f \in CloudFiles
      PROVE  FileSafe(f)
  BY <1>1 DEF CsInit, FileSafe, FileHere, FileGone, FileDropped, Here, Noticed, Idle, NothingRead
<1> QED BY <1>2, <1>3, <1>4 DEF CsInv

\* What a step says of one file is all that matters to it.
LEMMA FileUntouched ==
    ASSUME NEW f, FileSafe(f), UNCHANGED csDeleteExtra,
           csLocal'[f] = csLocal[f], csRemote'[f] = csRemote[f],
           csSnap'[f] = csSnap[f], csAmbig'[f] = csAmbig[f],
           f \in csChanged' <=> f \in csChanged, f \in csDeleted' <=> f \in csDeleted,
           f \in csWatch'.put <=> f \in csWatch.put, f \in csWatch'.drop <=> f \in csWatch.drop,
           csWatch'.buf[f] = csWatch.buf[f],
           f \in csLost => f \in csLost'
    PROVE  FileSafe(f)'
BY DEF FileSafe, FileHere, FileGone, FileDropped, Here, Noticed

\* A new content is noticed, or the file is lost.
LEMMA WriteIsNoticed ==
    ASSUME NEW f \in CloudFiles, NEW q, csLocal \in [CloudFiles -> CsCopies], Write(f, q),
           UNCHANGED <<csSnap, csAmbig, csChanged>>
    PROVE  /\ csLocal'[f] = q /\ \A g \in CloudFiles \ {f} : csLocal'[g] = csLocal[g]
           /\ \A g : g \in csLost => g \in csLost'
           /\ q.c # 0 => Noticed(f)' \/ f \in csLost'
           /\ q.c = 0 => csSnap[f].c # 0 \/ f \in csLost'
<1>1. csLocal'[f] = q /\ \A g \in CloudFiles \ {f} : csLocal'[g] = csLocal[g]
  BY DEF Write
<1>2. \A g : g \in csLost => g \in csLost'
  BY DEF Write, LosesIf
<1>3. CASE LooksTheSame(f, q)
  <2>1. f \in csLost'
    BY <1>3 DEF Write, LosesIf
  <2> QED BY <1>1, <1>2, <2>1
<1>4. CASE ~LooksTheSame(f, q)
  BY <1>1, <1>2, <1>4 DEF LooksTheSame, Noticed
<1> QED BY <1>3, <1>4

\* A write of the user or of a download leaves every file safe.
LEMMA WriteKeeps ==
    ASSUME CsInv, NEW f \in CloudFiles, NEW q, Write(f, q),
           UNCHANGED <<csRemote, csSnap, csAmbig, csChanged, csDeleted, csWatch, csDeleteExtra>>
    PROVE  \A g \in CloudFiles : FileSafe(g)'
<1>0. CsTypeOK /\ (\A g \in CloudFiles : FileSafe(g))
  BY DEF CsInv
<1>1. /\ csLocal'[f] = q /\ \A g \in CloudFiles \ {f} : csLocal'[g] = csLocal[g]
      /\ \A g : g \in csLost => g \in csLost'
      /\ q.c # 0 => Noticed(f)' \/ f \in csLost'
      /\ q.c = 0 => csSnap[f].c # 0 \/ f \in csLost'
  BY <1>0, WriteIsNoticed DEF CsTypeOK
<1>2. ASSUME NEW g \in CloudFiles, g # f
      PROVE  FileSafe(g)'
  <2>1. FileSafe(g)
    BY <1>0
  <2> QED BY <1>1, <1>2, <2>1, FileUntouched
<1>3. FileSafe(f)'
  <2>1. FileSafe(f) /\ (Here(f)' <=> q.c # 0)
    BY <1>0, <1>1 DEF Here
  <2>2. FileHere(f)'
    BY <1>1, <2>1 DEF FileHere
  <2>3. FileGone(f)'
    BY <1>1, <2>1 DEF FileGone
  <2>4. FileDropped(f)'
    BY <2>1 DEF FileSafe, FileDropped
  <2> QED BY <2>2, <2>3, <2>4 DEF FileSafe
<1> QED BY <1>2, <1>3

\* The user's writes: one that no poll can notice loses the file.
LEMMA UserKeeps ==
    ASSUME CsInv, NEW f \in CloudFiles,
           EditFile(f) \/ EditFileQuickly(f) \/ DeleteFile(f) \/ RemoteWrite(f)
    PROVE  CsInv'
<1>0. CsTypeOK /\ ListsDone
  BY DEF CsInv
<1>1. ~RemoteWrite(f)
  BY <1>0 DEF CsTypeOK, RemoteWrite
<1>2. /\ csClock' = csClock + 1
      /\ UNCHANGED <<csRemote, csSnap, csAmbig, csChanged, csDeleted, csBusy, csWatch, csManual,
                     csDirection, csDeleteExtra>>
  BY <1>1 DEF EditFile, EditFileQuickly, DeleteFile, Tick, CsWorld, csPending, csConfig
<1>3. PICK q : /\ Write(f, q)
               /\ \/ q = [c |-> csClock + 1, t |-> csClock + 1]
                  \/ q = [csLocal[f] EXCEPT !.c = csClock + 1]
                  \/ q = Absent
  BY <1>1 DEF EditFile, EditFileQuickly, DeleteFile
<1>4. CsDates \subseteq CsDates' /\ csClock + 1 \in CsDates' /\ csClock' \in Nat
  BY <1>0, <1>2 DEF CsTypeOK, CsDates
<1>5. CsCopies \subseteq CsCopies'
  BY <1>4 DEF CsCopies
<1>6. q \in CsCopies'
  <2>1. csLocal[f] \in CsCopies /\ 0 \in CsDates'
    BY <1>0, <1>2, <1>4 DEF CsTypeOK, CsDates
  <2> QED BY <1>3, <1>4, <2>1 DEF CsCopies, Absent
<1>7. CsTypeOK'
  <2>1. csLocal' \in [CloudFiles -> CsCopies']
    BY <1>0, <1>3, <1>5, <1>6 DEF CsTypeOK, Write
  <2>2. /\ csRemote' \in [CloudFiles -> CsCopies'] /\ csSnap' \in [CloudFiles -> CsCopies']
        /\ csAmbig' \in [CloudFiles -> CsDates']
    BY <1>0, <1>2, <1>4, <1>5 DEF CsTypeOK
  <2>3. \A pcs : CsTasks(pcs) \subseteq CsTasks(pcs)'
    BY <1>4 DEF CsTasks
  <2> QED BY <1>0, <1>2, <1>4, <2>1, <2>2, <2>3 DEF CsTypeOK
<1>8. ListsDone'
  BY <1>0, <1>2 DEF ListsDone
<1> QED BY <1>2, <1>3, <1>7, <1>8, WriteKeeps DEF CsInv

\* A poll notes what it drops from the comparison: what is here and has been
\* noticed is changed, what is gone and was in the snapshot is deleted.
LEMMA PollKeeps == CsInv /\ PollLocal => CsInv'
<1> SUFFICES ASSUME CsInv, PollLocal
             PROVE  CsInv'
  OBVIOUS
<1>0. CsTypeOK /\ ListsDone /\ (\A f \in CloudFiles : FileSafe(f))
  BY DEF CsInv
<1>1. /\ csSnap' = csLocal /\ csWatch' = Idle("fire") /\ csWatch.pc = "poll"
      /\ csAmbig' = [f \in CloudFiles |-> IF SameStamp(f) THEN csLocal[f].c ELSE csAmbig[f]]
      /\ csChanged' = csChanged \cup Changes /\ csDeleted' = csDeleted \cup Deletions
      /\ csLost' = csLost \ (Changes \cup Deletions)
      /\ UNCHANGED <<csLocal, csRemote, csClock, csBusy, csManual, csDirection, csDeleteExtra>>
  BY DEF PollLocal, Watching, WatchGoto, csStores, csConfig
<1>2. csWatch.put = {} /\ csWatch.drop = {} /\ csWatch'.put = {} /\ csWatch'.drop = {}
  BY <1>0, <1>1 DEF ListsDone, Idle
<1>3. CsTypeOK'
  <2>1. csAmbig' \in [CloudFiles -> CsDates]
    BY <1>0, <1>1 DEF CsTypeOK, CsCopies
  <2>2. csWatch' \in CsTasks({"poll", "fire", "put", "drop", "remote"})
    BY <1>0, <1>1 DEF CsTypeOK, CsTasks, CsDates, Idle, NothingRead
  <2>3. Changes \subseteq CloudFiles /\ Deletions \subseteq CloudFiles
    BY DEF Changes, Deletions
  <2> QED BY <1>0, <1>1, <2>1, <2>2, <2>3 DEF CsTypeOK, CsCopies, CsDates, CsTasks
<1>4. ListsDone'
  BY <1>2 DEF ListsDone
<1>5. ASSUME NEW f \in CloudFiles
      PROVE  FileSafe(f)'
  <2>1. FileSafe(f) /\ csAmbig'[f] = IF SameStamp(f) THEN csLocal[f].c ELSE csAmbig[f]
    BY <1>0, <1>1
  <2>2. ~Here(f) /\ csSnap[f].c # 0 => f \in csDeleted'
    BY <1>1 DEF Deletions
  <2>3. Here(f) /\ Noticed(f) => f \in csChanged'
    BY <1>1 DEF Changes, AmbigChanged, SameStamp, Noticed
  <2>4. Here(f)' <=> Here(f)
    BY <1>1 DEF Here
  <2>8. /\ Here(f) /\ f \in csLost => f \in csLost' \/ f \in csChanged'
        /\ ~Here(f) /\ f \in csLost => f \in csLost' \/ f \in csDeleted'
    BY <1>1 DEF Changes, Deletions
  <2>5. FileHere(f)'
    <3>1. Here(f) /\ Noticed(f) => Noticed(f)'
      BY <2>3 DEF Noticed
    <3>2. f \in csChanged' => Noticed(f)'
      BY DEF Noticed
    <3> QED BY <1>1, <1>2, <2>1, <2>4, <2>8, <3>1, <3>2 DEF FileSafe, FileHere
  <2>6. FileGone(f)'
    <3>1. f \in csDeleted => f \in csDeleted'
      BY <1>1
    <3> QED BY <1>1, <1>2, <2>1, <2>2, <2>4, <2>8, <3>1 DEF FileSafe, FileGone
  <2>7. FileDropped(f)'
    <3>1. f \in csChanged' /\ ~Here(f) => f \in csChanged
      BY <1>1 DEF Changes
    <3>2. csSnap'[f].c = 0 <=> ~Here(f)
      BY <1>1 DEF Here
    <3>3. f \in csDeleted => f \in csDeleted'
      BY <1>1
    <3> QED BY <1>1, <1>2, <2>1, <2>2, <3>1, <3>2, <3>3 DEF FileSafe, FileDropped
  <2> QED BY <2>5, <2>6, <2>7 DEF FileSafe
<1> QED BY <1>3, <1>4, <1>5 DEF CsInv

\* The pending sets are cleared only as they become the lists of puts and drops.
LEMMA FireKeeps == CsInv /\ Fire => CsInv'
<1> SUFFICES ASSUME CsInv, Fire
             PROVE  CsInv'
  OBVIOUS
<1>0. CsTypeOK /\ ListsDone /\ (\A f \in CloudFiles : FileSafe(f))
  BY DEF CsInv
<1>1. /\ csWatch.pc = "fire"
      /\ UNCHANGED <<csLocal, csRemote, csClock, csSnap, csAmbig, csManual, csDirection,
                     csDeleteExtra>>
  BY DEF Fire, Watching, csStores, csConfig
<1>2. csWatch.put = {} /\ csWatch.drop = {}
  BY <1>0, <1>1 DEF ListsDone
<1>3. CASE /\ csWatch' \in {Idle("remote"), Idle("poll")}
           /\ UNCHANGED <<csChanged, csDeleted, csLost>>
  <2>1. /\ csWatch'.put = {} /\ csWatch'.drop = {} /\ csWatch'.pc \in {"poll", "remote"}
        /\ csWatch' \in CsTasks({"poll", "fire", "put", "drop", "remote"})
    BY <1>0, <1>3 DEF Idle, CsTasks, NothingRead, CsDates, CsTypeOK
  <2>2. CsTypeOK'
    BY <1>0, <1>1, <1>3, <2>1 DEF CsTypeOK, CsCopies, CsDates, CsTasks
  <2>3. ListsDone'
    BY <2>1 DEF ListsDone
  <2>4. ASSUME NEW f \in CloudFiles
        PROVE  FileSafe(f)'
    <3>1. FileSafe(f)
      BY <1>0
    <3> QED BY <1>1, <1>2, <1>3, <2>1, <3>1
            DEF FileSafe, FileHere, FileGone, FileDropped, Here, Noticed
  <2> QED BY <2>2, <2>3, <2>4 DEF CsInv
<1>4. CASE /\ Due /\ ~csBusy
           /\ csWatch' = [Idle("put") EXCEPT !.put = csChanged,
                            !.drop = IF csDeleteExtra THEN csDeleted ELSE {}]
           /\ csChanged' = {} /\ csDeleted' = {}
           /\ csLost' = {f \in csLost : ~Pending(f)}
  <2>1. /\ csWatch'.pc = "put" /\ csWatch'.put = csChanged /\ csWatch'.buf = NothingRead
        /\ csWatch'.drop = IF csDeleteExtra THEN csDeleted ELSE {}
    BY <1>4 DEF Idle
  <2>3. CsTypeOK'
    <3>1. csWatch' = [pc |-> "put", put |-> csChanged, get |-> {}, buf |-> NothingRead,
                      drop |-> IF csDeleteExtra THEN csDeleted ELSE {}]
      BY <1>4 DEF Idle
    <3>2. NothingRead \in [CloudFiles -> CsDates]
      BY <1>0 DEF NothingRead, CsDates, CsTypeOK
    <3>3. csWatch' \in CsTasks({"poll", "fire", "put", "drop", "remote"})
      BY <1>0, <3>1, <3>2 DEF CsTasks, CsTypeOK
    <3> QED BY <1>0, <1>1, <1>4, <3>3 DEF CsTypeOK, CsCopies, CsDates, CsTasks
  <2>4. ListsDone'
    BY <2>1 DEF ListsDone
  <2>5. ASSUME NEW f \in CloudFiles
        PROVE  FileSafe(f)'
    <3>1. FileSafe(f) /\ csWatch'.buf[f] = 0
      BY <1>0, <2>1 DEF NothingRead
    <3>2. /\ Here(f)' <=> Here(f)
          /\ Noticed(f) => Noticed(f)' \/ f \in csChanged
      BY <1>1 DEF Here, Noticed
    <3>3. /\ Here(f) /\ f \in csLost => f \in csLost' \/ f \in csChanged
          /\ ~Here(f) /\ f \in csLost => f \in csLost' \/ f \in csDeleted
      BY <1>4 DEF Pending
    <3>4. FileHere(f)'
      BY <1>1, <1>2, <2>1, <3>1, <3>2, <3>3 DEF FileSafe, FileHere
    <3>5. FileGone(f)'
      BY <1>1, <1>2, <2>1, <3>1, <3>2, <3>3 DEF FileSafe, FileGone
    <3>6. FileDropped(f)'
      BY <1>1, <1>4, <2>1, <3>1 DEF FileSafe, FileDropped
    <3> QED BY <3>4, <3>5, <3>6 DEF FileSafe
  <2> QED BY <2>3, <2>4, <2>5 DEF CsInv
<1>5. \/ /\ csWatch' \in {Idle("remote"), Idle("poll")}
         /\ UNCHANGED <<csChanged, csDeleted, csLost>>
      \/ /\ Due /\ ~csBusy
         /\ csWatch' = [Idle("put") EXCEPT !.put = csChanged,
                          !.drop = IF csDeleteExtra THEN csDeleted ELSE {}]
         /\ csChanged' = {} /\ csDeleted' = {}
         /\ csLost' = {f \in csLost : ~Pending(f)}
  <2>1. csDirection = "upload"
    BY <1>0 DEF CsTypeOK
  <2> QED BY <2>1 DEF Fire, KeptWhileBusy, WatchGoto
<1> QED BY <1>3, <1>4, <1>5

\* What the watcher reads it stores: the file may have changed in between, and
\* that has been noticed then; a store that fails loses the file.
LEMMA PutsKeep == CsInv /\ (WatchReads \/ WatchStores) => CsInv'
<1> SUFFICES ASSUME CsInv, WatchReads \/ WatchStores
             PROVE  CsInv'
  OBVIOUS
<1>0. CsTypeOK /\ ListsDone /\ (\A f \in CloudFiles : FileSafe(f))
  BY DEF CsInv
<1>1. /\ csWatch.pc = "put"
      /\ UNCHANGED <<csLocal, csClock, csSnap, csAmbig, csChanged, csDeleted, csManual,
                     csDirection, csDeleteExtra>>
  BY DEF WatchReads, WatchStores, Watching, csStores, csPending, csConfig
<1>2. PICK f \in csWatch.put :
        \/ /\ csWatch.buf[f] = 0 /\ UNCHANGED <<csRemote, csLost>>
           /\ csWatch' = IF ~Here(f) THEN Done(f, csWatch) ELSE Reads(f, csWatch)
        \/ /\ csWatch.buf[f] # 0 /\ csWatch' = Done(f, csWatch)
           /\ \/ Stored(f, csWatch) /\ UNCHANGED csLost
              \/ LosesIf(f, TRUE) /\ UNCHANGED csRemote
  BY <1>0 DEF WatchReads, WatchStores, SkipsPut, CsTypeOK, csStores, csFate
<1>3. /\ f \in CloudFiles /\ csWatch.put \subseteq CloudFiles
      /\ csWatch.buf \in [CloudFiles -> CsDates] /\ 0 \in CsDates /\ csClock \in CsDates
      /\ csLocal[f].c \in CsDates /\ csLocal[f].t \in CsDates
  BY <1>0 DEF CsTypeOK, CsTasks, CsDates, CsCopies
<1>4. PICK P \in {csWatch.put, csWatch.put \ {f}}, v \in CsDates :
        csWatch' = [csWatch EXCEPT !.put = P, !.buf[f] = v]
  <2>1. CASE csWatch' = Done(f, csWatch)
    BY <1>3, <2>1 DEF Done
  <2>2. CASE csWatch' = Reads(f, csWatch)
    <3>1. csWatch' = [csWatch EXCEPT !.put = csWatch.put, !.buf[f] = csLocal[f].c]
      BY <1>0, <2>2 DEF Reads, CsTypeOK, CsTasks
    <3> QED BY <1>3, <3>1
  <2> QED BY <1>2, <2>1, <2>2
<1>5. /\ csWatch' \in CsTasks({"poll", "fire", "put", "drop", "remote"})
      /\ csWatch'.pc = "put" /\ csWatch'.put = P /\ csWatch'.drop = csWatch.drop
      /\ csWatch'.buf = [csWatch.buf EXCEPT ![f] = v]
  <2>1. [csWatch.buf EXCEPT ![f] = v] \in [CloudFiles -> CsDates]
    BY <1>3
  <2> QED BY <1>0, <1>1, <1>3, <1>4, <2>1 DEF CsTypeOK, CsTasks
<1>6. csRemote' \in [CloudFiles -> CsCopies]
      /\ \A g \in CloudFiles \ {f} : csRemote'[g] = csRemote[g]
  <2>1. [c |-> csWatch.buf[f], t |-> csClock] \in CsCopies
    BY <1>3 DEF CsCopies
  <2> QED BY <1>0, <1>2, <2>1 DEF CsTypeOK, Stored
<1>7. CsTypeOK'
  BY <1>0, <1>1, <1>5, <1>6 DEF CsTypeOK, CsCopies, CsDates, CsTasks
<1>8. ListsDone'
  BY <1>5 DEF ListsDone
<1>9. \A g : g \in csLost => g \in csLost'
  BY <1>2 DEF LosesIf
<1>10. ASSUME NEW g \in CloudFiles, g # f
       PROVE  FileSafe(g)'
  <2>1. FileSafe(g) /\ csWatch'.buf[g] = csWatch.buf[g] /\ (g \in csWatch'.put <=> g \in csWatch.put)
    BY <1>0, <1>3, <1>4, <1>5, <1>10
  <2> QED BY <1>1, <1>5, <1>6, <1>9, <1>10, <2>1, FileUntouched
<1>11. FileSafe(f)'
  <2>0. FileSafe(f)
    BY <1>0, <1>3
  <2>1. CASE /\ csWatch.buf[f] = 0 /\ UNCHANGED <<csRemote, csLost>>
             /\ csWatch' = IF ~Here(f) THEN Done(f, csWatch) ELSE Reads(f, csWatch)
    <3>1. CASE Here(f)
      <4>1. csWatch'.buf[f] = csLocal[f].c /\ f \in csWatch'.put
        BY <1>0, <1>2, <1>3, <2>1, <3>1 DEF Reads, CsTypeOK, CsTasks
      <4> QED BY <1>1, <1>2, <1>5, <2>0, <2>1, <3>1, <4>1
              DEF FileSafe, FileHere, FileGone, FileDropped, Here, Noticed
    <3>2. CASE ~Here(f)
      <4>1. f \notin csWatch'.put
        BY <1>0, <2>1, <3>2 DEF Done, CsTypeOK, CsTasks
      <4> QED BY <1>1, <1>5, <2>0, <2>1, <3>2, <4>1
              DEF FileSafe, FileHere, FileGone, FileDropped, Here, Noticed
    <3> QED BY <3>1, <3>2
  <2>2. CASE /\ csWatch.buf[f] # 0 /\ csWatch' = Done(f, csWatch)
             /\ \/ Stored(f, csWatch) /\ UNCHANGED csLost
                \/ LosesIf(f, TRUE) /\ UNCHANGED csRemote
    <3>1. f \notin csWatch'.put
      BY <1>0, <2>2 DEF Done, CsTypeOK, CsTasks
    <3>2. CASE Stored(f, csWatch) /\ UNCHANGED csLost
      <4>1. csRemote'[f].c = csWatch.buf[f]
        BY <1>0, <1>3, <3>2 DEF Stored, CsTypeOK
      <4> QED BY <1>1, <1>2, <1>5, <2>0, <2>2, <3>1, <3>2, <4>1
              DEF FileSafe, FileHere, FileGone, FileDropped, Here, Noticed
    <3>3. CASE f \in csLost'
      BY <1>1, <1>5, <2>0, <3>1, <3>3 DEF FileSafe, FileHere, FileGone, FileDropped
    <3> QED BY <2>2, <3>2, <3>3 DEF LosesIf
  <2> QED BY <1>2, <2>1, <2>2
<1> QED BY <1>7, <1>8, <1>10, <1>11 DEF CsInv

\* A deletion over there, by the watcher or by a folder sync, loses a file that is
\* here, and so does one of the watcher that fails.
LEMMA DropKeeps ==
    ASSUME CsInv, NEW f \in CloudFiles, csRemote' = [csRemote EXCEPT ![f] = Absent],
           LosesIf(f, Here(f)),
           csWatch'.put = csWatch.put, csWatch'.buf = csWatch.buf,
           f \in csWatch.put => (f \in csWatch'.drop <=> f \in csWatch.drop),
           \A g \in CloudFiles \ {f} : g \in csWatch'.drop <=> g \in csWatch.drop,
           UNCHANGED <<csLocal, csSnap, csAmbig, csChanged, csDeleted, csDeleteExtra>>
    PROVE  \A g \in CloudFiles : FileSafe(g)'
<1>0. CsTypeOK /\ (\A g \in CloudFiles : FileSafe(g))
  BY DEF CsInv
<1>1. /\ csRemote'[f].c = 0 /\ \A g \in CloudFiles \ {f} : csRemote'[g] = csRemote[g]
      /\ (\A g : g \in csLost => g \in csLost') /\ (Here(f) => f \in csLost')
  BY <1>0 DEF CsTypeOK, Absent, LosesIf
<1>2. ASSUME NEW g \in CloudFiles, g # f
      PROVE  FileSafe(g)'
  <2>1. FileSafe(g)
    BY <1>0
  <2> QED BY <1>1, <1>2, <2>1, FileUntouched
<1>3. FileSafe(f)'
  <2>1. FileSafe(f) /\ (Here(f)' <=> Here(f))
    BY <1>0 DEF Here
  <2> QED BY <1>1, <2>1 DEF FileSafe, FileHere, FileGone, FileDropped
<1> QED BY <1>2, <1>3

\* The watcher deletes over there what is on its list, and polls again.
LEMMA DropsKeep == CsInv /\ (WatchDrops \/ WatchPutsDone \/ WatchSynced \/ ListRemote) => CsInv'
<1> SUFFICES ASSUME CsInv, WatchDrops \/ WatchPutsDone \/ WatchSynced \/ ListRemote
             PROVE  CsInv'
  OBVIOUS
<1>0. CsTypeOK /\ ListsDone /\ (\A f \in CloudFiles : FileSafe(f))
  BY DEF CsInv
<1>1. UNCHANGED <<csLocal, csClock, csSnap, csAmbig, csChanged, csDeleted, csManual, csDirection,
                  csDeleteExtra>>
  BY DEF WatchDrops, WatchPutsDone, WatchSynced, ListRemote, csStores, csPending, csConfig
<1>2. csRemote' \in [CloudFiles -> CsCopies]
      /\ csWatch' \in CsTasks({"poll", "fire", "put", "drop", "remote"}) => CsTypeOK'
  BY <1>0, <1>1 DEF CsTypeOK, CsCopies, CsDates, CsTasks
<1>3. CASE WatchDrops
  <2>1. PICK f \in csWatch.drop :
          /\ csWatch' = [csWatch EXCEPT !.drop = @ \ {f}]
          /\ \/ csRemote' = [csRemote EXCEPT ![f] = Absent] /\ LosesIf(f, Here(f))
             \/ LosesIf(f, TRUE) /\ UNCHANGED csRemote
    BY <1>3 DEF WatchDrops
  <2>2. f \in CloudFiles /\ csWatch.pc = "drop" /\ csWatch.put = {} /\ Absent \in CsCopies
    BY <1>0, <1>3 DEF CsTypeOK, CsTasks, ListsDone, WatchDrops, Watching, Absent, CsCopies, CsDates
  <2>3. /\ csWatch' \in CsTasks({"poll", "fire", "put", "drop", "remote"})
        /\ csWatch'.pc = "drop" /\ csWatch'.put = {} /\ csWatch'.drop = csWatch.drop \ {f}
        /\ csWatch'.buf = csWatch.buf
    BY <1>0, <2>1, <2>2 DEF CsTypeOK, CsTasks
  <2>4. csRemote' \in [CloudFiles -> CsCopies]
    BY <1>0, <2>1, <2>2 DEF CsTypeOK
  <2>5. ListsDone'
    BY <2>3 DEF ListsDone
  <2>6. \A g \in CloudFiles : FileSafe(g)'
    <3>1. CASE csRemote' = [csRemote EXCEPT ![f] = Absent] /\ LosesIf(f, Here(f))
      BY <1>1, <2>2, <2>3, <3>1, DropKeeps
    <3>2. CASE LosesIf(f, TRUE) /\ UNCHANGED csRemote
      <4>1. f \in csLost' /\ \A g : g \in csLost => g \in csLost'
        BY <3>2 DEF LosesIf
      <4>2. ASSUME NEW g \in CloudFiles
            PROVE  FileSafe(g)'
        <5>1. FileSafe(g)
          BY <1>0
        <5> QED BY <1>1, <2>2, <2>3, <3>2, <4>1, <5>1
                DEF FileSafe, FileHere, FileGone, FileDropped, Here, Noticed
      <4> QED BY <4>2
    <3> QED BY <2>1, <3>1, <3>2
  <2> QED BY <1>2, <2>3, <2>4, <2>5, <2>6 DEF CsInv
<1>4. ASSUME UNCHANGED <<csRemote, csLost>>, csWatch'.put = csWatch.put,
             csWatch'.drop = csWatch.drop, csWatch'.put = {} \/ csWatch'.buf = csWatch.buf
      PROVE  \A f \in CloudFiles : FileSafe(f)'
  <2>1. SUFFICES ASSUME NEW f \in CloudFiles
                 PROVE  FileSafe(f)'
    OBVIOUS
  <2>2. FileSafe(f)
    BY <1>0
  <2> QED BY <1>1, <1>4, <2>2 DEF FileSafe, FileHere, FileGone, FileDropped, Here, Noticed
<1>5. CASE WatchPutsDone
  <2>1. /\ csWatch.pc = "put" /\ csWatch.put = {} /\ UNCHANGED <<csRemote, csLost>>
        /\ csWatch' = [csWatch EXCEPT !.pc = "drop"]
    BY <1>5 DEF WatchPutsDone, Watching, csStores, csFate
  <2>2. csWatch'.pc = "drop" /\ csWatch'.put = {} /\ csWatch'.drop = csWatch.drop
        /\ csWatch' \in CsTasks({"poll", "fire", "put", "drop", "remote"})
    BY <1>0, <2>1 DEF CsTypeOK, CsTasks
  <2>3. ListsDone'
    BY <2>2 DEF ListsDone
  <2> QED BY <1>0, <1>2, <1>4, <2>1, <2>2, <2>3 DEF CsInv, CsTypeOK
<1>6. CASE WatchSynced \/ ListRemote
  <2>1. /\ csWatch' \in {Idle("remote"), Idle("poll")} /\ csWatch.put = {} /\ csWatch.drop = {}
        /\ UNCHANGED <<csRemote, csLost>>
    BY <1>0, <1>6
       DEF WatchSynced, ListRemote, Watching, WatchGoto, csStores, csFate, CsTypeOK, ListsDone
  <2>2. /\ csWatch'.pc \in {"poll", "remote"} /\ csWatch'.put = {} /\ csWatch'.drop = {}
        /\ csWatch' \in CsTasks({"poll", "fire", "put", "drop", "remote"})
    BY <1>0, <2>1 DEF Idle, CsTasks, NothingRead, CsDates, CsTypeOK
  <2>3. ListsDone'
    BY <2>2 DEF ListsDone
  <2> QED BY <1>0, <1>2, <1>4, <2>1, <2>2, <2>3 DEF CsInv, CsTypeOK
<1> QED BY <1>3, <1>5, <1>6

\* A folder sync acts on the facts of its listing; where they have changed it
\* loses the file.
LEMMA ManualKeeps ==
    CsInv /\ (ManualReads \/ ManualStores \/ ManualGets \/ ManualDrops) => CsInv'
<1> SUFFICES ASSUME CsInv, ManualReads \/ ManualStores \/ ManualGets \/ ManualDrops
             PROVE  CsInv'
  OBVIOUS
<1>0. CsTypeOK /\ ListsDone /\ (\A f \in CloudFiles : FileSafe(f))
  BY DEF CsInv
<1>1. UNCHANGED <<csClock, csSnap, csAmbig, csChanged, csDeleted, csBusy, csWatch, csDirection,
                  csDeleteExtra>>
  BY DEF ManualReads, ManualStores, ManualGets, ManualDrops, csStores, csPending, csConfig
<1>2. csManual \in [pc : {"none", "run"}, put : SUBSET CloudFiles, drop : SUBSET CloudFiles,
                    get : SUBSET CloudFiles, buf : [CloudFiles -> CsDates]]
  BY <1>0 DEF CsTypeOK, CsTasks
<1>3. /\ 0 \in CsDates /\ csClock \in CsDates
      /\ \A f \in CloudFiles : /\ csLocal[f].c \in CsDates /\ csRemote[f].c \in CsDates
                               /\ csManual.buf[f] \in CsDates
  BY <1>0, <1>2 DEF CsTypeOK, CsDates, CsCopies
<1>4. PICK f \in CloudFiles :
        /\ csManual' \in {Reads(f, csManual), Done(f, csManual),
                          [csManual EXCEPT !.get = @ \ {f}], [csManual EXCEPT !.drop = @ \ {f}]}
        /\ \/ UNCHANGED <<csLocal, csRemote, csLost>>
           \/ /\ Stored(f, csManual) /\ UNCHANGED csLocal
              /\ LosesIf(f, csManual.buf[f] # csLocal[f].c)
           \/ Fetched(f) /\ UNCHANGED csRemote
           \/ /\ csRemote' = [csRemote EXCEPT ![f] = Absent] /\ UNCHANGED csLocal
              /\ LosesIf(f, Here(f))
  <2>1. CASE ManualReads
    BY <1>2, <2>1 DEF ManualReads, csStores, csFate
  <2>2. CASE ManualStores
    BY <1>2, <2>2 DEF ManualStores
  <2>3. CASE ManualGets
    BY <1>2, <2>3 DEF ManualGets, csFate
  <2>4. CASE ManualDrops
    BY <1>2, <2>4 DEF ManualDrops
  <2> QED BY <2>1, <2>2, <2>3, <2>4
<1>5. csManual' \in CsTasks({"none", "run"})
  <2>1. ASSUME NEW v \in CsDates PROVE [csManual.buf EXCEPT ![f] = v] \in [CloudFiles -> CsDates]
    BY <1>2
  <2>2. CASE csManual' = Done(f, csManual)
    BY <1>2, <1>3, <2>1, <2>2 DEF Done, CsTasks
  <2>3. CASE csManual' = Reads(f, csManual)
    BY <1>2, <1>3, <2>1, <2>3 DEF Reads, CsTasks
  <2>4. CASE csManual' \in {[csManual EXCEPT !.get = @ \ {f}], [csManual EXCEPT !.drop = @ \ {f}]}
    BY <1>2, <2>4 DEF CsTasks
  <2> QED BY <1>4, <2>2, <2>3, <2>4
<1>6. csLocal' \in [CloudFiles -> CsCopies] /\ csRemote' \in [CloudFiles -> CsCopies]
  <2>1. Absent \in CsCopies /\ [c |-> csManual.buf[f], t |-> csClock] \in CsCopies
        /\ [c |-> csRemote[f].c, t |-> csClock] \in CsCopies
    BY <1>3 DEF Absent, CsCopies
  <2> QED BY <1>0, <1>4, <2>1 DEF CsTypeOK, Stored, Fetched, Write
<1>7. CsTypeOK' /\ ListsDone'
  BY <1>0, <1>1, <1>5, <1>6 DEF CsTypeOK, CsCopies, CsDates, CsTasks, ListsDone
<1>8. \A g \in CloudFiles : FileSafe(g)'
  <2>1. CASE UNCHANGED <<csLocal, csRemote, csLost>>
    <3>1. ASSUME NEW g \in CloudFiles
          PROVE  FileSafe(g)'
      <4>1. FileSafe(g)
        BY <1>0
      <4> QED BY <1>1, <2>1, <4>1, FileUntouched
    <3> QED BY <3>1
  <2>2. CASE /\ Stored(f, csManual) /\ UNCHANGED csLocal
             /\ LosesIf(f, csManual.buf[f] # csLocal[f].c)
    <3>1. /\ csRemote'[f].c = csManual.buf[f]
          /\ \A g \in CloudFiles \ {f} : csRemote'[g] = csRemote[g]
          /\ \A g : g \in csLost => g \in csLost'
          /\ csRemote'[f].c # csLocal[f].c => f \in csLost'
      BY <1>0, <2>2 DEF CsTypeOK, Stored, LosesIf
    <3>2. ASSUME NEW g \in CloudFiles
          PROVE  FileSafe(g)'
      <4>1. FileSafe(g)
        BY <1>0
      <4>2. CASE g # f
        BY <1>1, <2>2, <3>1, <4>1, <4>2, FileUntouched
      <4>3. CASE g = f
        BY <1>1, <2>2, <3>1, <4>1, <4>3 DEF FileSafe, FileHere, FileGone, FileDropped, Here, Noticed
      <4> QED BY <4>2, <4>3
    <3> QED BY <3>2
  <2>3. CASE Fetched(f) /\ UNCHANGED csRemote
    BY <1>1, <2>3, WriteKeeps DEF Fetched
  <2>4. CASE /\ csRemote' = [csRemote EXCEPT ![f] = Absent] /\ UNCHANGED csLocal
             /\ LosesIf(f, Here(f))
    BY <1>1, <2>4, DropKeeps
  <2> QED BY <1>4, <2>1, <2>2, <2>3, <2>4
<1> QED BY <1>7, <1>8 DEF CsInv

\* The steps that move no file.
LEMMA OthersKeep ==
    CsInv /\ (DebounceElapses \/ ManualList \/ ManualDone \/ UNCHANGED csVars) => CsInv'
<1> SUFFICES ASSUME CsInv, DebounceElapses \/ ManualList \/ ManualDone \/ UNCHANGED csVars
             PROVE  CsInv'
  OBVIOUS
<1>0. CsTypeOK /\ ListsDone /\ (\A f \in CloudFiles : FileSafe(f))
  BY DEF CsInv
<1>1. UNCHANGED <<csLocal, csRemote, csClock, csSnap, csAmbig, csChanged, csDeleted, csWatch,
                  csLost, csDirection, csDeleteExtra>>
  BY DEF DebounceElapses, ManualList, ManualDone, csStores, csPending, csConfig, csFate, csVars
<1>2. NothingRead \in [CloudFiles -> CsDates]
  BY <1>0 DEF NothingRead, CsDates, CsTypeOK
<1>3. csManual' \in CsTasks({"none", "run"})
  <2>1. CASE ManualList
    <3>1. PICK d \in {"upload", "download", "sync"}, extra \in BOOLEAN :
            csManual' = [pc |-> "run", put |-> Plan(d, extra).put, get |-> Plan(d, extra).get,
                         drop |-> Plan(d, extra).drop, buf |-> NothingRead]
      BY <2>1 DEF ManualList
    <3>2. /\ Plan(d, extra).put \subseteq CloudFiles /\ Plan(d, extra).get \subseteq CloudFiles
          /\ Plan(d, extra).drop \subseteq CloudFiles
      BY <3>1 DEF Plan, OnlyLocal, OnlyRemote, Differ, Newer
    <3> QED BY <1>2, <3>1, <3>2 DEF CsTasks
  <2>2. CASE csManual' \in {csManual, Idle("none")}
    BY <1>0, <1>2, <2>2 DEF CsTypeOK, CsTasks, Idle
  <2> QED BY <2>1, <2>2 DEF DebounceElapses, ManualDone, csVars
<1>4. CsTypeOK' /\ ListsDone'
  BY <1>0, <1>1, <1>3 DEF CsTypeOK, CsCopies, CsDates, CsTasks, ListsDone
<1>5. ASSUME NEW f \in CloudFiles
      PROVE  FileSafe(f)'
  <2>1. FileSafe(f)
    BY <1>0
  <2> QED BY <1>1, <2>1, FileUntouched
<1> QED BY <1>4, <1>5 DEF CsInv

\* A watcher that uploads never downloads: the two steps of a download aside, every
\* step is one of those above.
LEMMA CsInvNext == CsInv /\ [CsNext]_csVars => CsInv'
<1> SUFFICES ASSUME CsInv, [CsNext]_csVars
             PROVE  CsInv'
  OBVIOUS
<1>1. ~WatchGets /\ ~WatchGot
  BY DEF CsInv, CsTypeOK, CsTasks, WatchGets, WatchGot, Watching
<1> QED BY <1>1, UserKeeps, PollKeeps, FireKeeps, PutsKeep, DropsKeep, ManualKeeps,
           OthersKeep DEF CsNext, CsWatcher, CsManual

\* While the watcher uploads, no change here is forgotten but where the watcher
\* takes no note of what it does or cannot see it: a file that differs from its
\* copy is pending, on its way or will be seen by the next poll, for any number of
\* files, writes and failures, and whenever folder syncs come in between.
THEOREM NoChangeIsForgotten == CsSpec => []NoChangeForgotten
<1>1. CsInv => NoChangeForgotten
  <2> SUFFICES ASSUME CsInv, NEW f \in CloudFiles
               PROVE  Settled(f) \/ Pending(f) \/ OnItsWay(f) \/ WillBeSeen(f) \/ f \in csLost
    BY DEF NoChangeForgotten
  <2>1. FileSafe(f) /\ csDeleteExtra \in BOOLEAN
    BY DEF CsInv, CsTypeOK
  <2>2. CASE Here(f)
    BY <2>1, <2>2 DEF FileSafe, FileHere, Noticed, Here, Settled, Pending, OnItsWay, WillBeSeen
  <2>3. CASE ~Here(f)
    BY <2>1, <2>3 DEF FileSafe, FileGone, Here, Settled, Pending, OnItsWay, WillBeSeen
  <2> QED BY <2>2, <2>3
<1>2. CsInit => csDirection # "upload" \/ CsInv
  BY CsInvInit
<1>3. (csDirection # "upload" \/ CsInv) /\ [CsNext]_csVars => (csDirection # "upload" \/ CsInv)'
  <2>1. [CsNext]_csVars => UNCHANGED csDirection
    BY DEF CsNext, CsWatcher, CsManual, csVars, csConfig, EditFile, EditFileQuickly, DeleteFile,
       RemoteWrite, CsWorld, PollLocal, Fire, WatchReads, WatchStores, WatchPutsDone, WatchDrops,
       WatchSynced, ListRemote, WatchGets, WatchGot, DebounceElapses, ManualList, ManualReads,
       ManualStores, ManualGets, ManualDrops, ManualDone
  <2> QED BY <2>1, CsInvNext
<1>4. (csDirection # "upload" \/ CsInv) => NoChangeForgotten
  BY <1>1 DEF NoChangeForgotten
<1> QED BY <1>2, <1>3, <1>4, PTL DEF CsSpec
=============================================================================
