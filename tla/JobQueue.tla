------------------------------ MODULE JobQueue ------------------------------
(***************************************************************************)
(* jobs.cpp: the background jobs of the editor server.  A request submits  *)
(* a job and is answered with its id; a fixed set of workers takes jobs    *)
(* from a FIFO queue under one mutex, sleeping on a condition variable     *)
(* when there is none; finished jobs stay in the table to be polled until  *)
(* it overflows.  stop() ends the workers and leaves queued jobs behind.   *)
(***************************************************************************)
EXTENDS Naturals, Sequences, FiniteSets

CONSTANTS
    Jobs,           \* ids of jobs: a bound on the jobs of a behaviour
    JobWorkers,
    JobClients,     \* request threads that submit
    NoJob,
    MaxJobs         \* kMaxJobs: entries of the table before it is pruned

ASSUME JobConstants == MaxJobs \in Nat \ {0} /\ NoJob \notin Jobs

VARIABLES
    jobQueue,    \* Pool::queue
    jobState,    \* [Jobs -> "none", "queued", "running", "done" or "evicted"]
    jobDone,     \* finished jobs of the table, in the order of their expiry
    jobExpired,  \* how many of them are past their fifteen minutes
    jobRuns,     \* [Jobs -> how often fn was called] (history)
    jobStopping, \* Pool::stopping
    jobWorker,   \* [JobWorkers -> pc and the id it holds]
    jobClient    \* [JobClients -> "idle" or "notify"]

jobVars == <<jobQueue, jobState, jobDone, jobExpired, jobRuns, jobStopping, jobWorker, jobClient>>
jobTable == <<jobQueue, jobState, jobDone, jobExpired>>

JobInit ==
    /\ jobQueue = <<>>
    /\ jobState = [j \in Jobs |-> "none"]
    /\ jobDone = <<>> /\ jobExpired = 0
    /\ jobRuns = [j \in Jobs |-> 0]
    /\ jobStopping = FALSE
    /\ jobWorker = [w \in JobWorkers |-> [pc |-> "look", job |-> NoJob]]
    /\ jobClient = [c \in JobClients |-> "idle"]

Unfinished(st) == {j \in Jobs : st[j] \in {"queued", "running"}}

\* Mutant: the overflow takes unfinished jobs too.
SurvivorsAny(st, done, expired) ==
    LET kept == SubSeq(done, expired + 1, Len(done))
        size == Len(kept) + Cardinality(Unfinished(st)) IN
    [st |-> [j \in Jobs |-> IF size > MaxJobs /\ st[j] = "queued" THEN "evicted" ELSE st[j]],
     done |-> kept]

\* prune_locked: what is left of a table over its cap when the expired and then
\* the oldest finished jobs are gone.
Survivors(st, done, expired) ==
    LET kept  == SubSeq(done, expired + 1, Len(done))
        size  == Len(kept) + Cardinality(Unfinished(st))
        extra == IF size > MaxJobs THEN size - MaxJobs ELSE 0
        left  == SubSeq(kept, extra + 1, Len(kept)) IN
    [st |-> [j \in Jobs |-> IF st[j] = "done" /\ \A i \in DOMAIN left : left[i] # j
                            THEN "evicted" ELSE st[j]],
     done |-> left]

Prune(st, done) ==
    IF Cardinality({j \in Jobs : st[j] \notin {"none", "evicted"}}) <= MaxJobs
    THEN jobState' = st /\ jobDone' = done /\ UNCHANGED jobExpired
    ELSE LET s == Survivors(st, done, jobExpired) IN
         jobState' = s.st /\ jobDone' = s.done /\ jobExpired' = 0

Submit(c) ==
    /\ jobClient[c] = "idle"
    /\ \E j \in Jobs :
         /\ jobState[j] = "none"
         /\ Prune([jobState EXCEPT ![j] = "queued"], jobDone)
         /\ jobQueue' = Append(jobQueue, j)
    /\ jobClient' = [jobClient EXCEPT ![c] = "notify"]
    /\ UNCHANGED <<jobRuns, jobStopping, jobWorker>>

Asleep == {w \in JobWorkers : jobWorker[w].pc = "asleep"}
WorkerAt(w, pc, j) == jobWorker' = [jobWorker EXCEPT ![w] = [pc |-> pc, job |-> j]]

\* Mutant: nobody is woken.
NotifyLost == UNCHANGED jobWorker

\* cv.notify_one, after the mutex is released.
NotifyOne ==
    IF Asleep = {} THEN UNCHANGED jobWorker
    ELSE \E w \in Asleep : WorkerAt(w, "look", NoJob)

Notify(c) ==
    /\ jobClient[c] = "notify"
    /\ NotifyOne
    /\ jobClient' = [jobClient EXCEPT ![c] = "idle"]
    /\ UNCHANGED <<jobTable, jobRuns, jobStopping>>

\* worker_loop, first section: the wait with its predicate, then the pop.
TakeJob(w) ==
    /\ jobWorker[w].pc = "look"
    /\ IF jobStopping THEN WorkerAt(w, "gone", NoJob) /\ UNCHANGED jobQueue
       ELSE IF jobQueue = <<>> THEN WorkerAt(w, "asleep", NoJob) /\ UNCHANGED jobQueue
       ELSE WorkerAt(w, "popped", Head(jobQueue)) /\ jobQueue' = Tail(jobQueue)
    /\ UNCHANGED <<jobState, jobDone, jobExpired, jobRuns, jobStopping, jobClient>>

\* Second section: the job may have left the table meanwhile.
StartJob(w) ==
    LET j == jobWorker[w].job IN
    /\ jobWorker[w].pc = "popped"
    /\ IF jobState[j] # "queued"
       THEN WorkerAt(w, "look", NoJob) /\ UNCHANGED <<jobState, jobRuns>>
       ELSE /\ jobState' = [jobState EXCEPT ![j] = "running"]
            /\ jobRuns' = [jobRuns EXCEPT ![j] = @ + 1]
            /\ WorkerAt(w, "running", j)
    /\ UNCHANGED <<jobQueue, jobDone, jobExpired, jobStopping, jobClient>>

\* fn has returned or thrown; either way there is an answer to keep.
FinishJob(w) ==
    LET j == jobWorker[w].job IN
    /\ jobWorker[w].pc = "running"
    /\ IF jobState[j] = "running"
       THEN Prune([jobState EXCEPT ![j] = "done"], Append(jobDone, j))
       ELSE UNCHANGED <<jobState, jobDone, jobExpired>>
    /\ WorkerAt(w, "look", NoJob)
    /\ UNCHANGED <<jobQueue, jobRuns, jobStopping, jobClient>>

\* Fifteen minutes pass for the oldest finished job.
ExpireJob ==
    /\ jobExpired < Len(jobDone)
    /\ jobExpired' = jobExpired + 1
    /\ UNCHANGED <<jobQueue, jobState, jobDone, jobRuns, jobStopping, jobWorker, jobClient>>

\* Mutant: only one worker is woken.
WokenOne ==
    LET first == CHOOSE w \in JobWorkers : w \in Asleep \/ Asleep = {} IN
    [w \in JobWorkers |-> IF w = first /\ w \in Asleep THEN [pc |-> "look", job |-> NoJob]
                         ELSE jobWorker[w]]

\* cv.notify_all
WokenAll ==
    [w \in JobWorkers |-> IF w \in Asleep THEN [pc |-> "look", job |-> NoJob]
                         ELSE jobWorker[w]]

\* stop(): the flag under the mutex and notify_all; the join is the end of all
\* workers.
StopJobs ==
    /\ ~jobStopping
    /\ jobStopping' = TRUE
    /\ jobWorker' = WokenAll
    /\ UNCHANGED <<jobTable, jobRuns, jobClient>>

WorkerStep(w) == TakeJob(w) \/ StartJob(w) \/ FinishJob(w)

JobNext ==
    \/ ExpireJob
    \/ StopJobs
    \/ \E c \in JobClients : Submit(c) \/ Notify(c)
    \/ \E w \in JobWorkers : WorkerStep(w)

\* Threads are scheduled, and what a job runs ends (every network call has a
\* timeout).
JobFairness ==
    /\ \A c \in JobClients : WF_jobVars(Notify(c))
    /\ \A w \in JobWorkers : WF_jobVars(WorkerStep(w))

JobSpec == JobInit /\ [][JobNext]_jobVars /\ JobFairness

-----------------------------------------------------------------------------
(* Properties                                                              *)

Holders(j) == {w \in JobWorkers : jobWorker[w].job = j}
Places(j)  == {i \in DOMAIN jobQueue : jobQueue[i] = j}

\* A job is in one place: waiting in the queue or in the hand of one worker
\* until it has run, whatever the cap, the expiry and the two lock sections
\* between pop and start do; nothing runs twice and nothing leaves the table
\* that has not run ("unfinished entries are never evicted", jobs.cpp:58-59).
JobInOnePlace ==
    \A j \in Jobs :
        /\ jobState[j] = "queued"  => Cardinality(Places(j)) + Cardinality(Holders(j)) = 1
        /\ jobState[j] = "running" => Places(j) = {} /\ Cardinality(Holders(j)) = 1
        /\ jobState[j] \in {"done", "evicted"} => jobRuns[j] = 1
        /\ jobRuns[j] <= 1

\* Every submitted job gets its answer unless the server is stopped first: no
\* wake-up is lost between a push, a notify and a worker going to sleep.
EveryJobEnds ==
    \A j \in Jobs : jobState[j] = "queued" ~> jobState[j] \in {"done", "evicted"} \/ jobStopping

\* stop() returns: its join waits for workers that all leave.
StopReturns == jobStopping ~> \A w \in JobWorkers : jobWorker[w].pc = "gone"
=============================================================================
