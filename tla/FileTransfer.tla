---------------------------- MODULE FileTransfer ----------------------------
(***************************************************************************)
(* file_transfer.cpp: one large file on its way from a browser to the      *)
(* server's disk (through the object store COS, or in parts over HTTP) and *)
(* back into COS when it is downloaded.  Its record in files.json is       *)
(* patched under g_store_mu by request handlers, by jobs and by the        *)
(* reclaimer; each reads the record in one lock section and patches it in  *)
(* a later one, with the slow work in between.                             *)
(***************************************************************************)
EXTENDS Naturals, Sequences

CONSTANTS
    FtClients,      \* requests in flight at the same time
    FtWorkers,      \* job threads
    FtKinds,        \* ways to upload: "server", "multipart", "local", "s3"
    FtParts,        \* parts of a file
    FtMaxRestarts,  \* bound: restarts of the server in a behaviour
    FtFaults        \* {"again"}: requests of a file may cross, a complete be repeated

ASSUME FtConstants ==
    /\ FtKinds \subseteq {"server", "multipart", "local", "s3"}
    /\ FtParts \in Nat \ {0} /\ FtMaxRestarts \in Nat
    /\ FtFaults \subseteq {"again"}

VARIABLES
    ftRec,      \* the record: status, kind, past its time to live?, "upload abandoned"?
    ftCos,      \* its objects in COS: "staging", "warm", "session" (multipart)
    ftDisk,     \* local_path: "none", "part" or "whole"
    ftSentParts,\* parts the browser has put, 0..FtParts
    ftOp,       \* [FtClients -> [op, at]] the handler of each request
    ftJobs,     \* jobs enqueued: "archive", "warm"
    ftJob,      \* [FtWorkers -> [job, at]]
    ftReclaim,  \* reclaim_expired's task: at, was, same (updated_at as scanned), ok
    ftSent,     \* the browser was told that all bytes arrived (history)
    ftGivenUp,  \* the upload was aborted, abandoned or discarded (history)
    ftLate,     \* a download, or a restart, came while the warm object was reclaimed (history)
    ftCrossed,  \* a request crossed another one or a job of its file (history)
    ftRestarts

ftStore   == <<ftCos, ftDisk, ftSentParts>>
ftThreads == <<ftOp, ftJobs, ftJob>>
ftHistory == <<ftSent, ftGivenUp, ftLate, ftCrossed>>
ftVars    == <<ftRec, ftStore, ftThreads, ftReclaim, ftHistory, ftRestarts>>

FtFree    == [op |-> "none", at |-> "none"]
FtResting == [job |-> "none", at |-> "none"]
FtNoTask  == [at |-> "idle", was |-> "none", same |-> TRUE, ok |-> TRUE]

FtInit ==
    /\ ftRec = [status |-> "none", kind |-> "none", aged |-> FALSE, abandoned |-> FALSE]
    /\ ftCos = {} /\ ftDisk = "none" /\ ftSentParts = 0
    /\ ftOp = [c \in FtClients |-> FtFree]
    /\ ftJobs = <<>>
    /\ ftJob = [w \in FtWorkers |-> FtResting]
    /\ ftReclaim = FtNoTask
    /\ ftSent = FALSE /\ ftGivenUp = FALSE /\ ftLate = FALSE /\ ftCrossed = FALSE
    /\ ftRestarts = 0

\* update_record: every patch moves updated_at, which a reclaim in flight sees.
FtPatch(st) ==
    /\ ftRec' = [ftRec EXCEPT !.status = st, !.aged = FALSE, !.abandoned = FALSE]
    /\ ftReclaim' = [ftReclaim EXCEPT !.same = ftReclaim.at = "idle"]

\* Mutant: submit throws and enqueue_archive's catch (...) swallows it.
EnqueueLost(j) == UNCHANGED ftJobs

Enqueue(j) == ftJobs' = Append(ftJobs, j)

FtGoto(c, o, l) == ftOp' = [ftOp EXCEPT ![c] = [op |-> o, at |-> l]]
FtAnswer(c)     == ftOp' = [ftOp EXCEPT ![c] = FtFree]
JobGoto(w, l)   == ftJob' = [ftJob EXCEPT ![w].at = l]
JobEnds(w)      == ftJob' = [ftJob EXCEPT ![w] = FtResting]

-----------------------------------------------------------------------------
(* The browser: asks for an upload, puts the bytes                         *)

\* upload/request, local/init, multipart/init, initiate: the record is stored.
BeginUpload(k) ==
    /\ ftRec.status = "none"
    /\ ftRec' = [ftRec EXCEPT !.status = "pending_upload", !.kind = k]
    /\ ftCos' = IF k = "multipart" THEN {"session"} ELSE {}
    /\ UNCHANGED <<ftDisk, ftSentParts, ftThreads, ftReclaim, ftHistory, ftRestarts>>

\* A PUT to the presigned url, valid for thirty minutes.
PutObject ==
    /\ ftRec.status = "pending_upload" /\ ~ftRec.aged
    /\ ftRec.kind \in {"server", "s3"} /\ "staging" \notin ftCos
    /\ ftCos' = ftCos \cup {"staging"}
    /\ ftSent' = TRUE
    /\ UNCHANGED <<ftRec, ftDisk, ftSentParts, ftThreads, ftReclaim>>
    /\ UNCHANGED <<ftGivenUp, ftLate, ftCrossed, ftRestarts>>

\* A part, to COS or to local/{id}/part/{n}.
PutPart ==
    /\ ftRec.status = "pending_upload" /\ ~ftRec.aged /\ ~ftGivenUp
    /\ ftRec.kind \in {"multipart", "local"} /\ ftSentParts < FtParts
    /\ ftSentParts' = ftSentParts + 1
    /\ ftSent' = (ftRec.kind = "local" /\ ftSentParts' = FtParts)
    /\ UNCHANGED <<ftRec, ftCos, ftDisk, ftThreads, ftReclaim>>
    /\ UNCHANGED <<ftGivenUp, ftLate, ftCrossed, ftRestarts>>

\* The six hours of a pending upload, the two of a warm object.
AgeFile ==
    /\ ftRec.status \in {"pending_upload", "ready"} /\ ~ftRec.aged
    /\ ftRec' = [ftRec EXCEPT !.aged = TRUE]
    /\ UNCHANGED <<ftStore, ftThreads, ftReclaim, ftHistory, ftRestarts>>

-----------------------------------------------------------------------------
(* Requests.  The first step reads the record and decides on its status.   *)

\* The statuses a handler goes on from.
Accepts(o) ==
    CASE o = "complete" -> /\ ftRec.status \notin {"archiving", "archived", "ready"}
                           /\ ~(ftRec.status = "failed" /\ ftRec.abandoned)
      [] o = "merge"    -> ftRec.status = "pending_upload" /\ ftRec.kind = "multipart"
      [] o = "assemble" -> /\ ftRec.status = "pending_upload" /\ ftRec.kind = "local"
                           /\ ftSentParts = FtParts
      [] o = "abort"    -> \/ ftRec.kind = "local"
                           \/ ftRec.kind = "multipart" /\ ftRec.status = "pending_upload"
      [] o = "s3done"   -> ftRec.status = "pending_upload"
      [] o = "link"     -> ftRec.status \in {"pending_upload", "s3_uploaded", "linked"}
      [] o = "download" -> \/ ftRec.status = "archived" /\ ftRec.kind # "local"
                           \/ ftRec.status = "ready"
      [] o = "discard"  -> ftRec.kind = "local"

\* What the front end sends for its file, and when.
Sends(o) ==
    /\ ~ftGivenUp
    /\ CASE o = "complete" -> ftRec.kind \in {"server", "multipart"} /\ ftSent
         [] o = "merge"    -> ftSentParts = FtParts
         [] o = "s3done"   -> ftRec.kind = "s3" /\ ftSent
         [] o = "link"     -> ftRec.kind \in {"server", "s3"} /\ ftSent
         [] o = "discard"  -> ftRec.status = "archived"
         [] OTHER          -> TRUE

\* A request that the server lets in while another one is under way (but for an
\* abort, which follows a merge that timed out and still runs), or a complete of
\* bytes that are archived already: the front end of one browser sends neither.
Crosses(o) ==
    \/ \E c \in FtClients :
          ftOp[c].op \notin (IF o = "abort" THEN {"none", "merge", "assemble"} ELSE {"none"})
    \/ o = "complete" /\ ftRec.status \notin {"pending_upload", "failed"}

Ask(c) ==
    /\ ftOp[c] = FtFree /\ ftRec.status \notin {"none", "gone"}
    /\ \E o \in {"complete", "merge", "assemble", "abort", "s3done", "link", "download",
               "discard"} :
         /\ Accepts(o) /\ Sends(o)
         /\ Crosses(o) => "again" \in FtFaults
         /\ ftCrossed' = (ftCrossed \/ Crosses(o))
         /\ ftGivenUp' = (o \in {"abort", "discard"})
         /\ FtGoto(c, IF o = "download" THEN ftRec.status ELSE o,
                   IF o \in {"merge", "assemble", "abort", "discard"} THEN "act" ELSE "patch")
    /\ UNCHANGED <<ftRec, ftStore, ftJobs, ftJob, ftReclaim, ftSent, ftLate, ftRestarts>>

\* multipart/complete: COS puts the parts together, or the request ends.
MergeParts(c) ==
    /\ ftOp[c] = [op |-> "merge", at |-> "act"]
    /\ \/ /\ "session" \in ftCos
          /\ ftCos' = (ftCos \ {"session"}) \cup {"staging"}
          /\ ftSent' = TRUE
          /\ FtGoto(c, "merge", "patch")
       \/ FtAnswer(c) /\ UNCHANGED <<ftCos, ftSent>>
    /\ UNCHANGED <<ftRec, ftDisk, ftSentParts, ftJobs, ftJob, ftReclaim>>
    /\ UNCHANGED <<ftGivenUp, ftLate, ftCrossed, ftRestarts>>

\* local/complete: the output is truncated, then the parts are copied one by
\* one; a part that is gone, or a wrong total, removes the output.
AssembleParts(c) ==
    /\ ftOp[c].op = "assemble"
    /\ \/ ftOp[c].at = "act" /\ ftDisk' = "part" /\ FtGoto(c, "assemble", "copy")
       \/ /\ ftOp[c].at = "copy"
          /\ IF ftSentParts = FtParts
             THEN ftDisk' = "whole" /\ FtGoto(c, "assemble", "patch")
             ELSE ftDisk' = "none" /\ FtAnswer(c)
    /\ UNCHANGED <<ftRec, ftCos, ftSentParts, ftJobs, ftJob, ftReclaim, ftHistory, ftRestarts>>

\* local/abort removes the parts, multipart/abort the session, best effort.
DropUpload(c) ==
    /\ ftOp[c] = [op |-> "abort", at |-> "act"]
    /\ IF ftRec.kind = "local" THEN ftSentParts' = 0 /\ UNCHANGED ftCos
       ELSE ftCos' \in {ftCos, ftCos \ {"session"}} /\ UNCHANGED ftSentParts
    /\ FtGoto(c, "abort", "patch")
    /\ UNCHANGED <<ftRec, ftDisk, ftJobs, ftJob, ftReclaim, ftHistory, ftRestarts>>

\* discard_local_record: the file and the parts, then the record.
DiscardFile(c) ==
    /\ ftOp[c] = [op |-> "discard", at |-> "act"]
    /\ ftDisk' = "none" /\ ftSentParts' = 0
    /\ FtGoto(c, "discard", "patch")
    /\ UNCHANGED <<ftRec, ftCos, ftJobs, ftJob, ftReclaim, ftHistory, ftRestarts>>

\* The last step: the record is patched as decided, whatever it is by now.
PatchRecord(c) ==
    LET o == ftOp[c].op IN
    /\ ftOp[c].at = "patch"
    /\ CASE o \in {"complete", "merge"} -> FtPatch("archiving") /\ Enqueue("archive")
         [] o = "archived" -> FtPatch("warming_up") /\ Enqueue("warm")
         [] o = "ready"    -> FtPatch(ftRec.status) /\ UNCHANGED ftJobs
         [] o = "assemble" -> FtPatch("archived") /\ UNCHANGED ftJobs
         [] o = "abort"    -> FtPatch("failed") /\ UNCHANGED ftJobs
         [] o = "s3done"   -> FtPatch("s3_uploaded") /\ UNCHANGED ftJobs
         [] o = "link"     -> FtPatch("linked") /\ UNCHANGED ftJobs
         [] o = "discard"  -> FtPatch("gone") /\ UNCHANGED ftJobs
    /\ ftSentParts' = IF o = "assemble" THEN 0 ELSE ftSentParts
    /\ ftLate' = (ftLate \/ (o = "ready" /\ ftReclaim.at # "idle"))
    /\ FtAnswer(c)
    /\ UNCHANGED <<ftCos, ftDisk, ftJob, ftSent, ftGivenUp, ftCrossed, ftRestarts>>

-----------------------------------------------------------------------------
(* Jobs                                                                    *)

TakeFileJob(w) ==
    /\ ftJob[w] = FtResting /\ ftJobs # <<>>
    /\ ftJob' = [ftJob EXCEPT ![w] = [job |-> Head(ftJobs), at |-> "find"]]
    /\ ftJobs' = Tail(ftJobs)
    /\ UNCHANGED <<ftRec, ftStore, ftOp, ftReclaim, ftHistory, ftRestarts>>

\* archive_now and warm_now: a record that is there already is done.
FindFile(w) ==
    /\ ftJob[w].at = "find"
    /\ IF ftRec.status = (IF ftJob[w].job = "archive" THEN "archived" ELSE "ready")
       THEN JobEnds(w)
       ELSE JobGoto(w, IF ftJob[w].job = "archive" THEN "mark" ELSE "push")
    /\ UNCHANGED <<ftRec, ftStore, ftOp, ftJobs, ftReclaim, ftHistory, ftRestarts>>

MarkArchiving(w) ==
    /\ ftJob[w].at = "mark"
    /\ FtPatch("archiving")
    /\ JobGoto(w, "open")
    /\ UNCHANGED <<ftStore, ftOp, ftJobs, ftHistory, ftRestarts>>

\* Mutant: the staging object goes before the copy is verified.
StagingLeftEarly == ftCos \ {"staging"}

\* The staging object while it is fetched.
StagingLeft == ftCos

\* ops.download truncates the local file in place ...
OpenLocal(w) ==
    /\ ftJob[w].at = "open"
    /\ ftDisk' = "part"
    /\ JobGoto(w, "fetch")
    /\ UNCHANGED <<ftRec, ftCos, ftSentParts, ftOp, ftJobs, ftReclaim, ftHistory, ftRestarts>>

\* ... and fills it; a short file is removed.
FetchStaging(w) ==
    /\ ftJob[w].at = "fetch"
    /\ \/ "staging" \in ftCos /\ ftDisk' = "whole" /\ JobGoto(w, "drop")
       \/ ftDisk' \in {"part", "none"} /\ JobGoto(w, "fail")
    /\ ftCos' = StagingLeft
    /\ UNCHANGED <<ftRec, ftSentParts, ftOp, ftJobs, ftReclaim, ftHistory, ftRestarts>>

DropStaging(w) ==
    /\ ftJob[w].at = "drop"
    /\ ftCos' \in {ftCos, ftCos \ {"staging"}}
    /\ JobGoto(w, "archived")
    /\ UNCHANGED <<ftRec, ftDisk, ftSentParts, ftOp, ftJobs, ftReclaim, ftHistory, ftRestarts>>

\* Mutant: a failed warm-up is taken for a success.
PushedAnyway == "ready"

\* Where a warm-up that failed leaves the record.
PushFailed == "archived"

\* warm_now's upload.
PushWarm(w) ==
    /\ ftJob[w].at = "push"
    /\ IF ftDisk = "none" THEN JobGoto(w, "fail") /\ UNCHANGED ftCos
       ELSE \/ ftCos' = ftCos \cup {"warm"} /\ JobGoto(w, "ready")
            \/ JobGoto(w, PushFailed) /\ UNCHANGED ftCos
    /\ UNCHANGED <<ftRec, ftDisk, ftSentParts, ftOp, ftJobs, ftReclaim, ftHistory, ftRestarts>>

\* The job's last patch.
SettleFile(w) ==
    /\ ftJob[w].at \in {"fail", "archived", "ready"}
    /\ FtPatch(IF ftJob[w].at = "fail" THEN "failed" ELSE ftJob[w].at)
    /\ ftLate' = (ftLate /\ ftJob[w].at # "ready")
    /\ JobEnds(w)
    /\ UNCHANGED <<ftStore, ftOp, ftJobs, ftSent, ftGivenUp, ftCrossed, ftRestarts>>

-----------------------------------------------------------------------------
(* reclaim_expired: scan, delete without the lock, write back              *)

ScanExpired ==
    /\ ftReclaim.at = "idle" /\ ftRec.aged
    /\ ftReclaim' = [at |-> "delete", was |-> ftRec.status, same |-> TRUE, ok |-> TRUE]
    /\ ftGivenUp' = (ftGivenUp \/ ftRec.status = "pending_upload")
    /\ UNCHANGED <<ftRec, ftStore, ftThreads, ftSent, ftLate, ftCrossed, ftRestarts>>

DeleteExpired ==
    /\ ftReclaim.at = "delete"
    /\ LET left == IF ftReclaim.was = "ready" THEN ftCos \ {"warm"}
                   ELSE IF ftRec.kind = "multipart" THEN ftCos \ {"session"}
                   ELSE ftCos \ {"staging"} IN
       \E done \in BOOLEAN :
         /\ ftCos' = IF done THEN left ELSE ftCos
         /\ ftReclaim' = [ftReclaim EXCEPT !.at = "write", !.ok = done]
    /\ UNCHANGED <<ftRec, ftDisk, ftSentParts, ftThreads, ftHistory, ftRestarts>>

\* Mutant: updated_at is not looked at again.
AsScannedUnchecked == TRUE

\* The record is still the one that was scanned.
AsScanned == ftReclaim.same

WriteReclaimed ==
    /\ ftReclaim.at = "write"
    /\ IF AsScanned /\ (ftReclaim.was = "pending_upload" \/ ftReclaim.ok)
       THEN LET pending == ftReclaim.was = "pending_upload" IN
            ftRec' = [ftRec EXCEPT !.status = IF pending THEN "failed" ELSE "archived",
                                   !.aged = FALSE, !.abandoned = pending]
       ELSE UNCHANGED ftRec
    /\ ftReclaim' = FtNoTask
    /\ UNCHANGED <<ftStore, ftThreads, ftHistory, ftRestarts>>

\* The server is stopped or dies: what its threads were doing is gone.
RestartTransfer ==
    /\ ftRestarts < FtMaxRestarts
    /\ ftRestarts' = ftRestarts + 1
    /\ ftOp' = [c \in FtClients |-> FtFree]
    /\ ftJobs' = <<>>
    /\ ftJob' = [w \in FtWorkers |-> FtResting]
    /\ ftReclaim' = FtNoTask
    /\ ftLate' = (ftLate \/ ftReclaim.at = "write")
    /\ UNCHANGED <<ftRec, ftStore, ftSent, ftGivenUp, ftCrossed>>

-----------------------------------------------------------------------------

FtRequest(c) ==
    \/ MergeParts(c) \/ AssembleParts(c) \/ DropUpload(c) \/ DiscardFile(c) \/ PatchRecord(c)
FtWork(w) ==
    \/ TakeFileJob(w) \/ FindFile(w) \/ MarkArchiving(w) \/ OpenLocal(w) \/ FetchStaging(w)
    \/ DropStaging(w) \/ PushWarm(w) \/ SettleFile(w)

FtNext ==
    \/ \E k \in FtKinds : BeginUpload(k)
    \/ PutObject \/ PutPart \/ AgeFile
    \/ \E c \in FtClients : Ask(c) \/ FtRequest(c)
    \/ \E w \in FtWorkers : FtWork(w)
    \/ ScanExpired \/ DeleteExpired \/ WriteReclaimed
    \/ RestartTransfer

\* Threads are scheduled and every call to COS has a timeout.
FtFairness ==
    /\ \A c \in FtClients : WF_ftVars(FtRequest(c))
    /\ \A w \in FtWorkers : WF_ftVars(FtWork(w))

FtSpec == FtInit /\ [][FtNext]_ftVars /\ FtFairness

-----------------------------------------------------------------------------
(* Properties                                                              *)

BytesAreSomewhere ==
    \/ "staging" \in ftCos \/ ftDisk = "whole"
    \/ ftRec.kind = "local" /\ ftSentParts = FtParts

\* The bytes a browser was told had arrived exist somewhere until it gives the
\* upload up: no order of archive, verify, staging delete, restart and reclaim
\* loses both copies, as long as the requests of the file do not cross.
BytesKept == ftSent /\ ~ftGivenUp /\ ~ftCrossed => BytesAreSomewhere

\* "idempotent" (file_transfer.cpp:1188, 2266), "marks archiving, so that it is not
\* queued twice" (1195): a complete that is sent again does not cost the bytes that
\* have arrived their last copy, be it only the one a download link names.
CompleteIsIdempotent == ftSent /\ ~ftGivenUp => BytesAreSomewhere \/ "warm" \in ftCos

\* The status tells where the bytes are: archived, warming_up and ready records
\* have their whole local file (or none, when a discard was cut short), and a
\* ready one the object its download link names (unless a reclaim deletes it just
\* now, or a download or a restart came before that reclaim's write-back, which
\* then never happens), as long as the requests of the file do not cross.
RecordTellsWhere ==
    ~ftCrossed =>
        /\ ftRec.status \in {"archived", "warming_up", "ready"} =>
              \/ ftDisk = "whole"
              \/ ftDisk = "none" /\ ftRec.kind = "local" /\ ftGivenUp
        /\ ftRec.status = "ready" =>
              "warm" \in ftCos \/ ftReclaim.at = "write" \/ ftLate

\* "abandon this write-back, so that an outdated snapshot does not cover the new
\* state" (file_transfer.cpp:1551-1552): a reclaim writes only over the status it
\* scanned, whatever finished while it deleted.
ReclaimOverwritesNothing ==
    [][ftReclaim.at = "write" /\ ftReclaim'.at = "idle" /\ ftRec' # ftRec
         => ftRec.status = ftReclaim.was]_ftVars

\* A file that is being archived or warmed up is settled by its job, unless the
\* server is restarted first.
FileSettles ==
    ftRec.status \in {"archiving", "warming_up"}
        ~> ftRec.status \notin {"archiving", "warming_up"} \/ ftRestarts > 0
=============================================================================
