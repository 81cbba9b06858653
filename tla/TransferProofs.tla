--------------------------- MODULE TransferProofs ---------------------------
(***************************************************************************)
(* Proofs about the upload staging and archive of large files: the bytes a *)
(* browser was told had arrived are kept, the record tells where they are, *)
(* and a reclaim overwrites nothing.  The argument is that whatever reads  *)
(* the record and patches it later is alone with it: one request (an abort *)
(* aside), or one job, never both.  It ends with the first request that    *)
(* crosses another one, which the server does not prevent: from then on    *)
(* the invariant, and with it the first two theorems, say nothing.         *)
(***************************************************************************)
EXTENDS FileTransfer, TLAPS

-----------------------------------------------------------------------------
(* Shapes                                                                  *)

FtOps ==
    {FtFree} \cup [op : {"complete", "merge", "assemble", "abort", "s3done", "link", "archived",
                         "ready", "discard"}, at : {"patch"}]
    \cup [op : {"merge", "assemble", "abort", "discard"}, at : {"act"}]
    \cup [op : {"assemble"}, at : {"copy"}]
FtJobStates ==
    {FtResting}
    \cup [job : {"archive"}, at : {"find", "mark", "open", "fetch", "drop", "archived", "fail"}]
    \cup [job : {"warm"}, at : {"find", "push", "archived", "ready"}]

FtStatuses == {"none", "pending_upload", "archiving", "archived", "warming_up", "ready",
               "s3_uploaded", "linked", "failed", "gone"}
FtRecords  == [status : FtStatuses, kind : {"none", "server", "multipart", "local", "s3"},
               aged : BOOLEAN, abandoned : BOOLEAN]
FtTasks    == [at : {"idle", "delete", "write"}, was : {"none", "pending_upload", "ready"},
               same : BOOLEAN, ok : BOOLEAN]

FtShape ==
    /\ ftRec \in FtRecords
    /\ ftDisk \in {"none", "part", "whole"}
    /\ ftSentParts \in Nat
    /\ ftOp \in [FtClients -> FtOps]
    /\ ftJobs \in {<<>>, <<"archive">>, <<"warm">>}
    /\ ftJob \in [FtWorkers -> FtJobStates]
    /\ ftReclaim \in FtTasks
    /\ ftGivenUp \in BOOLEAN /\ ftSent \in BOOLEAN /\ ftLate \in BOOLEAN

Has(j) == ftJobs = <<j>> \/ \E w \in FtWorkers : ftJob[w].job = j
Staged == ftGivenUp \/ "staging" \in ftCos

OneAtATime ==
    /\ \A c, d \in FtClients : c # d /\ ftOp[c].op # "none" /\ ftOp[d].op # "none" =>
         (ftOp[c].op = "abort") # (ftOp[d].op = "abort")
    /\ Has("archive") \/ Has("warm") => \A c \in FtClients : ftOp[c].op \in {"none", "abort"}
    /\ ftJobs # <<>> => \A w \in FtWorkers : ftJob[w] = FtResting
    /\ \A w, x \in FtWorkers : ftJob[w] # FtResting /\ ftJob[x] # FtResting => w = x

Requested(o, at) ==
    /\ o \in {"complete", "archived", "ready"} => ftRec.kind \in {"server", "multipart"}
    /\ o = "merge" => ftRec.kind = "multipart"
    /\ o \in {"assemble", "discard"} => ftRec.kind = "local"
    /\ o = "abort" => ftRec.kind \in {"local", "multipart"}
    /\ o = "s3done" => ftRec.kind = "s3"
    /\ o = "link" => ftRec.kind \in {"server", "s3"}
    /\ o \in {"complete", "merge", "assemble", "s3done"} => ftRec.status \in {"pending_upload", "failed"}
    /\ o = "link" => ftRec.status \in {"pending_upload", "failed", "s3_uploaded", "linked"}
    /\ o = "archived" => ftRec.status = "archived"
    /\ o = "ready" => ftRec.status \in {"archived", "ready"}
    /\ o \in {"archived", "ready"} => ~ftGivenUp
    /\ o \in {"abort", "discard"} => ftGivenUp
    /\ o \in {"complete", "merge"} /\ at = "patch" => Staged
    /\ o = "assemble" /\ at = "patch" => ftDisk = "whole"

Jobbed ==
    /\ Has("archive") =>
         /\ ftRec.kind \in {"server", "multipart"}
         /\ ftRec.status = "archiving" \/ (ftRec.status = "failed" /\ ftGivenUp)
    /\ Has("warm") =>
         /\ ftRec.kind \in {"server", "multipart"} /\ ftRec.status = "warming_up" /\ ftDisk = "whole"
    /\ ftJobs = <<"archive">> => Staged
    /\ \A w \in FtWorkers :
         /\ ftJob[w].job = "archive" /\ ftJob[w].at \in {"find", "mark", "open", "fetch", "fail"} => Staged
         /\ ftJob[w].at \in {"drop", "archived"} => ftDisk = "whole"
         /\ ftJob[w].at = "ready" => "warm" \in ftCos

Statuses ==
    /\ ftGivenUp => ftRec.status \notin {"warming_up", "ready"}
    /\ ftRec.status = "none" => /\ ftRec.kind = "none" /\ \A c \in FtClients : ftOp[c] = FtFree
                                /\ ~ftRec.aged /\ ftReclaim.at = "idle" /\ ~ftSent
                                /\ ~Has("archive") /\ ~Has("warm")
    /\ ftRec.status # "none" => ftRec.kind # "none"
    /\ ftRec.aged => ftRec.status \in {"pending_upload", "ready"}
    /\ ftRec.kind = "local" => \/ ftRec.status \in {"pending_upload", "archived"}
                               \/ ftGivenUp /\ ftRec.status \in {"failed", "gone"}
    /\ ftRec.kind = "s3" => ftRec.status \in {"pending_upload", "s3_uploaded", "linked", "failed"}

Where ==
    /\ ftRec.kind = "local" =>
         /\ ftRec.status = "pending_upload" /\ ftSent /\ ~ftGivenUp => ftSentParts = FtParts
    /\ ftRec.kind \in {"server", "multipart", "s3"} /\ ftSent
         /\ ftRec.status \in {"pending_upload", "failed", "s3_uploaded", "linked"} => Staged
    /\ ftRec.status = "archiving" /\ ftSent => Staged \/ ftDisk = "whole"
    /\ ftRec.status \in {"archived", "warming_up", "ready"} =>
          \/ ftDisk = "whole"
          \/ ftDisk = "none" /\ ftRec.kind = "local" /\ ftGivenUp
    /\ ftRec.status = "gone" => ftGivenUp

Reclaiming ==
    /\ ftReclaim.at # "idle" => ftReclaim.was \in {"pending_upload", "ready"}
    /\ ftReclaim.at # "idle" /\ ftReclaim.was = "pending_upload" => ftGivenUp
    /\ ftReclaim.at # "idle" /\ ftReclaim.was = "ready" => ftRec.status = "ready"
    /\ ftReclaim.at # "idle" /\ ftReclaim.was = "ready" /\ ~ftReclaim.same => ftLate
    /\ ftReclaim.at # "idle" /\ ftReclaim.same => ftRec.status = ftReclaim.was
    /\ ftRec.status = "ready" =>
          \/ "warm" \in ftCos \/ ftLate
          \/ ftReclaim.at = "write" /\ ftReclaim.was = "ready" /\ ftReclaim.same /\ ftReclaim.ok

AllRequested == \A c \in FtClients : Requested(ftOp[c].op, ftOp[c].at)

FtInv == FtShape /\ OneAtATime /\ AllRequested /\ Jobbed /\ Statuses /\ Where /\ Reclaiming

\* At first there is no upload.
LEMMA FtInvInit == FtInit => FtInv
<1> SUFFICES ASSUME FtInit PROVE FtInv
  OBVIOUS
<1>1. FtShape
  BY DEF FtInit, FtShape, FtOps, FtFree, FtJobStates, FtResting, FtNoTask, FtRecords, FtStatuses, FtTasks
<1>2. ~Has("archive") /\ ~Has("warm")
  BY DEF FtInit, Has, FtResting
<1>3. OneAtATime
  BY <1>2 DEF FtInit, OneAtATime, FtFree, FtResting
<1>4. AllRequested
  BY DEF FtInit, AllRequested, Requested, FtFree
<1>5. Jobbed
  BY <1>2 DEF FtInit, Jobbed, FtResting
<1>6. Statuses
  BY <1>2 DEF FtInit, Statuses, FtFree, FtNoTask
<1>7. Where
  BY DEF FtInit, Where
<1>8. Reclaiming
  BY DEF FtInit, Reclaiming, FtNoTask
<1> QED BY <1>1, <1>3, <1>4, <1>5, <1>6, <1>7, <1>8 DEF FtInv


\* update_record patches status and updated_at.
LEMMA PatchFacts ==
    ASSUME FtShape, NEW st \in FtStatuses, FtPatch(st)
    PROVE  /\ ftRec' \in FtRecords /\ ftRec'.status = st /\ ftRec'.kind = ftRec.kind /\ ~ftRec'.aged
           /\ ftReclaim' \in FtTasks /\ ftReclaim'.at = ftReclaim.at
           /\ ftReclaim'.was = ftReclaim.was /\ ftReclaim'.ok = ftReclaim.ok
           /\ ftReclaim.at # "idle" => ~ftReclaim'.same
<1>1. ftRec \in FtRecords /\ ftReclaim \in FtTasks
  BY DEF FtShape
<1>2. PICK q : q = [ftRec EXCEPT !.status = st, !.aged = FALSE, !.abandoned = FALSE]
  OBVIOUS
<1>3. q \in FtRecords /\ q.status = st /\ q.kind = ftRec.kind /\ ~q.aged
  BY <1>1, <1>2 DEF FtRecords
<1>4. PICK b \in BOOLEAN : b = (ftReclaim.at = "idle")
  OBVIOUS
<1>5. PICK z : z = [ftReclaim EXCEPT !.same = b]
  OBVIOUS
<1>6. /\ z \in FtTasks /\ z.at = ftReclaim.at /\ z.was = ftReclaim.was /\ z.ok = ftReclaim.ok
      /\ z.same = b
  BY <1>1, <1>5 DEF FtTasks
<1>7. ftRec' = q /\ ftReclaim' = z
  BY <1>2, <1>4, <1>5 DEF FtPatch
<1> QED BY <1>3, <1>4, <1>6, <1>7

\* A request goes on or is answered.
LEMMA GotoFacts ==
    ASSUME FtShape, NEW c \in FtClients, NEW v \in FtOps, ftOp' = [ftOp EXCEPT ![c] = v]
    PROVE  /\ ftOp' \in [FtClients -> FtOps] /\ ftOp'[c] = v
           /\ \A d \in FtClients \ {c} : ftOp'[d] = ftOp[d]
BY DEF FtShape

\* What a request can be doing.
LEMMA OpFacts ==
    ASSUME FtShape, NEW c \in FtClients
    PROVE  /\ ftOp[c].op = "none" <=> ftOp[c] = FtFree
           /\ ftOp[c].op \in {"none", "complete", "merge", "assemble", "abort", "s3done", "link",
                              "archived", "ready", "discard"}
           /\ ftOp[c].at \in {"none", "patch", "act", "copy"}
           /\ ftOp[c].at = "copy" => ftOp[c].op = "assemble"
           /\ ftOp[c].at = "act" => ftOp[c].op \in {"merge", "assemble", "abort", "discard"}
           /\ ftOp[c].at # "none" <=> ftOp[c].op # "none"
BY DEF FtShape, FtOps, FtFree

\* What a job can be doing, and when there is none.
LEMMA JobFacts ==
    ASSUME FtShape
    PROVE  /\ \A w \in FtWorkers :
                /\ ftJob[w].job \in {"none", "archive", "warm"}
                /\ ftJob[w].job = "none" <=> ftJob[w] = FtResting
                /\ ftJob[w].job = "none" <=> ftJob[w].at = "none"
                /\ ftJob[w].job = "archive" =>
                     ftJob[w].at \in {"find", "mark", "open", "fetch", "drop", "archived", "fail"}
                /\ ftJob[w].job = "warm" => ftJob[w].at \in {"find", "push", "archived", "ready"}
           /\ ~Has("archive") /\ ~Has("warm") =>
                ftJobs = <<>> /\ \A w \in FtWorkers : ftJob[w].at = "none"
BY DEF FtShape, FtJobStates, FtResting, Has

\* A new record is pending and nothing works on it.
LEMMA BeginKeeps ==
    ASSUME FtInv, NEW k \in FtKinds, BeginUpload(k)
    PROVE  FtInv'
<1>0. ftRec \in FtRecords /\ ftRec.status = "none"
  BY DEF FtInv, FtShape, BeginUpload
<1>1. PICK q : q = [ftRec EXCEPT !.status = "pending_upload", !.kind = k]
  OBVIOUS
<1>2. q \in FtRecords /\ q.status = "pending_upload" /\ q.kind = k /\ q.aged = ftRec.aged
  BY <1>0, <1>1, FtConstants DEF FtRecords, FtStatuses
<1>3. /\ ftRec' = q /\ q.kind \in {"server", "multipart", "local", "s3"}
      /\ UNCHANGED <<ftDisk, ftSentParts, ftOp, ftJobs, ftJob, ftReclaim, ftSent, ftGivenUp, ftLate>>
  BY <1>1, <1>2, FtConstants DEF BeginUpload, ftThreads, ftHistory
<1>4. /\ \A c \in FtClients : ftOp[c] = FtFree
      /\ ~ftRec.aged /\ ftReclaim.at = "idle" /\ ~ftSent /\ ~Has("archive") /\ ~Has("warm")
  BY <1>0 DEF FtInv, Statuses
<1>5. FtShape'
  BY <1>2, <1>3 DEF FtInv, FtShape
<1>6. OneAtATime'
  BY <1>3 DEF FtInv, OneAtATime, Has
<1>7. AllRequested'
  BY <1>3, <1>4 DEF AllRequested, Requested, FtFree
<1>8. ~Has("archive")' /\ ~Has("warm")'
  BY <1>3, <1>4 DEF Has
<1>9. Jobbed'
  BY <1>3, <1>4, <1>5, <1>8, JobFacts DEF FtInv, Jobbed
<1>10. Statuses'
  BY <1>2, <1>3, <1>4, <1>8 DEF Statuses
<1>11. Where'
  BY <1>2, <1>3, <1>4 DEF Where
<1>12. Reclaiming'
  BY <1>2, <1>3, <1>4 DEF Reclaiming
<1> QED BY <1>5, <1>6, <1>7, <1>9, <1>10, <1>11, <1>12 DEF FtInv

\* What threads do stays, and with it what is said of threads alone.
LEMMA ThreadsStay ==
    ASSUME FtInv, UNCHANGED <<ftOp, ftJobs, ftJob>>
    PROVE  OneAtATime' /\ (Has("archive")' <=> Has("archive")) /\ (Has("warm")' <=> Has("warm"))
BY DEF FtInv, OneAtATime, Has

\* Bytes arrive.
LEMMA PutKeeps ==
    ASSUME FtInv, PutObject \/ PutPart
    PROVE  FtInv'
<1>1. /\ UNCHANGED <<ftRec, ftDisk, ftOp, ftJobs, ftJob, ftReclaim, ftGivenUp, ftLate>>
      /\ ftRec.status = "pending_upload"
      /\ ftSent' \in BOOLEAN /\ ftSentParts' \in Nat
      /\ ftCos' = ftCos \cup {"staging"} \/ ftCos' = ftCos
      /\ ftRec.kind \in {"server", "multipart", "s3"} /\ ftSent' => "staging" \in ftCos'
      /\ ftRec.kind = "local" /\ ftSent' /\ ~ftGivenUp => ftSentParts' = FtParts
  <2>1. ftSentParts \in Nat /\ ftRec \in FtRecords
    BY DEF FtInv, FtShape
  <2>2. CASE PutObject
    BY <2>1, <2>2 DEF PutObject, ftThreads, FtRecords
  <2>3. CASE PutPart
    BY <2>1, <2>3 DEF PutPart, ftThreads, FtRecords
  <2> QED BY <2>2, <2>3
<1>2. OneAtATime' /\ (Has("archive")' <=> Has("archive")) /\ (Has("warm")' <=> Has("warm"))
  BY <1>1, ThreadsStay
<1>3. Staged => Staged'
  BY <1>1 DEF Staged
<1>4. FtShape'
  BY <1>1 DEF FtInv, FtShape
<1>5. AllRequested'
  BY <1>1, <1>3 DEF FtInv, AllRequested, Requested
<1>6. Jobbed'
  BY <1>1, <1>2, <1>3 DEF FtInv, Jobbed
<1>7. Statuses'
  BY <1>1, <1>2 DEF FtInv, Statuses
<1>8. Where'
  BY <1>1, <1>3 DEF FtInv, Where, Staged
<1>9. Reclaiming'
  BY <1>1 DEF FtInv, Reclaiming
<1> QED BY <1>2, <1>4, <1>5, <1>6, <1>7, <1>8, <1>9 DEF FtInv

\* A record outlives its time.
LEMMA AgeKeeps ==
    ASSUME FtInv, AgeFile
    PROVE  FtInv'
<1>0. ftRec \in FtRecords
  BY DEF FtInv, FtShape
<1>1. PICK q : q = [ftRec EXCEPT !.aged = TRUE]
  OBVIOUS
<1>2. q \in FtRecords /\ q.status = ftRec.status /\ q.kind = ftRec.kind
  BY <1>0, <1>1 DEF FtRecords
<1>3. /\ ftRec' = q /\ ftRec.status \in {"pending_upload", "ready"}
      /\ UNCHANGED <<ftCos, ftDisk, ftSentParts, ftOp, ftJobs, ftJob, ftReclaim,
                     ftSent, ftGivenUp, ftLate>>
  BY <1>1 DEF AgeFile, ftThreads, ftHistory, ftStore
<1>4. OneAtATime' /\ (Has("archive")' <=> Has("archive")) /\ (Has("warm")' <=> Has("warm"))
  BY <1>3, ThreadsStay
<1>5. FtShape'
  BY <1>2, <1>3 DEF FtInv, FtShape
<1>6. AllRequested'
  BY <1>2, <1>3 DEF FtInv, AllRequested, Requested, Staged
<1>7. Jobbed'
  BY <1>2, <1>3, <1>4 DEF FtInv, Jobbed, Staged
<1>8. Statuses'
  BY <1>2, <1>3, <1>4 DEF FtInv, Statuses
<1>9. Where'
  BY <1>2, <1>3 DEF FtInv, Where, Staged
<1>10. Reclaiming'
  BY <1>2, <1>3 DEF FtInv, Reclaiming
<1> QED BY <1>4, <1>5, <1>6, <1>7, <1>8, <1>9, <1>10 DEF FtInv

-----------------------------------------------------------------------------
(* Requests                                                                *)

\* A request begins only alone, or as an abort beside a merge or an assembly.
LEMMA AskKeeps ==
    ASSUME FtInv, NEW c \in FtClients, Ask(c), ~ftCrossed'
    PROVE  FtInv'
<1>1. PICK o \in {"complete", "merge", "assemble", "abort", "s3done", "link", "download",
                  "discard"} :
        /\ Accepts(o) /\ Sends(o) /\ ~Crosses(o)
        /\ ftGivenUp' = (o \in {"abort", "discard"})
        /\ FtGoto(c, IF o = "download" THEN ftRec.status ELSE o,
                  IF o \in {"merge", "assemble", "abort", "discard"} THEN "act" ELSE "patch")
  BY DEF Ask
<1>2. /\ ftOp[c] = FtFree /\ ftRec.status \notin {"none", "gone"}
      /\ UNCHANGED <<ftRec, ftCos, ftDisk, ftSentParts, ftJobs, ftJob, ftReclaim, ftSent, ftLate>>
  BY DEF Ask, ftStore
<1>3. /\ ~ftGivenUp
      /\ o = "complete" => /\ ftRec.kind \in {"server", "multipart"} /\ ftSent
                           /\ ftRec.status \in {"pending_upload", "failed"}
      /\ o = "merge" => ftRec.kind = "multipart" /\ ftRec.status = "pending_upload"
      /\ o = "assemble" => ftRec.kind = "local" /\ ftRec.status = "pending_upload"
      /\ o = "abort" => \/ ftRec.kind = "local"
                        \/ ftRec.kind = "multipart" /\ ftRec.status = "pending_upload"
      /\ o = "s3done" => ftRec.kind = "s3" /\ ftRec.status = "pending_upload"
      /\ o = "link" => /\ ftRec.kind \in {"server", "s3"}
                       /\ ftRec.status \in {"pending_upload", "s3_uploaded", "linked"}
      /\ o = "download" => \/ ftRec.status = "archived" /\ ftRec.kind # "local"
                           \/ ftRec.status = "ready"
      /\ o = "discard" => ftRec.kind = "local" /\ ftRec.status = "archived"
  BY <1>1 DEF Accepts, Sends, Crosses
<1>16. \A d \in FtClients :
         \/ ftOp[d].op = "none"
         \/ o = "abort" /\ ftOp[d].op \in {"merge", "assemble"}
  <2>1. CASE o = "abort"
    BY <1>1, <2>1 DEF Crosses
  <2>2. CASE o # "abort"
    BY <1>1, <2>2 DEF Crosses
  <2> QED BY <2>1, <2>2
<1>4. PICK v \in FtOps : /\ ftOp' = [ftOp EXCEPT ![c] = v]
                         /\ v.op = IF o = "download" THEN ftRec.status ELSE o
                         /\ v.at = IF o \in {"merge", "assemble", "abort", "discard"} THEN "act" ELSE "patch"
                         /\ v.op # "none"
  <2>1. PICK v : v = [op |-> IF o = "download" THEN ftRec.status ELSE o,
                      at |-> IF o \in {"merge", "assemble", "abort", "discard"} THEN "act" ELSE "patch"]
    OBVIOUS
  <2>2. v \in FtOps /\ v.op # "none"
    BY <1>3, <2>1 DEF FtOps
  <2> QED BY <1>1, <2>1, <2>2 DEF FtGoto
<1>5. /\ ftOp' \in [FtClients -> FtOps] /\ ftOp'[c] = v
      /\ \A d \in FtClients \ {c} : ftOp'[d] = ftOp[d]
  BY <1>4, GotoFacts DEF FtInv
<1>6. ftRec.kind \in {"none", "server", "multipart", "local", "s3"} /\ ftRec.status \in FtStatuses
  BY DEF FtInv, FtShape, FtRecords
<1>7. /\ ~Has("archive") /\ ~Has("warm")
  BY <1>3, <1>6 DEF FtInv, Jobbed
<1>8. FtShape'
  BY <1>1, <1>2, <1>5 DEF FtInv, FtShape
<1>9. ~Has("archive")' /\ ~Has("warm")'
  BY <1>2, <1>7 DEF Has
<1>10. OneAtATime'
  <2>1. \A d \in FtClients :
          \/ ftOp[d].op = "none"
          \/ o = "abort" /\ ftOp[d].op \in {"merge", "assemble"}
    BY <1>16
  <2>2. ASSUME NEW d \in FtClients, NEW e \in FtClients, d # e, ftOp'[d].op # "none",
               ftOp'[e].op # "none"
        PROVE  (ftOp'[d].op = "abort") # (ftOp'[e].op = "abort")
    BY <1>4, <1>5, <2>1, <2>2 DEF FtInv, OneAtATime
  <2>3. (ftJobs' # <<>> => \A w \in FtWorkers : ftJob'[w] = FtResting)
        /\ \A w, x \in FtWorkers : ftJob'[w] # FtResting /\ ftJob'[x] # FtResting => w = x
    BY <1>2 DEF FtInv, OneAtATime
  <2> QED BY <1>9, <2>2, <2>3 DEF OneAtATime
<1>11. AllRequested'
  <2>1. ASSUME NEW d \in FtClients \ {c} PROVE Requested(ftOp[d].op, ftOp[d].at)'
    <3>1. Requested(ftOp[d].op, ftOp[d].at) /\ ftOp'[d] = ftOp[d]
      BY <1>5 DEF FtInv, AllRequested
    <3>2. \/ ftOp[d].op = "none"
          \/ o = "abort" /\ ftOp[d].op \in {"merge", "assemble"}
      BY <1>16
    <3> QED BY <1>1, <1>2, <3>1, <3>2 DEF Requested, Staged
  <2>2. Requested(ftOp[c].op, ftOp[c].at)'
    <3>1. o = "complete" => "staging" \in ftCos
      BY <1>3 DEF FtInv, Where, Staged
    <3> QED BY <1>1, <1>2, <1>3, <1>4, <1>5, <1>6, <3>1 DEF FtInv, Statuses, Requested, Staged
  <2> QED BY <2>1, <2>2 DEF AllRequested
<1>12. Jobbed'
  BY <1>2, <1>7, <1>8, <1>9, JobFacts DEF FtInv, Jobbed
<1>13. Statuses'
  BY <1>1, <1>2, <1>3, <1>9, <1>6 DEF FtInv, Statuses
<1>14. Where'
  BY <1>1, <1>2, <1>3 DEF FtInv, Where, Staged
<1>15. Reclaiming'
  BY <1>1, <1>2, <1>3 DEF FtInv, Reclaiming
<1> QED BY <1>8, <1>10, <1>11, <1>12, <1>13, <1>14, <1>15 DEF FtInv

\* A request goes on with what it does, or is answered; no job comes or goes.
LEMMA RequestGoesOn ==
    ASSUME FtInv, NEW c \in FtClients, NEW v \in FtOps, ftOp[c].op # "none",
           ftOp' = [ftOp EXCEPT ![c] = v], v.op \in {ftOp[c].op, "none"},
           UNCHANGED <<ftJobs, ftJob>>
    PROVE  /\ ftOp' \in [FtClients -> FtOps] /\ ftOp'[c] = v
           /\ \A d \in FtClients \ {c} : ftOp'[d] = ftOp[d]
           /\ \A d \in FtClients \ {c} : ftOp[c].op # "abort" => ftOp[d].op \in {"none", "abort"}
           /\ \A d \in FtClients \ {c} : ftOp[c].op = "abort" => ftOp[d].op # "abort"
           /\ OneAtATime'
           /\ (Has("archive")' <=> Has("archive")) /\ (Has("warm")' <=> Has("warm"))
<1>1. /\ ftOp' \in [FtClients -> FtOps] /\ ftOp'[c] = v
      /\ \A d \in FtClients \ {c} : ftOp'[d] = ftOp[d]
  BY GotoFacts DEF FtInv
<1>2. (Has("archive")' <=> Has("archive")) /\ (Has("warm")' <=> Has("warm"))
  BY DEF Has
<1>3. ASSUME NEW d \in FtClients, NEW e \in FtClients, d # e, ftOp'[d].op # "none",
             ftOp'[e].op # "none"
      PROVE  (ftOp'[d].op = "abort") # (ftOp'[e].op = "abort")
  <2>1. /\ ftOp[d].op # "none" /\ ftOp[e].op # "none"
        /\ ftOp'[d].op = ftOp[d].op /\ ftOp'[e].op = ftOp[e].op
    BY <1>1, <1>3
  <2> QED BY <1>3, <2>1 DEF FtInv, OneAtATime
<1>4. Has("archive") \/ Has("warm") => \A d \in FtClients : ftOp'[d].op \in {"none", "abort"}
  BY <1>1 DEF FtInv, OneAtATime
<1>5. OneAtATime'
  BY <1>2, <1>3, <1>4 DEF FtInv, OneAtATime
<1>6. \A d \in FtClients \ {c} : ftOp[d].op # "none" =>
        (ftOp[c].op = "abort") # (ftOp[d].op = "abort")
  BY DEF FtInv, OneAtATime
<1> QED BY <1>1, <1>2, <1>5, <1>6

\* A step of a request between its first and its last.
LEMMA ActKeeps ==
    ASSUME FtInv, NEW c \in FtClients,
           MergeParts(c) \/ AssembleParts(c) \/ DropUpload(c) \/ DiscardFile(c)
    PROVE  FtInv'
<1>1. PICK v \in FtOps :
        /\ ftOp' = [ftOp EXCEPT ![c] = v] /\ v.op \in {ftOp[c].op, "none"}
        /\ ftOp[c].op \in {"merge", "assemble", "abort", "discard"}
        /\ v.op = "none" \/ v.at \in {"patch", "copy"}
        /\ v.op = "merge" => "staging" \in ftCos'
        /\ v.op = "assemble" /\ v.at = "patch" => ftDisk' = "whole"
  <2>1. CASE MergeParts(c)
    <3>1. PICK m : m = [op |-> "merge", at |-> "patch"]
      OBVIOUS
    <3>2. m \in FtOps /\ m.op = "merge" /\ m.at = "patch" /\ FtFree \in FtOps /\ FtFree.op = "none"
      BY <3>1 DEF FtOps, FtFree
    <3>3. ftOp[c].op = "merge"
      BY <2>1 DEF MergeParts
    <3>4. \/ "staging" \in ftCos' /\ ftOp' = [ftOp EXCEPT ![c] = m]
          \/ ftOp' = [ftOp EXCEPT ![c] = FtFree]
      BY <2>1, <3>1 DEF MergeParts, FtGoto, FtAnswer
    <3>5. CASE "staging" \in ftCos' /\ ftOp' = [ftOp EXCEPT ![c] = m]
      BY <3>2, <3>3, <3>5
    <3>6. CASE ftOp' = [ftOp EXCEPT ![c] = FtFree]
      BY <3>2, <3>3, <3>6
    <3> QED BY <3>4, <3>5, <3>6
  <2>2. CASE AssembleParts(c)
    <3>1. PICK m : m = [op |-> "assemble", at |-> "copy"]
      OBVIOUS
    <3>2. PICK n : n = [op |-> "assemble", at |-> "patch"]
      OBVIOUS
    <3>3. /\ m \in FtOps /\ m.op = "assemble" /\ m.at = "copy"
          /\ n \in FtOps /\ n.op = "assemble" /\ n.at = "patch"
          /\ FtFree \in FtOps /\ FtFree.op = "none"
      BY <3>1, <3>2 DEF FtOps, FtFree
    <3>4. ftOp[c].op = "assemble"
      BY <2>2 DEF AssembleParts
    <3>5. \/ ftOp' = [ftOp EXCEPT ![c] = m]
          \/ ftDisk' = "whole" /\ ftOp' = [ftOp EXCEPT ![c] = n]
          \/ ftOp' = [ftOp EXCEPT ![c] = FtFree]
      BY <2>2, <3>1, <3>2 DEF AssembleParts, FtGoto, FtAnswer
    <3>6. CASE ftOp' = [ftOp EXCEPT ![c] = m]
      BY <3>3, <3>4, <3>6
    <3>7. CASE ftDisk' = "whole" /\ ftOp' = [ftOp EXCEPT ![c] = n]
      BY <3>3, <3>4, <3>7
    <3>8. CASE ftOp' = [ftOp EXCEPT ![c] = FtFree]
      BY <3>3, <3>4, <3>8
    <3> QED BY <3>5, <3>6, <3>7, <3>8
  <2>3. CASE DropUpload(c) \/ DiscardFile(c)
    <3>1. PICK o \in {"abort", "discard"} : /\ ftOp' = [ftOp EXCEPT ![c] = [op |-> o, at |-> "patch"]]
                                            /\ ftOp[c].op = o
      BY <2>3 DEF DropUpload, DiscardFile, FtGoto
    <3>2. PICK v : v = [op |-> o, at |-> "patch"]
      OBVIOUS
    <3>3. v \in FtOps /\ v.op = o /\ v.at = "patch"
      BY <3>2 DEF FtOps
    <3> QED BY <3>1, <3>2, <3>3
  <2> QED BY <2>1, <2>2, <2>3
<1>2. /\ UNCHANGED <<ftRec, ftJobs, ftJob, ftReclaim, ftGivenUp, ftLate>>
      /\ ftSent' \in BOOLEAN /\ ftSentParts' \in Nat /\ ftDisk' \in {"none", "part", "whole"}
      /\ "staging" \in ftCos => "staging" \in ftCos'
      /\ "warm" \in ftCos => "warm" \in ftCos'
      /\ ftOp[c].op \in {"merge", "abort"} => ftDisk' = ftDisk
      /\ ftOp[c].op = "merge" => ftSentParts' = ftSentParts /\ (ftSent' = ftSent \/ "staging" \in ftCos')
      /\ ftOp[c].op = "assemble" => ftSentParts' = ftSentParts /\ ftSent' = ftSent
      /\ ftOp[c].op \in {"abort", "discard"} => ftSent' = ftSent
      /\ ftOp[c].op = "discard" => ftDisk' = "none"
  <2>1. ftSent \in BOOLEAN /\ ftSentParts \in Nat /\ ftDisk \in {"none", "part", "whole"}
    BY DEF FtInv, FtShape
  <2>2. CASE MergeParts(c)
    <3>1. /\ UNCHANGED <<ftRec, ftDisk, ftSentParts, ftJobs, ftJob, ftReclaim, ftGivenUp, ftLate>>
          /\ ftOp[c].op = "merge"
      BY <2>2 DEF MergeParts
    <3>2. \/ ftCos' = (ftCos \ {"session"}) \cup {"staging"} /\ ftSent' = TRUE
          \/ ftCos' = ftCos /\ ftSent' = ftSent
      BY <2>2 DEF MergeParts
    <3>3. /\ "staging" \in ftCos => "staging" \in ftCos'
          /\ "warm" \in ftCos => "warm" \in ftCos'
          /\ ftSent' \in BOOLEAN
          /\ ftSent' = ftSent \/ "staging" \in ftCos'
      BY <2>1, <3>2
    <3> QED BY <2>1, <3>1, <3>3
  <2>3. CASE AssembleParts(c)
    BY <2>1, <2>3 DEF AssembleParts, ftHistory
  <2>4. CASE DropUpload(c)
    BY <2>1, <2>4 DEF DropUpload, ftHistory
  <2>5. CASE DiscardFile(c)
    BY <2>1, <2>5 DEF DiscardFile, ftHistory
  <2> QED BY <2>2, <2>3, <2>4, <2>5
<1>3. /\ ftOp' \in [FtClients -> FtOps] /\ ftOp'[c] = v
      /\ \A d \in FtClients \ {c} : ftOp'[d] = ftOp[d]
      /\ \A d \in FtClients \ {c} : ftOp[c].op # "abort" => ftOp[d].op \in {"none", "abort"}
      /\ OneAtATime'
      /\ (Has("archive")' <=> Has("archive")) /\ (Has("warm")' <=> Has("warm"))
  BY <1>1, <1>2, RequestGoesOn
<1>4. /\ Requested(ftOp[c].op, ftOp[c].at)
      /\ Has("archive") \/ Has("warm") => ftOp[c].op \in {"none", "abort"}
  BY DEF FtInv, AllRequested, OneAtATime
<1>5. Staged => Staged'
  BY <1>2 DEF Staged
<1>6. FtShape'
  BY <1>2, <1>3 DEF FtInv, FtShape
<1>7. AllRequested'
  <2>1. ASSUME NEW d \in FtClients \ {c} PROVE Requested(ftOp[d].op, ftOp[d].at)'
    <3>1. Requested(ftOp[d].op, ftOp[d].at) /\ ftOp'[d] = ftOp[d]
      BY <1>3 DEF FtInv, AllRequested
    <3>2. CASE ftOp[c].op = "abort"
      BY <1>2, <1>5, <3>1, <3>2 DEF Requested
    <3>3. CASE ftOp[d].op \in {"none", "abort"}
      BY <1>2, <3>1, <3>3 DEF Requested
    <3> QED BY <1>3, <3>2, <3>3
  <2>2. Requested(v.op, v.at)'
    BY <1>1, <1>2, <1>4 DEF Requested, Staged
  <2> QED BY <1>3, <2>1, <2>2 DEF AllRequested
<1>8. Jobbed'
  <2>1. CASE Has("archive") \/ Has("warm")
    <3>1. ftDisk' = ftDisk
      BY <1>1, <1>2, <1>4, <2>1
    <3> QED BY <1>2, <1>3, <1>5, <3>1 DEF FtInv, Jobbed
  <2>2. CASE ~(Has("archive") \/ Has("warm"))
    BY <1>2, <1>3, <1>6, <2>2, JobFacts DEF FtInv, Jobbed
  <2> QED BY <2>1, <2>2
<1>9. Statuses'
  <2>1. ftRec.status # "none"
    BY <1>1 DEF FtInv, Statuses, FtFree
  <2> QED BY <1>2, <1>3, <2>1 DEF FtInv, Statuses
<1>10. Where'
  <2>1. ftRec.status \in {"archived", "warming_up", "ready"} /\ ftDisk' # ftDisk =>
          ftDisk' = "none" /\ ftRec.kind = "local" /\ ftGivenUp
    BY <1>1, <1>2, <1>4 DEF Requested
  <2>2. ftRec.kind = "local" /\ ~ftGivenUp => ftSentParts' = ftSentParts /\ ftSent' = ftSent
    BY <1>1, <1>2, <1>4 DEF Requested
  <2>3. /\ ftRec.kind # "local" /\ ftSent' /\ ~ftSent => "staging" \in ftCos'
        /\ ftRec.status = "archiving" /\ ftSent' => ftSent /\ ftDisk' = ftDisk
    BY <1>1, <1>2, <1>4 DEF Requested, FtInv, Statuses
  <2> QED BY <1>2, <1>5, <2>1, <2>2, <2>3 DEF FtInv, Where, Staged
<1>11. Reclaiming'
  BY <1>2 DEF FtInv, Reclaiming
<1> QED BY <1>3, <1>6, <1>7, <1>8, <1>9, <1>10, <1>11 DEF FtInv

\* A request that is not an abort is alone: there is no job, and whoever else is
\* there is an abort.
LEMMA AloneWithTheRecord ==
    ASSUME FtInv, NEW c \in FtClients, ftOp[c].op \notin {"none", "abort"}
    PROVE  /\ ~Has("archive") /\ ~Has("warm") /\ ftJobs = <<>>
           /\ \A w \in FtWorkers : ftJob[w] = FtResting
           /\ \A d \in FtClients \ {c} : ftOp[d].op \in {"none", "abort"}
<1>1. ~Has("archive") /\ ~Has("warm")
  BY DEF FtInv, OneAtATime
<1>2. ftJobs = <<>> /\ \A w \in FtWorkers : ftJob[w] = FtResting
  BY <1>1, JobFacts DEF FtInv
<1>3. \A d \in FtClients \ {c} : ftOp[d].op \in {"none", "abort"}
  BY DEF FtInv, OneAtATime
<1> QED BY <1>1, <1>2, <1>3

\* The last step of a request, whatever it patches.
LEMMA LastStep ==
    ASSUME FtInv, NEW c \in FtClients, PatchRecord(c)
    PROVE  /\ ftOp[c].op # "none" /\ ftOp[c].at = "patch" /\ Requested(ftOp[c].op, "patch")
           /\ ftOp[c].op \in {"complete", "merge", "assemble", "abort", "s3done", "link",
                              "archived", "ready", "discard"}
           /\ UNCHANGED <<ftCos, ftDisk, ftJob, ftSent, ftGivenUp>>
           /\ ftSentParts' = IF ftOp[c].op = "assemble" THEN 0 ELSE ftSentParts
           /\ ftSentParts' \in Nat
           /\ ftLate' \in BOOLEAN /\ (ftLate => ftLate')
           /\ ftOp[c].op # "ready" => ftLate' = ftLate
           /\ ftOp[c].op = "ready" /\ ftReclaim.at # "idle" => ftLate'
           /\ ftOp' \in [FtClients -> FtOps] /\ ftOp'[c] = FtFree /\ FtFree.op = "none"
           /\ \A d \in FtClients \ {c} : ftOp'[d] = ftOp[d]
<1>1. ftOp[c].at = "patch" /\ ftOp[c].op # "none" /\ Requested(ftOp[c].op, "patch")
  BY OpFacts DEF FtInv, PatchRecord, AllRequested
<1>2. FtFree \in FtOps /\ FtFree.op = "none"
  BY DEF FtOps, FtFree
<1>3. ftOp' = [ftOp EXCEPT ![c] = FtFree]
  BY DEF PatchRecord, FtAnswer
<1>4. /\ ftOp' \in [FtClients -> FtOps] /\ ftOp'[c] = FtFree
      /\ \A d \in FtClients \ {c} : ftOp'[d] = ftOp[d]
  BY <1>2, <1>3, GotoFacts DEF FtInv
<1>5. /\ UNCHANGED <<ftCos, ftDisk, ftJob, ftSent, ftGivenUp>>
      /\ ftSentParts' = IF ftOp[c].op = "assemble" THEN 0 ELSE ftSentParts
      /\ ftLate' = (ftLate \/ (ftOp[c].op = "ready" /\ ftReclaim.at # "idle"))
  BY DEF PatchRecord
<1>6. ftSentParts \in Nat /\ ftLate \in BOOLEAN
  BY DEF FtInv, FtShape
<1>7. ftOp[c].op \in {"complete", "merge", "assemble", "abort", "s3done", "link",
                      "archived", "ready", "discard"}
  BY <1>1, OpFacts DEF FtInv
<1> QED BY <1>1, <1>2, <1>4, <1>5, <1>6, <1>7

\* One job is put into the empty queue.
LEMMA EnqueuedFacts ==
    ASSUME FtInv, NEW c \in FtClients, PatchRecord(c),
           ftOp[c].op \in {"complete", "merge", "archived"}
    PROVE  /\ ftOp[c].op = "archived" => ftJobs' = <<"warm">> /\ FtPatch("warming_up")
           /\ ftOp[c].op # "archived" => ftJobs' = <<"archive">> /\ FtPatch("archiving")
<1>1. ftJobs = <<>>
  BY AloneWithTheRecord
<1>2. CASE ftOp[c].op = "archived"
  BY <1>1, <1>2 DEF PatchRecord, Enqueue
<1>3. CASE ftOp[c].op = "complete"
  BY <1>1, <1>3 DEF PatchRecord, Enqueue
<1>4. CASE ftOp[c].op = "merge"
  BY <1>1, <1>4 DEF PatchRecord, Enqueue
<1> QED BY <1>2, <1>3, <1>4

\* complete, multipart/complete and download hand the record to a job.
LEMMA HandOverKeeps ==
    ASSUME FtInv, NEW c \in FtClients, PatchRecord(c),
           ftOp[c].op \in {"complete", "merge", "archived"}
    PROVE  FtInv'
<1>1. PICK j \in {"archive", "warm"} : j = IF ftOp[c].op = "archived" THEN "warm" ELSE "archive"
  OBVIOUS
<1>2. PICK st \in FtStatuses : st = IF ftOp[c].op = "archived" THEN "warming_up" ELSE "archiving"
  BY DEF FtStatuses
<1>3. ftJobs' = <<j>> /\ FtPatch(st)
  BY <1>1, <1>2, EnqueuedFacts
<1>4. /\ ftRec' \in FtRecords /\ ftRec'.status = st /\ ftRec'.kind = ftRec.kind /\ ~ftRec'.aged
      /\ ftReclaim' \in FtTasks /\ ftReclaim'.at = ftReclaim.at /\ ftReclaim'.was = ftReclaim.was
      /\ ftReclaim.at # "idle" => ~ftReclaim'.same
  BY <1>3, PatchFacts DEF FtInv
<1>5. /\ ftJob' = ftJob /\ \A w \in FtWorkers : ftJob[w] = FtResting
      /\ \A d \in FtClients : ftOp'[d].op \in {"none", "abort"}
      /\ \A d \in FtClients : ftOp'[d] = ftOp[d] \/ ftOp'[d].op = "none"
      /\ \A d, e \in FtClients : d # e => ~(ftOp'[d].op = "abort" /\ ftOp'[e].op = "abort")
  <2>1. \A d, e \in FtClients : d # e => ~(ftOp[d].op = "abort" /\ ftOp[e].op = "abort")
    BY DEF FtInv, OneAtATime
  <2> QED BY <2>1, LastStep, AloneWithTheRecord
<1>6. /\ Requested(ftOp[c].op, "patch")
      /\ UNCHANGED <<ftCos, ftDisk, ftSentParts, ftSent, ftGivenUp, ftLate>>
  BY LastStep
<1>7. FtShape'
  BY <1>3, <1>4, <1>5, <1>6, LastStep DEF FtInv, FtShape
<1>8. /\ j = "archive" => ~Has("warm")'
      /\ j = "warm" => ~Has("archive")'
  BY <1>1, <1>3, <1>5 DEF Has, FtResting
<1>9. OneAtATime'
  BY <1>3, <1>5 DEF OneAtATime
<1>10. AllRequested'
  BY <1>4, <1>5, <1>6 DEF FtInv, AllRequested, Requested
<1>11. /\ ftRec.kind \in {"server", "multipart"}
       /\ j = "archive" => st = "archiving" /\ Staged /\ ftRec.status \in {"pending_upload", "failed"}
       /\ j = "warm" => st = "warming_up" /\ ftDisk = "whole" /\ ~ftGivenUp /\ ftRec.status = "archived"
  <2>1. ftRec.kind \in {"server", "multipart"}
    BY <1>6 DEF Requested
  <2>2. j = "archive" => st = "archiving" /\ Staged /\ ftRec.status \in {"pending_upload", "failed"}
    BY <1>1, <1>2, <1>6 DEF Requested
  <2>3. j = "warm" => st = "warming_up" /\ ftDisk = "whole" /\ ~ftGivenUp /\ ftRec.status = "archived"
    BY <1>1, <1>2, <1>6, <2>1 DEF Requested, FtInv, Where
  <2> QED BY <2>1, <2>2, <2>3
<1>12. Jobbed'
  BY <1>1, <1>3, <1>4, <1>5, <1>6, <1>8, <1>11 DEF Jobbed, Staged, FtResting
<1>13. Statuses'
  BY <1>1, <1>4, <1>6, <1>11 DEF Statuses
<1>14. Where'
  BY <1>1, <1>4, <1>6, <1>11 DEF Where, Staged
<1>15. Reclaiming'
  BY <1>1, <1>4, <1>6, <1>11 DEF FtInv, Reclaiming
<1> QED BY <1>7, <1>9, <1>10, <1>12, <1>13, <1>14, <1>15 DEF FtInv

\* What the other requests patch.
LEMMA PatchedTo ==
    ASSUME FtInv, NEW c \in FtClients, PatchRecord(c),
           ftOp[c].op \notin {"complete", "merge", "archived"}
    PROVE  /\ ftJobs' = ftJobs
           /\ \E st \in FtStatuses :
                /\ FtPatch(st)
                /\ ftOp[c].op = "ready" => st = ftRec.status
                /\ ftOp[c].op = "assemble" => st = "archived"
                /\ ftOp[c].op = "abort" => st = "failed"
                /\ ftOp[c].op = "s3done" => st = "s3_uploaded"
                /\ ftOp[c].op = "link" => st = "linked"
                /\ ftOp[c].op = "discard" => st = "gone"
<1>1. ftRec.status \in FtStatuses
  BY DEF FtInv, FtShape, FtRecords
<1>2. ftOp[c].op \in {"assemble", "abort", "s3done", "link", "ready", "discard"}
  BY LastStep
<1>3. CASE ftOp[c].op = "ready"
  BY <1>1, <1>3 DEF PatchRecord
<1>4. CASE ftOp[c].op = "assemble"
  BY <1>4 DEF PatchRecord, FtStatuses
<1>5. CASE ftOp[c].op = "abort"
  BY <1>5 DEF PatchRecord, FtStatuses
<1>6. CASE ftOp[c].op = "s3done"
  BY <1>6 DEF PatchRecord, FtStatuses
<1>7. CASE ftOp[c].op = "link"
  BY <1>7 DEF PatchRecord, FtStatuses
<1>8. CASE ftOp[c].op = "discard"
  BY <1>8 DEF PatchRecord, FtStatuses
<1> QED BY <1>2, <1>3, <1>4, <1>5, <1>6, <1>7, <1>8

\* The others are answered when they have patched.
LEMMA SettleKeeps ==
    ASSUME FtInv, NEW c \in FtClients, PatchRecord(c),
           ftOp[c].op \notin {"complete", "merge", "archived"}
    PROVE  FtInv'
<1>1. PICK st \in FtStatuses :
        /\ FtPatch(st)
        /\ ftOp[c].op = "ready" => st = ftRec.status
        /\ ftOp[c].op = "assemble" => st = "archived"
        /\ ftOp[c].op = "abort" => st = "failed"
        /\ ftOp[c].op = "s3done" => st = "s3_uploaded"
        /\ ftOp[c].op = "link" => st = "linked"
        /\ ftOp[c].op = "discard" => st = "gone"
  BY PatchedTo
<1>2. /\ ftRec' \in FtRecords /\ ftRec'.status = st /\ ftRec'.kind = ftRec.kind /\ ~ftRec'.aged
      /\ ftReclaim' \in FtTasks /\ ftReclaim'.at = ftReclaim.at /\ ftReclaim'.was = ftReclaim.was
      /\ ftReclaim'.ok = ftReclaim.ok
      /\ ftReclaim.at # "idle" => ~ftReclaim'.same
  BY <1>1, PatchFacts DEF FtInv
<1>3. /\ ftJobs' = ftJobs /\ ftJob' = ftJob
      /\ UNCHANGED <<ftCos, ftDisk, ftSent, ftGivenUp>>
      /\ ftOp[c].op \in {"assemble", "abort", "s3done", "link", "ready", "discard"}
      /\ Requested(ftOp[c].op, "patch")
  BY PatchedTo, LastStep
<1>4. FtShape'
  BY <1>2, <1>3, LastStep DEF FtInv, FtShape
<1>5. /\ OneAtATime' /\ (Has("archive")' <=> Has("archive")) /\ (Has("warm")' <=> Has("warm"))
      /\ \A d \in FtClients \ {c} : ftOp'[d] = ftOp[d]
      /\ ftOp'[c].op = "none"
      /\ ftOp[c].op # "abort" => \A d \in FtClients \ {c} : ftOp[d].op \in {"none", "abort"}
  <2>1. FtFree \in FtOps /\ FtFree.op = "none"
    BY DEF FtOps, FtFree
  <2>2. ftOp' = [ftOp EXCEPT ![c] = FtFree]
    BY DEF PatchRecord, FtAnswer
  <2> QED BY <1>3, <2>1, <2>2, RequestGoesOn
<1>6. ftOp[c].op # "abort" => ~Has("archive") /\ ~Has("warm")
  BY <1>3, AloneWithTheRecord
<1>7. AllRequested'
  <2>1. ASSUME NEW d \in FtClients \ {c} PROVE Requested(ftOp[d].op, ftOp[d].at)'
    <3>1. Requested(ftOp[d].op, ftOp[d].at) /\ ftOp'[d] = ftOp[d]
      BY <1>5 DEF FtInv, AllRequested
    <3>2. CASE ftOp[c].op = "abort"
      BY <1>1, <1>2, <1>3, <3>1, <3>2 DEF Requested, Staged
    <3>3. CASE ftOp[d].op \in {"none", "abort"}
      BY <1>2, <1>3, <3>1, <3>3 DEF Requested
    <3> QED BY <1>5, <3>2, <3>3
  <2>2. Requested(ftOp[c].op, ftOp[c].at)'
    BY <1>5 DEF Requested
  <2> QED BY <2>1, <2>2 DEF AllRequested
<1>8. Jobbed'
  <2>1. CASE ftOp[c].op = "abort"
    BY <1>1, <1>2, <1>3, <1>5, <2>1 DEF FtInv, Jobbed, Requested, Statuses, Staged
  <2>2. CASE ftOp[c].op # "abort"
    <3>1. \A w \in FtWorkers : ftJob'[w] = FtResting
      BY <1>3, <2>2, AloneWithTheRecord
    <3>2. ftJobs' = <<>>
      BY <1>3, <2>2, AloneWithTheRecord
    <3> QED BY <1>5, <1>6, <2>2, <3>1, <3>2 DEF Jobbed, FtResting
  <2> QED BY <2>1, <2>2
<1>9. st # "none" /\ ftRec.status # "none" /\ ftRec.kind # "none"
  <2>1. ftRec.status # "none"
    BY <1>3 DEF FtInv, Statuses, FtFree
  <2> QED BY <1>1, <1>3, <2>1 DEF FtInv, Statuses
<1>10. Statuses'
  BY <1>1, <1>2, <1>3, <1>9 DEF FtInv, Statuses, Requested
<1>11. Where'
  <2>1. ftOp[c].op = "ready" => ftSentParts' = ftSentParts
    BY LastStep
  <2> QED BY <1>1, <1>2, <1>3, <2>1 DEF FtInv, Where, Requested, Staged
<1>12. Reclaiming'
  <2>1. /\ ftOp[c].op # "ready" => ftLate' = ftLate
        /\ ftOp[c].op = "ready" /\ ftReclaim.at # "idle" => ftLate'
        /\ ftLate => ftLate'
    BY LastStep
  <2>2. CASE ftOp[c].op = "ready"
    BY <1>1, <1>2, <1>3, <2>1, <2>2 DEF FtInv, Reclaiming, Requested
  <2>3. CASE ftOp[c].op # "ready"
    <3>1. st # "ready" /\ (ftRec.status = "ready" => ftOp[c].op = "abort" \/ ftOp[c].op = "discard")
      BY <1>1, <1>3, <2>3 DEF Requested
    <3>2. ftOp[c].op \in {"abort", "discard"} => ftRec.status # "ready"
      BY <1>3 DEF FtInv, Requested, Statuses
    <3> QED BY <1>2, <1>3, <2>1, <3>1, <3>2 DEF FtInv, Reclaiming
  <2> QED BY <2>2, <2>3
<1> QED BY <1>4, <1>5, <1>7, <1>8, <1>10, <1>11, <1>12 DEF FtInv

-----------------------------------------------------------------------------
(* Jobs                                                                    *)

\* A worker takes the one job there is.
LEMMA TakeKeeps ==
    ASSUME FtInv, NEW w \in FtWorkers, TakeFileJob(w)
    PROVE  FtInv'
<1>1. PICK j \in {"archive", "warm"} : ftJobs = <<j>>
  BY DEF FtInv, FtShape, TakeFileJob
<1>2. Head(ftJobs) = j /\ Tail(ftJobs) = <<>>
  BY <1>1
<1>3. PICK v : v = [job |-> j, at |-> "find"]
  OBVIOUS
<1>4. v \in FtJobStates /\ v.job = j /\ v.at = "find" /\ v # FtResting
  BY <1>1, <1>3 DEF FtJobStates, FtResting
<1>5. /\ ftJobs' = <<>> /\ ftJob' = [ftJob EXCEPT ![w] = v]
      /\ UNCHANGED <<ftRec, ftCos, ftDisk, ftSentParts, ftOp, ftReclaim, ftSent, ftGivenUp, ftLate>>
  BY <1>2, <1>3 DEF TakeFileJob, ftStore, ftHistory
<1>6. /\ \A x \in FtWorkers : ftJob[x] = FtResting
      /\ FtResting.job = "none" /\ FtResting.at = "none"
  BY <1>1 DEF FtInv, OneAtATime, FtResting
<1>7. /\ ftJob' \in [FtWorkers -> FtJobStates] /\ ftJob'[w] = v
      /\ \A x \in FtWorkers \ {w} : ftJob'[x] = FtResting
  BY <1>4, <1>5, <1>6 DEF FtInv, FtShape
<1>8. /\ Has("archive")' <=> Has("archive")
      /\ Has("warm")' <=> Has("warm")
  BY <1>1, <1>4, <1>5, <1>6, <1>7 DEF Has
<1>9. FtShape'
  BY <1>5, <1>7 DEF FtInv, FtShape
<1>10. OneAtATime'
  BY <1>5, <1>7, <1>8 DEF FtInv, OneAtATime
<1>11. AllRequested'
  BY <1>5 DEF FtInv, AllRequested, Requested, Staged
<1>12. Jobbed'
  <2>1. j = "archive" => Staged
    BY <1>1 DEF FtInv, Jobbed
  <2> QED BY <1>4, <1>5, <1>6, <1>7, <1>8, <2>1 DEF FtInv, Jobbed, Staged
<1>13. Statuses'
  BY <1>5, <1>8 DEF FtInv, Statuses
<1>14. Where'
  BY <1>5 DEF FtInv, Where, Staged
<1>15. Reclaiming'
  BY <1>5 DEF FtInv, Reclaiming
<1> QED BY <1>9, <1>10, <1>11, <1>12, <1>13, <1>14, <1>15 DEF FtInv

\* What is known while a worker has a job.
LEMMA AtWork ==
    ASSUME FtInv, NEW w \in FtWorkers, ftJob[w].at # "none"
    PROVE  /\ ftJob[w].job \in {"archive", "warm"} /\ Has(ftJob[w].job)
           /\ ftJobs = <<>> /\ \A x \in FtWorkers \ {w} : ftJob[x] = FtResting
           /\ \A c \in FtClients : ftOp[c].op \in {"none", "abort"}
           /\ ftRec.kind \in {"server", "multipart"}
           /\ ftJob[w].job = "archive" =>
                ftRec.status = "archiving" \/ (ftRec.status = "failed" /\ ftGivenUp)
           /\ ftJob[w].job = "warm" => /\ ftRec.status = "warming_up" /\ ftDisk = "whole"
                                       /\ ~ftGivenUp
<1>1. ftJob[w].job \in {"archive", "warm"} /\ ftJob[w] # FtResting
  BY JobFacts DEF FtInv
<1>2. Has(ftJob[w].job)
  BY DEF Has
<1>3. Has("archive") \/ Has("warm")
  BY <1>1, <1>2
<1>4. ftJobs = <<>> /\ \A x \in FtWorkers \ {w} : ftJob[x] = FtResting
  BY <1>1 DEF FtInv, FtShape, OneAtATime
<1>5. \A c \in FtClients : ftOp[c].op \in {"none", "abort"}
  BY <1>3 DEF FtInv, OneAtATime
<1>6. /\ ftJob[w].job = "archive" =>
           /\ ftRec.kind \in {"server", "multipart"}
           /\ ftRec.status = "archiving" \/ (ftRec.status = "failed" /\ ftGivenUp)
      /\ ftJob[w].job = "warm" =>
           /\ ftRec.kind \in {"server", "multipart"}
           /\ ftRec.status = "warming_up" /\ ftDisk = "whole"
  BY <1>2 DEF FtInv, Jobbed
<1>7. ftGivenUp => ftRec.status # "warming_up"
  BY DEF FtInv, Statuses
<1> QED BY <1>1, <1>2, <1>4, <1>5, <1>6, <1>7

\* A job goes on, or ends.
LEMMA JobGoesOn ==
    ASSUME FtInv, NEW w \in FtWorkers, ftJob[w].at # "none", NEW v \in FtJobStates,
           v.job \in {ftJob[w].job, "none"}, ftJob' = [ftJob EXCEPT ![w] = v],
           UNCHANGED <<ftOp, ftJobs>>
    PROVE  /\ ftJob' \in [FtWorkers -> FtJobStates] /\ ftJob'[w] = v
           /\ ftJobs' = <<>> /\ FtResting.job = "none" /\ FtResting.at = "none"
           /\ \A x \in FtWorkers \ {w} : ftJob'[x] = FtResting
           /\ OneAtATime'
           /\ Has("archive")' <=> v.job = "archive"
           /\ Has("warm")' <=> v.job = "warm"
<1>1. /\ ftJob' \in [FtWorkers -> FtJobStates] /\ ftJob'[w] = v
      /\ \A x \in FtWorkers \ {w} : ftJob'[x] = ftJob[x]
  BY DEF FtInv, FtShape
<1>2. ftJobs' = <<>> /\ \A x \in FtWorkers \ {w} : ftJob'[x] = FtResting
  BY <1>1, AtWork
<1>3. FtResting.job = "none" /\ FtResting.at = "none"
  BY DEF FtResting
<1>4. /\ Has("archive")' <=> v.job = "archive"
      /\ Has("warm")' <=> v.job = "warm"
  BY <1>1, <1>2, <1>3 DEF Has
<1>5. \A c \in FtClients : ftOp'[c].op \in {"none", "abort"}
  BY AtWork
<1>6. OneAtATime'
  BY <1>1, <1>2, <1>5 DEF FtInv, OneAtATime
<1> QED BY <1>1, <1>2, <1>3, <1>4, <1>6

\* A step of a job goes to another state of the same job.
LEMMA GotoOfJob ==
    ASSUME FtInv, NEW w \in FtWorkers, ftJob[w].at # "none", NEW l, JobGoto(w, l),
           [job |-> ftJob[w].job, at |-> l] \in FtJobStates
    PROVE  \E v \in FtJobStates : /\ v.job = ftJob[w].job /\ v.at = l
                                  /\ ftJob' = [ftJob EXCEPT ![w] = v]
<1>1. PICK v : v = [job |-> ftJob[w].job, at |-> l]
  OBVIOUS
<1>2. ftJob[w] \in FtJobStates
  BY DEF FtInv, FtShape
<1>3. v = [ftJob[w] EXCEPT !.at = l]
  BY <1>1, <1>2 DEF FtJobStates, FtResting
<1>4. ftJob' = [ftJob EXCEPT ![w] = v]
  BY <1>3 DEF JobGoto
<1> QED BY <1>1, <1>4

\* The steps of a job between its marks on the record: what it has done to the
\* file and to COS is enough for where it goes.
LEMMA JobMoves ==
    ASSUME FtInv, NEW w \in FtWorkers,
           FindFile(w) \/ OpenLocal(w) \/ FetchStaging(w) \/ DropStaging(w) \/ PushWarm(w)
    PROVE  /\ ftJob[w].at # "none"
           /\ \E v \in FtJobStates :
                /\ v.job \in {ftJob[w].job, "none"} /\ ftJob' = [ftJob EXCEPT ![w] = v]
                /\ v.job = "archive" /\ v.at \in {"find", "mark", "open", "fetch", "fail"} => Staged'
                /\ v.at \in {"drop", "archived"} => ftDisk' = "whole"
                /\ v.at = "ready" => "warm" \in ftCos'
<1>0. ftJob[w].at # "none"
  BY DEF FindFile, OpenLocal, FetchStaging, DropStaging, PushWarm
<1>1. /\ FtResting \in FtJobStates /\ FtResting.job = "none" /\ FtResting.at = "none"
      /\ ftJob[w].at \in {"mark", "open", "fetch", "drop"} => ftJob[w].job = "archive"
      /\ ftJob[w].at = "push" => ftJob[w].job = "warm"
  BY JobFacts DEF FtInv, FtJobStates, FtResting
<1>2. /\ ftJob[w].job = "archive" /\ ftJob[w].at \in {"find", "mark", "open", "fetch", "fail"} => Staged
      /\ ftJob[w].at \in {"drop", "archived"} => ftDisk = "whole"
      /\ ftJob[w].job = "warm" => ftDisk = "whole"
  BY AtWork, <1>0 DEF FtInv, Jobbed
<1>3. CASE FindFile(w)
  <2>1. ftJob[w].job \in {"archive", "warm"}
    BY <1>0, AtWork
  <2>2. PICK l \in {"mark", "push"} : l = IF ftJob[w].job = "archive" THEN "mark" ELSE "push"
    OBVIOUS
  <2>3. UNCHANGED <<ftCos, ftGivenUp>>
    BY <1>3 DEF FindFile, ftStore, ftHistory
  <2>4. CASE JobEnds(w)
    BY <1>0, <1>1, <2>4 DEF JobEnds
  <2>5. CASE JobGoto(w, l)
    <3>1. [job |-> ftJob[w].job, at |-> l] \in FtJobStates
      BY <2>1, <2>2 DEF FtJobStates
    <3>2. PICK v \in FtJobStates : /\ v.job = ftJob[w].job /\ v.at = l
                                   /\ ftJob' = [ftJob EXCEPT ![w] = v]
      BY <1>0, <2>5, <3>1, GotoOfJob
    <3>3. ftJob[w].job = "archive" => Staged'
      BY <1>2, <1>3, <2>3 DEF FindFile, Staged
    <3> QED BY <1>0, <2>2, <3>2, <3>3
  <2> QED BY <1>3, <2>2, <2>4, <2>5 DEF FindFile
<1>4. CASE OpenLocal(w)
  <2>1. [job |-> ftJob[w].job, at |-> "fetch"] \in FtJobStates
    BY <1>1, <1>4 DEF OpenLocal, FtJobStates
  <2>2. PICK v \in FtJobStates : /\ v.job = ftJob[w].job /\ v.at = "fetch"
                                 /\ ftJob' = [ftJob EXCEPT ![w] = v]
    BY <1>0, <1>4, <2>1, GotoOfJob DEF OpenLocal
  <2>3. Staged'
    BY <1>1, <1>2, <1>4 DEF OpenLocal, Staged, ftHistory
  <2> QED BY <1>0, <2>2, <2>3
<1>5. CASE FetchStaging(w)
  <2>1. /\ [job |-> ftJob[w].job, at |-> "drop"] \in FtJobStates
        /\ [job |-> ftJob[w].job, at |-> "fail"] \in FtJobStates
    BY <1>1, <1>5 DEF FetchStaging, FtJobStates
  <2>2. Staged'
    BY <1>1, <1>2, <1>5 DEF FetchStaging, StagingLeft, Staged, ftHistory
  <2>3. CASE ftDisk' = "whole" /\ JobGoto(w, "drop")
    <3>1. PICK v \in FtJobStates : /\ v.job = ftJob[w].job /\ v.at = "drop"
                                   /\ ftJob' = [ftJob EXCEPT ![w] = v]
      BY <1>0, <2>1, <2>3, GotoOfJob
    <3> QED BY <1>0, <2>3, <3>1
  <2>4. CASE JobGoto(w, "fail")
    <3>1. PICK v \in FtJobStates : /\ v.job = ftJob[w].job /\ v.at = "fail"
                                   /\ ftJob' = [ftJob EXCEPT ![w] = v]
      BY <1>0, <2>1, <2>4, GotoOfJob
    <3> QED BY <1>0, <2>2, <3>1
  <2> QED BY <1>5, <2>3, <2>4 DEF FetchStaging
<1>6. CASE DropStaging(w)
  <2>1. [job |-> ftJob[w].job, at |-> "archived"] \in FtJobStates
    BY <1>1, <1>6 DEF DropStaging, FtJobStates
  <2>2. PICK v \in FtJobStates : /\ v.job = ftJob[w].job /\ v.at = "archived"
                                 /\ ftJob' = [ftJob EXCEPT ![w] = v]
    BY <1>0, <1>6, <2>1, GotoOfJob DEF DropStaging
  <2>3. ftDisk' = "whole"
    BY <1>2, <1>6 DEF DropStaging
  <2> QED BY <1>0, <2>2, <2>3
<1>7. CASE PushWarm(w)
  <2>1. ftJob[w].job = "warm" /\ ftDisk = "whole" /\ ftDisk' = "whole"
    BY <1>1, <1>2, <1>7 DEF PushWarm
  <2>2. /\ [job |-> ftJob[w].job, at |-> "ready"] \in FtJobStates
        /\ [job |-> ftJob[w].job, at |-> "archived"] \in FtJobStates
    BY <2>1 DEF FtJobStates
  <2>3. CASE "warm" \in ftCos' /\ JobGoto(w, "ready")
    <3>1. PICK v \in FtJobStates : /\ v.job = ftJob[w].job /\ v.at = "ready"
                                   /\ ftJob' = [ftJob EXCEPT ![w] = v]
      BY <1>0, <2>2, <2>3, GotoOfJob
    <3> QED BY <1>0, <2>1, <2>3, <3>1
  <2>4. CASE JobGoto(w, "archived")
    <3>1. PICK v \in FtJobStates : /\ v.job = ftJob[w].job /\ v.at = "archived"
                                   /\ ftJob' = [ftJob EXCEPT ![w] = v]
      BY <1>0, <2>2, <2>4, GotoOfJob
    <3> QED BY <1>0, <2>1, <3>1
  <2> QED BY <1>7, <2>1, <2>3, <2>4 DEF PushWarm, PushFailed
<1> QED BY <1>3, <1>4, <1>5, <1>6, <1>7

\* The steps of a job between its marks on the record.
LEMMA MoveKeeps ==
    ASSUME FtInv, NEW w \in FtWorkers,
           FindFile(w) \/ OpenLocal(w) \/ FetchStaging(w) \/ DropStaging(w) \/ PushWarm(w)
    PROVE  FtInv'
<1>1. PICK v \in FtJobStates :
        /\ v.job \in {ftJob[w].job, "none"} /\ ftJob' = [ftJob EXCEPT ![w] = v]
        /\ v.job = "archive" /\ v.at \in {"find", "mark", "open", "fetch", "fail"} => Staged'
        /\ v.at \in {"drop", "archived"} => ftDisk' = "whole"
        /\ v.at = "ready" => "warm" \in ftCos'
  BY JobMoves
<1>2. ftJob[w].at # "none"
  BY JobMoves
<1>3. /\ UNCHANGED <<ftRec, ftSentParts, ftOp, ftJobs, ftReclaim, ftSent, ftGivenUp, ftLate>>
      /\ ftDisk' \in {"none", "part", "whole"}
      /\ "warm" \in ftCos => "warm" \in ftCos'
      /\ ftJob[w].job = "warm" => ftDisk' = ftDisk
      /\ Staged /\ ~Staged' => ftDisk' = "whole"
      /\ ftDisk = "whole" /\ ftDisk' # "whole" => Staged'
  <2>1. /\ ftDisk \in {"none", "part", "whole"}
        /\ ftJob[w].at \in {"mark", "open", "fetch", "drop"} => ftJob[w].job = "archive"
        /\ ftJob[w].at = "drop" => ftDisk = "whole"
        /\ ftJob[w].at \in {"open", "fetch"} => Staged
    BY JobFacts DEF FtInv, FtShape, Jobbed
  <2>2. CASE FindFile(w)
    BY <2>1, <2>2 DEF FindFile, ftStore, ftHistory, Staged
  <2>3. CASE OpenLocal(w)
    BY <2>1, <2>3 DEF OpenLocal, ftHistory, Staged
  <2>4. CASE FetchStaging(w)
    BY <2>1, <2>4 DEF FetchStaging, StagingLeft, ftHistory, Staged
  <2>5. CASE DropStaging(w)
    BY <2>1, <2>5 DEF DropStaging, ftHistory, Staged
  <2>6. CASE PushWarm(w)
    BY <2>1, <2>6 DEF PushWarm, ftHistory, Staged
  <2> QED BY <2>2, <2>3, <2>4, <2>5, <2>6
<1>4. /\ ftJob' \in [FtWorkers -> FtJobStates] /\ ftJob'[w] = v
      /\ ftJobs' = <<>> /\ FtResting.job = "none" /\ FtResting.at = "none"
      /\ \A x \in FtWorkers \ {w} : ftJob'[x] = FtResting
      /\ OneAtATime'
      /\ Has("archive")' <=> v.job = "archive"
      /\ Has("warm")' <=> v.job = "warm"
  BY <1>1, <1>2, <1>3, JobGoesOn
<1>5. /\ \A c \in FtClients : ftOp[c].op \in {"none", "abort"}
      /\ ftRec.kind \in {"server", "multipart"}
      /\ ftJob[w].job \in {"archive", "warm"}
      /\ ftJob[w].job = "archive" =>
           ftRec.status = "archiving" \/ (ftRec.status = "failed" /\ ftGivenUp)
      /\ ftJob[w].job = "warm" => ftRec.status = "warming_up" /\ ftDisk = "whole"
  BY <1>2, AtWork
<1>6. FtShape'
  BY <1>3, <1>4 DEF FtInv, FtShape
<1>7. AllRequested'
  BY <1>3, <1>5 DEF FtInv, AllRequested, Requested
<1>8. Jobbed'
  BY <1>1, <1>3, <1>4, <1>5 DEF Jobbed
<1>9. Statuses'
  BY <1>3, <1>5 DEF FtInv, Statuses
<1>10. Where'
  BY <1>3, <1>5 DEF FtInv, Where, Staged
<1>11. Reclaiming'
  BY <1>3 DEF FtInv, Reclaiming
<1> QED BY <1>4, <1>6, <1>7, <1>8, <1>9, <1>10, <1>11 DEF FtInv

\* The steps of a job that patch the record.
LEMMA MarkKeeps ==
    ASSUME FtInv, NEW w \in FtWorkers, MarkArchiving(w) \/ SettleFile(w)
    PROVE  FtInv'
<1>0. /\ ftJob[w].at \in {"mark", "fail", "archived", "ready"}
      /\ FtResting \in FtJobStates /\ FtResting.job = "none" /\ FtResting.at = "none"
      /\ ftJob[w].at \in {"mark", "fail"} => ftJob[w].job = "archive" /\ Staged
      /\ ftJob[w].at = "ready" => ftJob[w].job = "warm" /\ "warm" \in ftCos
      /\ ftJob[w].at = "archived" => ftDisk = "whole"
  BY JobFacts DEF FtInv, Jobbed, MarkArchiving, SettleFile, FtJobStates, FtResting
<1>1. PICK st \in FtStatuses, v \in FtJobStates :
        /\ FtPatch(st)
        /\ ftJob' = [ftJob EXCEPT ![w] = v] /\ v.job \in {ftJob[w].job, "none"}
        /\ v.job # "none" => v.at = "open" /\ v.job = "archive" /\ st = "archiving" /\ Staged
        /\ \/ st = "archiving" /\ Staged /\ ftJob[w].job = "archive" /\ v.job = "archive"
           \/ st = "failed" /\ Staged /\ ftJob[w].job = "archive" /\ v.job = "none"
           \/ st = "archived" /\ ftDisk = "whole" /\ v.job = "none"
           \/ st = "ready" /\ "warm" \in ftCos /\ ftJob[w].job = "warm" /\ v.job = "none"
  <2>1. CASE MarkArchiving(w)
    <3>1. ftJob[w].at = "mark" /\ FtPatch("archiving") /\ JobGoto(w, "open")
      BY <2>1 DEF MarkArchiving
    <3>2. [job |-> ftJob[w].job, at |-> "open"] \in FtJobStates /\ ftJob[w].at # "none"
      BY <1>0, <3>1 DEF FtJobStates
    <3>3. PICK v \in FtJobStates : /\ v.job = ftJob[w].job /\ v.at = "open"
                                   /\ ftJob' = [ftJob EXCEPT ![w] = v]
      BY <3>1, <3>2, GotoOfJob
    <3>4. "archiving" \in FtStatuses
      BY DEF FtStatuses
    <3> QED BY <1>0, <3>1, <3>3, <3>4
  <2>2. CASE SettleFile(w)
    <3>1. ftJob' = [ftJob EXCEPT ![w] = FtResting]
      BY <2>2 DEF SettleFile, JobEnds
    <3>2. PICK st : st = IF ftJob[w].at = "fail" THEN "failed" ELSE ftJob[w].at
      OBVIOUS
    <3>3. ftJob[w].at \in {"fail", "archived", "ready"} /\ FtPatch(st)
      BY <2>2, <3>2 DEF SettleFile
    <3>4. st \in FtStatuses
      BY <3>2, <3>3 DEF FtStatuses
    <3> QED BY <1>0, <3>1, <3>2, <3>3, <3>4
  <2> QED BY <2>1, <2>2
<1>2. /\ ftRec' \in FtRecords /\ ftRec'.status = st /\ ftRec'.kind = ftRec.kind /\ ~ftRec'.aged
      /\ ftReclaim' \in FtTasks /\ ftReclaim'.at = ftReclaim.at /\ ftReclaim'.was = ftReclaim.was
      /\ ftReclaim.at # "idle" => ~ftReclaim'.same
  BY <1>1, PatchFacts DEF FtInv
<1>3. /\ UNCHANGED <<ftCos, ftDisk, ftSentParts, ftOp, ftJobs, ftSent, ftGivenUp>>
      /\ ftLate' \in BOOLEAN
  <2>1. ftLate \in BOOLEAN
    BY DEF FtInv, FtShape
  <2> QED BY <2>1 DEF MarkArchiving, SettleFile, ftStore, ftHistory
<1>4. /\ ftJob' \in [FtWorkers -> FtJobStates] /\ ftJob'[w] = v
      /\ ftJobs' = <<>>
      /\ \A x \in FtWorkers \ {w} : ftJob'[x] = FtResting
      /\ OneAtATime'
      /\ Has("archive")' <=> v.job = "archive"
      /\ Has("warm")' <=> v.job = "warm"
  BY <1>0, <1>1, <1>3, JobGoesOn
<1>5. /\ \A c \in FtClients : ftOp[c].op \in {"none", "abort"}
      /\ ftRec.kind \in {"server", "multipart"}
      /\ ftJob[w].job \in {"archive", "warm"}
      /\ ftJob[w].job = "archive" =>
           ftRec.status = "archiving" \/ (ftRec.status = "failed" /\ ftGivenUp)
      /\ ftJob[w].job = "warm" =>
           ftRec.status = "warming_up" /\ ftDisk = "whole" /\ ~ftGivenUp
  BY <1>0, AtWork
<1>6. FtShape'
  BY <1>2, <1>3, <1>4 DEF FtInv, FtShape
<1>7. AllRequested'
  BY <1>2, <1>3, <1>5 DEF FtInv, AllRequested, Requested
<1>8. Jobbed'
  <2>1. v.job = "none" => v.at = "none"
    BY DEF FtJobStates, FtResting
  <2> QED BY <1>0, <1>1, <1>2, <1>3, <1>4, <1>5, <2>1 DEF Jobbed, Staged
<1>9. Statuses'
  BY <1>1, <1>2, <1>3, <1>5 DEF FtInv, Statuses
<1>10. Where'
  BY <1>1, <1>2, <1>3, <1>5 DEF Where, Staged
<1>11. Reclaiming'
  BY <1>1, <1>2, <1>3, <1>5 DEF FtInv, Reclaiming
<1> QED BY <1>4, <1>6, <1>7, <1>8, <1>9, <1>10, <1>11 DEF FtInv

-----------------------------------------------------------------------------
(* Reclaim and restart                                                     *)

\* The reclaimer's scan, and its deletes in COS without the lock.
LEMMA DeleteKeeps ==
    ASSUME FtInv, ScanExpired \/ DeleteExpired
    PROVE  FtInv'
<1>0. ftRec \in FtRecords /\ ftReclaim \in FtTasks /\ ftGivenUp \in BOOLEAN
  BY DEF FtInv, FtShape
<1>1. /\ UNCHANGED <<ftRec, ftDisk, ftSentParts, ftOp, ftJobs, ftJob, ftSent, ftLate>>
      /\ ftReclaim' \in FtTasks /\ ftReclaim'.at # "idle"
      /\ ftGivenUp' \in BOOLEAN /\ (ftGivenUp => ftGivenUp')
      /\ ftGivenUp' /\ ~ftGivenUp => ftRec.status = "pending_upload"
      /\ \/ /\ ftReclaim'.at = "delete" /\ ftReclaim'.was = ftRec.status /\ ftReclaim'.same
            /\ ftReclaim.at = "idle" /\ ftRec.aged /\ UNCHANGED ftCos
            /\ ftRec.status = "pending_upload" => ftGivenUp'
         \/ /\ ftReclaim.at = "delete" /\ ftReclaim'.at = "write"
            /\ ftReclaim'.was = ftReclaim.was /\ ftReclaim'.same = ftReclaim.same
            /\ ftReclaim.was # "ready" => ("warm" \in ftCos => "warm" \in ftCos')
            /\ ~ftReclaim'.ok => ftCos' = ftCos
            /\ ftReclaim.was = "ready" => ("staging" \in ftCos => "staging" \in ftCos')
  <2>1. CASE ScanExpired
    <3>1. ftRec.status \in {"pending_upload", "ready"}
      BY <2>1 DEF ScanExpired, FtInv, Statuses
    <3>2. PICK z : z = [at |-> "delete", was |-> ftRec.status, same |-> TRUE, ok |-> TRUE]
      OBVIOUS
    <3>3. z \in FtTasks /\ z.at = "delete" /\ z.was = ftRec.status /\ z.same
      BY <3>1, <3>2 DEF FtTasks
    <3>4. ftReclaim' = z
      BY <2>1, <3>2 DEF ScanExpired
    <3> QED BY <1>0, <2>1, <3>3, <3>4 DEF ScanExpired, ftStore, ftThreads
  <2>2. CASE DeleteExpired
    <3>1. PICK done \in BOOLEAN :
            /\ ftCos' = IF done THEN IF ftReclaim.was = "ready" THEN ftCos \ {"warm"}
                                     ELSE IF ftRec.kind = "multipart" THEN ftCos \ {"session"}
                                     ELSE ftCos \ {"staging"}
                        ELSE ftCos
            /\ ftReclaim' = [ftReclaim EXCEPT !.at = "write", !.ok = done]
      BY <2>2 DEF DeleteExpired
    <3>2. PICK z : z = [ftReclaim EXCEPT !.at = "write", !.ok = done]
      OBVIOUS
    <3>3. /\ z \in FtTasks /\ z.at = "write" /\ z.was = ftReclaim.was /\ z.same = ftReclaim.same
          /\ z.ok = done
      BY <1>0, <3>2 DEF FtTasks
    <3>4. ftReclaim' = z
      BY <3>1, <3>2
    <3>5. /\ ftReclaim.was # "ready" => ("warm" \in ftCos => "warm" \in ftCos')
          /\ ~done => ftCos' = ftCos
          /\ ftReclaim.was = "ready" => ("staging" \in ftCos => "staging" \in ftCos')
      BY <3>1
    <3> QED BY <1>0, <2>2, <3>3, <3>4, <3>5 DEF DeleteExpired, ftThreads, ftHistory
  <2> QED BY <2>1, <2>2
<1>2. OneAtATime' /\ (Has("archive")' <=> Has("archive")) /\ (Has("warm")' <=> Has("warm"))
  BY <1>1, ThreadsStay
<1>3. Staged => Staged'
  BY <1>1 DEF FtInv, Reclaiming, Staged, FtTasks
<1>4. FtShape'
  BY <1>1 DEF FtInv, FtShape
<1>5. AllRequested'
  BY <1>1, <1>3 DEF FtInv, AllRequested, Requested
<1>6. Jobbed'
  <2>1. Has("archive") \/ Has("warm") => ftGivenUp' = ftGivenUp
    BY <1>1, <1>0 DEF FtInv, Jobbed
  <2>2. /\ Has("archive")' => /\ ftRec'.kind \in {"server", "multipart"}
                              /\ ftRec'.status = "archiving" \/ (ftRec'.status = "failed" /\ ftGivenUp')
        /\ Has("warm")' => /\ ftRec'.kind \in {"server", "multipart"}
                           /\ ftRec'.status = "warming_up" /\ ftDisk' = "whole"
        /\ (ftJobs = <<"archive">>)' => Staged'
    BY <1>1, <1>2, <1>3, <2>1 DEF FtInv, Jobbed
  <2>3. ASSUME NEW w \in FtWorkers
        PROVE  /\ ftJob'[w].job = "archive" /\ ftJob'[w].at \in {"find", "mark", "open", "fetch", "fail"}
                    => Staged'
               /\ ftJob'[w].at \in {"drop", "archived"} => ftDisk' = "whole"
               /\ ftJob'[w].at = "ready" => "warm" \in ftCos'
    <3>1. ftJob[w].at = "ready" => "warm" \in ftCos /\ ftRec.status = "warming_up"
      <4>1. ftJob[w].at = "ready" => ftJob[w].job = "warm"
        BY JobFacts DEF FtInv
      <4> QED BY <4>1 DEF FtInv, Jobbed, Has
    <3>2. ftJob[w].at = "ready" => "warm" \in ftCos'
      BY <1>1, <3>1 DEF FtInv, Reclaiming
    <3> QED BY <1>1, <1>3, <3>2 DEF FtInv, Jobbed
  <2> QED BY <2>2, <2>3 DEF Jobbed
<1>7. Statuses'
  <2>1. ftRec.status # "none"
    BY <1>1 DEF FtInv, Statuses
  <2> QED BY <1>0, <1>1, <1>2, <2>1 DEF FtInv, Statuses
<1>8. Where'
  BY <1>0, <1>1, <1>3 DEF FtInv, Where
<1>9. Reclaiming'
  BY <1>0, <1>1 DEF FtInv, Reclaiming, Statuses, FtTasks
<1> QED BY <1>2, <1>4, <1>5, <1>6, <1>7, <1>8, <1>9 DEF FtInv

\* The write-back finds the status that was scanned, or the record is left alone.
LEMMA WriteBack ==
    ASSUME FtInv, WriteReclaimed
    PROVE  /\ ftReclaim.at = "write" /\ ftReclaim' = FtNoTask
           /\ UNCHANGED <<ftCos, ftDisk, ftSentParts, ftOp, ftJobs, ftJob, ftSent, ftGivenUp, ftLate>>
           /\ \/ /\ ftRec' = ftRec
                 /\ ~(ftReclaim.same /\ ftReclaim.ok /\ ftReclaim.was = "ready")
              \/ /\ ftRec' \in FtRecords /\ ftRec'.kind = ftRec.kind /\ ~ftRec'.aged
                 /\ ftRec.status = ftReclaim.was
                 /\ \/ ftRec.status = "pending_upload" /\ ftRec'.status = "failed" /\ ftGivenUp
                    \/ ftRec.status = "ready" /\ ftRec'.status = "archived"
<1>0. ftRec \in FtRecords
  BY DEF FtInv, FtShape
<1>1. /\ ftReclaim.at = "write" /\ ftReclaim' = FtNoTask
      /\ UNCHANGED <<ftCos, ftDisk, ftSentParts, ftOp, ftJobs, ftJob, ftSent, ftGivenUp, ftLate>>
  BY DEF WriteReclaimed, ftStore, ftThreads, ftHistory
<1>2. CASE ~(ftReclaim.same /\ (ftReclaim.was = "pending_upload" \/ ftReclaim.ok))
  BY <1>1, <1>2 DEF WriteReclaimed, AsScanned
<1>3. CASE ftReclaim.same /\ (ftReclaim.was = "pending_upload" \/ ftReclaim.ok)
  <2>1. PICK p \in BOOLEAN : p = (ftReclaim.was = "pending_upload")
    OBVIOUS
  <2>2. PICK q : q = [ftRec EXCEPT !.status = IF p THEN "failed" ELSE "archived",
                                   !.aged = FALSE, !.abandoned = p]
    OBVIOUS
  <2>3. /\ q \in FtRecords /\ q.kind = ftRec.kind /\ ~q.aged
        /\ q.status = IF p THEN "failed" ELSE "archived"
    BY <1>0, <2>2 DEF FtRecords, FtStatuses
  <2>4. ftRec' = q
    BY <1>3, <2>1, <2>2 DEF WriteReclaimed, AsScanned
  <2>5. /\ ftRec.status = ftReclaim.was /\ ftReclaim.was \in {"pending_upload", "ready"}
        /\ ftReclaim.was = "pending_upload" => ftGivenUp
    BY <1>1, <1>3 DEF FtInv, Reclaiming
  <2> QED BY <1>1, <2>1, <2>3, <2>4, <2>5
<1> QED BY <1>2, <1>3

\* What the reclaimer writes back leaves the others right.
LEMMA WriteKeeps ==
    ASSUME FtInv, WriteReclaimed
    PROVE  FtInv'
<1>0. FtNoTask \in FtTasks /\ FtNoTask.at = "idle" /\ ftRec \in FtRecords
  BY DEF FtTasks, FtNoTask, FtInv, FtShape
<1>1. /\ ftReclaim.at = "write" /\ ftReclaim' = FtNoTask
      /\ UNCHANGED <<ftCos, ftDisk, ftSentParts, ftOp, ftJobs, ftJob, ftSent, ftGivenUp, ftLate>>
      /\ ftRec' \in FtRecords /\ ftRec'.kind = ftRec.kind
      /\ \/ /\ ftRec' = ftRec
            /\ ~(ftReclaim.same /\ ftReclaim.ok /\ ftReclaim.was = "ready")
         \/ /\ ftRec.status = "pending_upload" /\ ftRec'.status = "failed" /\ ftGivenUp
            /\ ~ftRec'.aged
         \/ ftRec.status = "ready" /\ ftRec'.status = "archived" /\ ~ftRec'.aged
  BY <1>0, WriteBack
<1>2. OneAtATime' /\ (Has("archive")' <=> Has("archive")) /\ (Has("warm")' <=> Has("warm"))
  BY <1>1, ThreadsStay
<1>3. FtShape'
  BY <1>0, <1>1 DEF FtInv, FtShape
<1>4. AllRequested'
  BY <1>1 DEF FtInv, AllRequested, Requested, Staged
<1>5. Jobbed'
  BY <1>1, <1>2 DEF FtInv, Jobbed, Staged
<1>6. Statuses'
  BY <1>0, <1>1, <1>2 DEF FtInv, Statuses
<1>7. Where'
  BY <1>1 DEF FtInv, Where, Staged, Statuses
<1>8. Reclaiming'
  BY <1>0, <1>1 DEF FtInv, Reclaiming
<1> QED BY <1>2, <1>3, <1>4, <1>5, <1>6, <1>7, <1>8 DEF FtInv

\* A restart leaves the record, the objects and the file.
LEMMA RestartKeeps ==
    ASSUME FtInv, RestartTransfer
    PROVE  FtInv'
<1>0. /\ FtNoTask \in FtTasks /\ FtNoTask.at = "idle" /\ FtFree \in FtOps /\ FtFree.op = "none"
      /\ FtResting \in FtJobStates /\ FtResting.job = "none" /\ FtResting.at = "none"
  BY DEF FtTasks, FtNoTask, FtFree, FtOps, FtResting, FtJobStates
<1>1. /\ ftReclaim' = FtNoTask /\ ftJobs' = <<>>
      /\ ftOp' \in [FtClients -> FtOps] /\ \A c \in FtClients : ftOp'[c] = FtFree
      /\ ftJob' \in [FtWorkers -> FtJobStates] /\ \A w \in FtWorkers : ftJob'[w] = FtResting
      /\ UNCHANGED <<ftRec, ftCos, ftDisk, ftSentParts, ftSent, ftGivenUp>>
      /\ ftLate' = (ftLate \/ ftReclaim.at = "write") /\ ftLate' \in BOOLEAN
  BY <1>0 DEF RestartTransfer, ftStore
<1>2. ~Has("archive")' /\ ~Has("warm")'
  BY <1>0, <1>1 DEF Has
<1>3. FtShape'
  BY <1>0, <1>1 DEF FtInv, FtShape
<1>4. OneAtATime'
  BY <1>0, <1>1, <1>2 DEF OneAtATime
<1>5. AllRequested'
  BY <1>0, <1>1 DEF AllRequested, Requested
<1>6. Jobbed'
  BY <1>0, <1>1, <1>2 DEF Jobbed
<1>7. Statuses'
  BY <1>0, <1>1, <1>2 DEF FtInv, Statuses
<1>8. Where'
  BY <1>1 DEF FtInv, Where, Staged
<1>9. Reclaiming'
  BY <1>0, <1>1 DEF FtInv, Reclaiming
<1> QED BY <1>3, <1>4, <1>5, <1>6, <1>7, <1>8, <1>9 DEF FtInv

-----------------------------------------------------------------------------
(* The theorems                                                            *)

\* The invariant is inductive until a request crosses another.
LEMMA FtInvNext == FtInv /\ [FtNext]_ftVars => ftCrossed' \/ FtInv'
<1> SUFFICES ASSUME FtInv, [FtNext]_ftVars, ~ftCrossed' PROVE FtInv'
  OBVIOUS
<1>1. CASE \E k \in FtKinds : BeginUpload(k)
  BY <1>1, BeginKeeps
<1>2. CASE PutObject \/ PutPart
  BY <1>2, PutKeeps
<1>3. CASE AgeFile
  BY <1>3, AgeKeeps
<1>4. CASE \E c \in FtClients : Ask(c)
  BY <1>4, AskKeeps
<1>5. ASSUME NEW c \in FtClients, FtRequest(c)
      PROVE  FtInv'
  <2>1. CASE PatchRecord(c)
    BY <2>1, HandOverKeeps, SettleKeeps
  <2> QED BY <1>5, <2>1, ActKeeps DEF FtRequest
<1>6. ASSUME NEW w \in FtWorkers, FtWork(w)
      PROVE  FtInv'
  BY <1>6, TakeKeeps, MoveKeeps, MarkKeeps DEF FtWork
<1>7. CASE ScanExpired \/ DeleteExpired
  BY <1>7, DeleteKeeps
<1>8. CASE WriteReclaimed
  BY <1>8, WriteKeeps
<1>9. CASE RestartTransfer
  BY <1>9, RestartKeeps
<1>10. CASE UNCHANGED ftVars
  <2>1. UNCHANGED <<ftRec, ftCos, ftDisk, ftSentParts, ftOp, ftJobs, ftJob, ftReclaim,
                    ftSent, ftGivenUp, ftLate>>
    BY <1>10 DEF ftVars, ftStore, ftThreads, ftHistory
  <2>2. FtShape'
    BY <2>1 DEF FtInv, FtShape
  <2>3. OneAtATime' /\ (Has("archive")' <=> Has("archive")) /\ (Has("warm")' <=> Has("warm"))
    BY <2>1, ThreadsStay
  <2>4. AllRequested'
    BY <2>1 DEF FtInv, AllRequested, Requested, Staged
  <2>5. Jobbed'
    BY <2>1, <2>3 DEF FtInv, Jobbed, Staged
  <2>6. Statuses' /\ Where' /\ Reclaiming'
    BY <2>1, <2>3 DEF FtInv, Statuses, Where, Reclaiming, Staged
  <2> QED BY <2>2, <2>3, <2>4, <2>5, <2>6 DEF FtInv
<1> QED BY <1>1, <1>2, <1>3, <1>4, <1>5, <1>6, <1>7, <1>8, <1>9, <1>10 DEF FtNext

\* A crossing is not forgotten.
LEMMA CrossedStays == ftCrossed /\ [FtNext]_ftVars => ftCrossed'
<1> SUFFICES ASSUME ftCrossed, [FtNext]_ftVars PROVE ftCrossed'
  OBVIOUS
<1>1. CASE \E c \in FtClients : Ask(c)
  BY <1>1 DEF Ask
<1>2. CASE \E c \in FtClients : FtRequest(c)
  BY <1>2 DEF FtRequest, MergeParts, AssembleParts, DropUpload, DiscardFile, PatchRecord, ftHistory
<1>3. CASE \E w \in FtWorkers : FtWork(w)
  BY <1>3 DEF FtWork, TakeFileJob, FindFile, MarkArchiving, OpenLocal, FetchStaging, DropStaging,
              PushWarm, SettleFile, ftHistory
<1> QED BY <1>1, <1>2, <1>3 DEF FtNext, BeginUpload, PutObject, PutPart, AgeFile, ScanExpired,
                              DeleteExpired, WriteReclaimed, RestartTransfer, ftHistory, ftVars

\* It holds in every behaviour, fair or not, as long as no request crossed another.
LEMMA FtSpecInv == FtSpec => [](ftCrossed \/ FtInv)
BY FtInvInit, FtInvNext, CrossedStays, PTL DEF FtSpec

\* No interleaving of upload requests, archive and warm-up jobs, reclaims and
\* restarts loses the bytes of an upload the browser was told is complete and has
\* not given up (archive_now, warm_now, reclaim_expired), until a complete is sent
\* again or a request crosses another one, which the server lets in.
THEOREM BytesStay == FtSpec => []BytesKept
<1>1. ftCrossed \/ FtInv => BytesKept
  <2> SUFFICES ASSUME FtInv, ftSent, ~ftGivenUp PROVE BytesAreSomewhere
    BY DEF BytesKept
  <2>1. /\ ftRec.kind \in {"none", "server", "multipart", "local", "s3"}
        /\ ftRec.status \in FtStatuses
    BY DEF FtInv, FtShape, FtRecords
  <2>2. ftRec.status \notin {"none", "gone"} /\ ftRec.kind # "none"
    BY DEF FtInv, Statuses, Where
  <2> QED BY <2>1, <2>2 DEF FtInv, Statuses, Where, Staged, BytesAreSomewhere, FtStatuses
<1> QED BY <1>1, FtSpecInv, PTL

\* A record that says archived, warming_up or ready has its whole local file, and
\* a ready one the object of its download link, but for a reclaim that is deleting
\* it (finish_download_request, reclaim_expired), until requests cross.
THEOREM RecordIsRight == FtSpec => []RecordTellsWhere
<1>1. ftCrossed \/ FtInv => RecordTellsWhere
  BY DEF FtInv, Where, Reclaiming, RecordTellsWhere
<1> QED BY <1>1, FtSpecInv, PTL

\* What a reclaim in flight knows of the record, however requests cross.
TaskInv ==
    /\ ftOp \in [FtClients -> FtOps]
    /\ ftRec \in FtRecords
    /\ ftRec.aged => ftRec.status \in {"pending_upload", "ready"}
    /\ ftReclaim \in FtTasks
    /\ ftReclaim.at # "idle" => ftReclaim.was # "none"
    /\ ftReclaim.at # "idle" /\ ftReclaim.same => ftRec.status = ftReclaim.was

\* A patch is seen by the reclaim in flight.
LEMMA PatchIsSeen ==
    ASSUME TaskInv, NEW st \in FtStatuses, FtPatch(st)
    PROVE  /\ ftRec' \in FtRecords /\ ~ftRec'.aged /\ ftReclaim' \in FtTasks
           /\ ftReclaim'.at = ftReclaim.at /\ ftReclaim'.was = ftReclaim.was
           /\ ftReclaim.at # "idle" => ~ftReclaim'.same
<1>1. PICK q : q = [ftRec EXCEPT !.status = st, !.aged = FALSE, !.abandoned = FALSE]
  OBVIOUS
<1>2. q \in FtRecords /\ ~q.aged
  BY <1>1 DEF FtRecords, TaskInv
<1>3. PICK b \in BOOLEAN : b = (ftReclaim.at = "idle")
  OBVIOUS
<1>4. PICK z : z = [ftReclaim EXCEPT !.same = b]
  OBVIOUS
<1>5. z \in FtTasks /\ z.at = ftReclaim.at /\ z.was = ftReclaim.was /\ z.same = b
  BY <1>4 DEF FtTasks, TaskInv
<1>6. ftRec' = q /\ ftReclaim' = z
  BY <1>1, <1>3, <1>4 DEF FtPatch
<1> QED BY <1>2, <1>3, <1>5, <1>6

\* A request asks for one of the known operations, and goes on as one.
LEMMA OpsStay ==
    ASSUME TaskInv, [FtNext]_ftVars
    PROVE  ftOp' \in [FtClients -> FtOps]
<1>0. ftOp \in [FtClients -> FtOps] /\ FtFree \in FtOps
  BY DEF TaskInv, FtOps
<1>1. ASSUME NEW c \in FtClients, NEW v \in FtOps, ftOp' = [ftOp EXCEPT ![c] = v]
      PROVE  ftOp' \in [FtClients -> FtOps]
  BY <1>0, <1>1
<1>2. ASSUME NEW c \in FtClients, Ask(c)
      PROVE  ftOp' \in [FtClients -> FtOps]
  <2>1. PICK o \in {"complete", "merge", "assemble", "abort", "s3done", "link", "download",
                    "discard"} :
          /\ Accepts(o)
          /\ FtGoto(c, IF o = "download" THEN ftRec.status ELSE o,
                    IF o \in {"merge", "assemble", "abort", "discard"} THEN "act" ELSE "patch")
    BY <1>2 DEF Ask
  <2>2. o = "download" => ftRec.status \in {"archived", "ready"}
    BY <2>1 DEF Accepts
  <2>3. PICK v : v = [op |-> IF o = "download" THEN ftRec.status ELSE o,
                      at |-> IF o \in {"merge", "assemble", "abort", "discard"}
                             THEN "act" ELSE "patch"]
    OBVIOUS
  <2>4. v \in FtOps
    BY <2>2, <2>3 DEF FtOps
  <2> QED BY <1>1, <2>1, <2>3, <2>4 DEF FtGoto
<1>3. ASSUME NEW c \in FtClients, FtRequest(c)
      PROVE  ftOp' \in [FtClients -> FtOps]
  <2>1. \A o \in {"merge", "assemble", "abort", "discard"} :
          [op |-> o, at |-> "patch"] \in FtOps
    BY DEF FtOps
  <2>2. [op |-> "assemble", at |-> "copy"] \in FtOps
    BY DEF FtOps
  <2>3. CASE MergeParts(c)
    BY <1>0, <1>1, <2>1, <2>3 DEF MergeParts, FtGoto, FtAnswer
  <2>4. CASE AssembleParts(c)
    BY <1>0, <1>1, <2>1, <2>2, <2>4 DEF AssembleParts, FtGoto, FtAnswer
  <2>5. CASE DropUpload(c) \/ DiscardFile(c)
    BY <1>1, <2>1, <2>5 DEF DropUpload, DiscardFile, FtGoto
  <2>6. CASE PatchRecord(c)
    BY <1>0, <1>1, <2>6 DEF PatchRecord, FtAnswer
  <2> QED BY <1>3, <2>3, <2>4, <2>5, <2>6 DEF FtRequest
<1>4. CASE RestartTransfer
  BY <1>0, <1>4 DEF RestartTransfer
<1>5. ASSUME NEW w \in FtWorkers, FtWork(w)
      PROVE  ftOp' = ftOp
  BY <1>5 DEF FtWork, TakeFileJob, FindFile, MarkArchiving, OpenLocal, FetchStaging, DropStaging,
              PushWarm, SettleFile
<1>6. ASSUME \/ \E k \in FtKinds : BeginUpload(k)
             \/ PutObject \/ PutPart \/ AgeFile \/ ScanExpired \/ DeleteExpired \/ WriteReclaimed
             \/ UNCHANGED ftVars
      PROVE  ftOp' = ftOp
  BY <1>6 DEF BeginUpload, PutObject, PutPart, AgeFile, ScanExpired, DeleteExpired, WriteReclaimed,
              ftVars, ftThreads
<1> QED BY <1>0, <1>2, <1>3, <1>4, <1>5, <1>6 DEF FtNext

\* The patches of requests and jobs.
LEMMA EveryPatch ==
    ASSUME TaskInv, \/ \E c \in FtClients : PatchRecord(c)
                    \/ \E w \in FtWorkers : MarkArchiving(w) \/ SettleFile(w)
    PROVE  \E st \in FtStatuses : FtPatch(st)
<1>1. ASSUME NEW c \in FtClients, PatchRecord(c)
      PROVE  \E st \in FtStatuses : FtPatch(st)
  <2>1. ftOp[c].op \in {"complete", "merge", "assemble", "abort", "s3done", "link", "archived",
                        "ready", "discard"}
    BY <1>1 DEF TaskInv, FtOps, FtFree, PatchRecord
  <2>2. ftRec.status \in FtStatuses
    BY DEF TaskInv, FtRecords
  <2> QED BY <1>1, <2>1, <2>2 DEF PatchRecord, FtStatuses
<1>2. ASSUME NEW w \in FtWorkers, MarkArchiving(w) \/ SettleFile(w)
      PROVE  \E st \in FtStatuses : FtPatch(st)
  BY <1>2 DEF MarkArchiving, SettleFile, FtStatuses
<1> QED BY <1>1, <1>2

\* What requests and jobs do apart from their patches leaves the record alone.
LEMMA NoOtherPatch ==
    ASSUME \/ \E c \in FtClients : FtRequest(c) /\ ~PatchRecord(c)
           \/ \E w \in FtWorkers : FtWork(w) /\ ~MarkArchiving(w) /\ ~SettleFile(w)
    PROVE  UNCHANGED <<ftRec, ftReclaim>>
<1>1. ASSUME NEW c \in FtClients, FtRequest(c) /\ ~PatchRecord(c)
      PROVE  UNCHANGED <<ftRec, ftReclaim>>
  BY <1>1 DEF FtRequest, MergeParts, AssembleParts, DropUpload, DiscardFile
<1>2. ASSUME NEW w \in FtWorkers, FtWork(w) /\ ~MarkArchiving(w) /\ ~SettleFile(w)
      PROVE  UNCHANGED <<ftRec, ftReclaim>>
  BY <1>2 DEF FtWork, TakeFileJob, FindFile, OpenLocal, FetchStaging, DropStaging, PushWarm
<1> QED BY <1>1, <1>2

\* A reclaim knows the record it scanned until somebody patches it.
LEMMA TaskInvNext == TaskInv /\ [FtNext]_ftVars => TaskInv'
<1> SUFFICES ASSUME TaskInv, [FtNext]_ftVars PROVE TaskInv'
  OBVIOUS
<1>0. ftOp' \in [FtClients -> FtOps]
  BY OpsStay
<1>1. ASSUME NEW st \in FtStatuses, FtPatch(st)
      PROVE  TaskInv'
  BY <1>0, <1>1, PatchIsSeen DEF TaskInv
<1>2. ASSUME UNCHANGED <<ftRec, ftReclaim>>
      PROVE  TaskInv'
  BY <1>0, <1>2 DEF TaskInv
<1>3. ASSUME NEW k \in FtKinds, BeginUpload(k)
      PROVE  TaskInv'
  <2>1. PICK q : q = [ftRec EXCEPT !.status = "pending_upload", !.kind = k]
    OBVIOUS
  <2>2. q \in FtRecords /\ q.status = "pending_upload"
    BY <2>1, FtConstants DEF FtRecords, FtStatuses, TaskInv
  <2> QED BY <1>0, <1>3, <2>1, <2>2 DEF TaskInv, BeginUpload
<1>4. CASE AgeFile
  <2>1. PICK q : q = [ftRec EXCEPT !.aged = TRUE]
    OBVIOUS
  <2>2. q \in FtRecords /\ q.status = ftRec.status
    BY <2>1 DEF FtRecords, TaskInv
  <2> QED BY <1>0, <1>4, <2>1, <2>2 DEF TaskInv, AgeFile
<1>5. CASE ScanExpired
  <2>1. ftRec.status \in {"pending_upload", "ready"}
    BY <1>5 DEF ScanExpired, TaskInv
  <2> QED BY <1>0, <1>5, <2>1 DEF TaskInv, ScanExpired, FtTasks
<1>6. CASE DeleteExpired
  <2>1. PICK done \in BOOLEAN : ftReclaim' = [ftReclaim EXCEPT !.at = "write", !.ok = done]
    BY <1>6 DEF DeleteExpired
  <2>2. ftReclaim.at = "delete" /\ ftRec' = ftRec
    BY <1>6 DEF DeleteExpired
  <2> QED BY <1>0, <2>1, <2>2 DEF TaskInv, FtTasks
<1>7. CASE WriteReclaimed
  <2>1. FtNoTask \in FtTasks /\ FtNoTask.at = "idle"
    BY DEF FtNoTask, FtTasks
  <2>2. PICK b \in BOOLEAN : b = (ftReclaim.was = "pending_upload")
    OBVIOUS
  <2>3. PICK q : q = [ftRec EXCEPT !.status = IF b THEN "failed" ELSE "archived",
                                   !.aged = FALSE, !.abandoned = b]
    OBVIOUS
  <2>4. q \in FtRecords /\ ~q.aged
    BY <2>3 DEF FtRecords, FtStatuses, TaskInv
  <2>5. ftRec' \in {ftRec, q} /\ ftReclaim' = FtNoTask
    BY <1>7, <2>2, <2>3 DEF WriteReclaimed
  <2> QED BY <1>0, <2>1, <2>4, <2>5 DEF TaskInv
<1>8. CASE RestartTransfer
  BY <1>0, <1>8 DEF TaskInv, RestartTransfer, FtNoTask, FtTasks
<1>9. ASSUME \/ PutObject \/ PutPart \/ UNCHANGED ftVars
             \/ \E c \in FtClients : Ask(c)
      PROVE  TaskInv'
  BY <1>2, <1>9 DEF PutObject, PutPart, Ask, ftVars
<1>10. ASSUME NEW c \in FtClients, FtRequest(c)
       PROVE  TaskInv'
  BY <1>1, <1>2, <1>10, EveryPatch, NoOtherPatch
<1>11. ASSUME NEW w \in FtWorkers, FtWork(w)
       PROVE  TaskInv'
  BY <1>1, <1>2, <1>11, EveryPatch, NoOtherPatch
<1> QED BY <1>3, <1>4, <1>5, <1>6, <1>7, <1>8, <1>9, <1>10, <1>11 DEF FtNext

\* The reclaimer's write-back never covers a status it did not scan: whatever
\* patched the record while it deleted makes it give up (file_transfer.cpp:1551),
\* however requests cross.
THEOREM ReclaimsOverNothing == FtSpec => ReclaimOverwritesNothing
<1>1. FtInit => TaskInv
  BY DEF FtInit, TaskInv, FtOps, FtFree, FtRecords, FtStatuses, FtTasks, FtNoTask
<1>2. TaskInv /\ [FtNext]_ftVars =>
        [ftReclaim.at = "write" /\ ftReclaim'.at = "idle" /\ ftRec' # ftRec
           => ftRec.status = ftReclaim.was]_ftVars
  <2> SUFFICES ASSUME TaskInv, FtNext, ftReclaim.at = "write", ftReclaim'.at = "idle",
                      ftRec' # ftRec
               PROVE  ftRec.status = ftReclaim.was
    OBVIOUS
  <2>1. CASE WriteReclaimed
    BY <2>1 DEF TaskInv, WriteReclaimed, AsScanned
  <2>2. ~\E c \in FtClients : FtRequest(c)
    BY EveryPatch, NoOtherPatch, PatchIsSeen
  <2>3. ~\E w \in FtWorkers : FtWork(w)
    BY EveryPatch, NoOtherPatch, PatchIsSeen
  <2>4. CASE ~WriteReclaimed
    BY <2>2, <2>3, <2>4 DEF FtNext, BeginUpload, PutObject, PutPart, AgeFile, Ask,
                            ScanExpired, DeleteExpired, RestartTransfer
  <2> QED BY <2>1, <2>4
<1> QED BY <1>1, <1>2, TaskInvNext, PTL DEF FtSpec, ReclaimOverwritesNothing
=============================================================================
