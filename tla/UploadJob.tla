------------------------------ MODULE UploadJob ------------------------------
(***************************************************************************)
(* One upload job: its row in upload_jobs, the file and segment rows it    *)
(* fills in, the documents it leaves in the Telegram channel, and the      *)
(* goroutines that work on it at the same time (internal/drive/upload.go,  *)
(* remote.go, local.go, ops.go; internal/database/jobs.go;                 *)
(* internal/api/upload.go).                                                *)
(*                                                                         *)
(* One step is one database statement or transaction, one Telegram call    *)
(* or one critical section; reads that directly follow each other and      *)
(* whose later results can only repeat the first are one step.  A database *)
(* call with a context that is done returns its error and changes nothing. *)
(***************************************************************************)
EXTENDS Integers, FiniteSets, FiniteSetsExt

CONSTANTS
  Requests,     \* browser segment requests (handlePutSegment)
  Streams,      \* WebDAV and plugin streams (UploadStream, UploadUnsized)
  Workers,      \* goroutines of runRemote or runLocal
  Completers,   \* /complete requests (handleCompleteUpload)
  Cancellers,   \* CancelUpload calls
  Aborters,     \* plugin calls that abort a job without waiting for it
  Deleters,     \* Delete, DeleteFileByID and overwriting Begin calls
                \* (one process may make calls of several of the last four kinds)
  SegmentCount, \* segments of the file
  MaxDocs,      \* bound: documents posted to the channel
  MaxCrashes    \* bound: restarts of the server

ASSUME SegmentCountAssumption == SegmentCount \in Nat \ {0}
ASSUME WorkersAssumption ==
  Workers \cap (Requests \cup Streams \cup Completers \cup Cancellers \cup Aborters \cup Deleters) = {}
ASSUME SomebodyPuts == Requests \cup Streams \cup Workers # {}
ASSUME MaxDocsAssumption == MaxDocs \in Nat
ASSUME MaxCrashesAssumption == MaxCrashes \in Nat

VARIABLES
  source,       \* upload_jobs.source: who puts the segments, see Sources
  status,       \* upload_jobs.status; "none" before the row exists
  mask,         \* upload_jobs.done_mask
  uploaded,     \* upload_jobs.uploaded_bytes, in segments
  file,         \* files.status of the job's file; "absent" when there is no row
  rows,         \* segments.tg_msg_id by index; 0 when there is no row
  docs,         \* documents in the channel, by message id
  posted,       \* last message id given out
  watch,        \* jobCancels: who registered with WatchUploadJob
  dead,         \* whose watched context has been cancelled
  running,      \* jobRuns: whether a worker goroutine is registered
  pc,           \* the next step of each process
  todo,         \* segments a process still has to put
  doc,          \* the document a process has just posted
  msgs,         \* the messages a deletion has read
  seen,         \* the status a CancelUpload call read first
  want,         \* the status an Abort call was asked to record
  delFailed,    \* whether Telegram ever refused a deletion
  crashes

jobVars == <<source, status, mask, uploaded>>
fileVars == <<file, rows>>
channelVars == <<docs, posted>>
workVars == <<watch, dead, running>>
localVars == <<todo, doc, msgs, seen, want>>
vars == <<source, status, mask, uploaded, file, rows, docs, posted, watch, dead, running,
          pc, todo, doc, msgs, seen, want, delFailed, crashes>>

Procs ==
  Requests \cup Streams \cup Workers \cup Completers \cup Cancellers \cup Aborters \cup Deleters
Putters == Requests \cup Streams \cup Workers
Segments == 1..SegmentCount

\* webui: a browser's requests; webdav: one stream; remote: a worker (remote URLs
\* and local files of the server).
Sources ==
  (IF Requests = {} THEN {} ELSE {"webui"}) \cup (IF Streams = {} THEN {} ELSE {"webdav"})
    \cup (IF Workers = {} THEN {} ELSE {"remote"})

Statuses == {"none", "pending", "running", "complete", "failed", "cancelled"}
Aborted == {"failed", "cancelled"}
Terminal == Aborted \cup {"complete"}

PutSteps == {"queue", "check", "start", "upload", "record", "mark"}
CompleteSteps == {"c_read", "c_file", "c_status", "c_load"}
CancelSteps == {"k_stop", "k_wait", "k_decide"}
AbortSteps == {"f_read", "a_stop", "a_read", "a_del", "a_row", "a_set"}
Steps == {"idle", "schedule", "watch", "admit", "file"}
           \cup PutSteps \cup CompleteSteps \cup CancelSteps \cup AbortSteps

\* The segment a process puts next: PendingSegments is in ascending order.
Seg(p) == Min(todo[p])
Done == mask = Segments

Init ==
  /\ source \in Sources
  /\ status = "none" /\ mask = {} /\ uploaded = 0
  /\ file = "absent" /\ rows = [i \in Segments |-> 0]
  /\ docs = {} /\ posted = 0
  /\ watch = {} /\ dead = {} /\ running = FALSE
  /\ pc = [p \in Procs |-> "idle"]
  /\ todo = [p \in Procs |-> {}]
  /\ doc = [p \in Procs |-> 0]
  /\ msgs = [p \in Procs |-> {}]
  /\ seen = [p \in Procs |-> "none"]
  /\ want = [p \in Procs |-> "none"]
  /\ delFailed = FALSE /\ crashes = 0

------------------------------------------------------------------------------
Goto(p, step) == pc' = [pc EXCEPT ![p] = step]

\* p is finished: its locals go, its watch registration (if any) is released.
Forget(p) ==
  /\ todo' = [todo EXCEPT ![p] = {}]
  /\ doc' = [doc EXCEPT ![p] = 0]
  /\ msgs' = [msgs EXCEPT ![p] = {}]
  /\ seen' = [seen EXCEPT ![p] = "none"]
  /\ want' = [want EXCEPT ![p] = "none"]
  /\ watch' = watch \ {p}
  /\ dead' = dead \ {p}
  /\ running' = IF p \in Workers /\ pc[p] # "schedule" THEN FALSE ELSE running

End(p) == Goto(p, "idle") /\ Forget(p)

\* An error: the HTTP handlers answer it; a worker goes through failRemote or
\* failLocal; a stream aborts when it gets no slot or a put fails, and simply
\* returns the error of its first transition or of its completion.
Fail(p) ==
  IF p \in Workers \/ (p \in Streams /\ pc[p] \in PutSteps)
    THEN Goto(p, "f_read") /\ UNCHANGED <<localVars, workVars>>
    ELSE End(p)

------------------------------------------------------------------------------
(* Begin: the file row first, then the job row.                            *)

BeginFile ==
  /\ file = "absent" /\ status = "none"
  /\ file' = "pending"
  /\ UNCHANGED <<jobVars, rows, channelVars, workVars, pc, localVars, delFailed, crashes>>

\* InsertJob.  StartRemote and StartLocal then schedule a worker with the row
\* they have just written, UploadStream and UploadUnsized go on with it
\* themselves, a browser is told its id.
BeginJob ==
  /\ file = "pending" /\ status = "none" /\ crashes = 0
  /\ status' = "pending"
  /\ \/ source = "webui" /\ UNCHANGED <<pc, todo>>
     \/ \E p \in IF source = "remote" THEN Workers ELSE Streams :
          /\ source # "webui"
          /\ Goto(p, IF p \in Workers THEN "schedule" ELSE "queue")
          /\ todo' = [todo EXCEPT ![p] = Segments]
  /\ UNCHANGED <<source, mask, uploaded, fileVars, channelVars, workVars, doc, msgs, seen, want,
                 delFailed, crashes>>

\* InsertJob failed, or the file row was deleted before it and the foreign key
\* refused it: the file row is taken back.
BeginRollback ==
  /\ file = "pending" /\ status = "none" /\ crashes = 0
  /\ file' = "absent"
  /\ UNCHANGED <<jobVars, rows, channelVars, workVars, pc, localVars, delFailed, crashes>>

------------------------------------------------------------------------------
(* Getting to PutSegment.                                                  *)

\* handlePutSegment reads the job and its file and answers at once when the
\* segment already landed.
HandlePut(r, i) ==
  /\ pc[r] = "idle" /\ source = "webui" /\ status # "none" /\ file # "absent"
  /\ i \notin mask
  /\ posted < MaxDocs
  /\ todo' = [todo EXCEPT ![r] = {i}]
  /\ Goto(r, "watch")
  /\ UNCHANGED <<jobVars, fileVars, channelVars, workVars, doc, msgs, seen, want,
                 delFailed, crashes>>

\* UploadStream waits for a slot before it watches the job; a slot that is
\* granted as the client leaves may still be taken.
StreamQueue(s) ==
  /\ pc[s] = "queue"
  /\ \/ Goto(s, "watch") /\ UNCHANGED <<localVars, workVars>>
     \/ Fail(s)
  /\ UNCHANGED <<jobVars, fileVars, channelVars, delFailed, crashes>>

\* Only jobs that had started are picked up.
Resumable_RunningOnly == source = "remote" /\ status = "running"

\* The rows ResumableJobs selects.
Resumable == source = "remote" /\ status \in {"pending", "running"}

\* ResumeRemotes lists the job; the row it read is the worker's snapshot.
Resume(w) ==
  /\ pc[w] = "idle" /\ Resumable
  /\ todo' = [todo EXCEPT ![w] = Segments \ mask]
  /\ Goto(w, "schedule")
  /\ UNCHANGED <<jobVars, fileVars, channelVars, workVars, doc, msgs, seen, want,
                 delFailed, crashes>>

\* scheduleJobWorker without its check for a goroutine that is already there.
Schedule_Always(w) ==
  /\ pc[w] = "schedule"
  /\ running' = TRUE
  /\ Goto(w, "watch")
  /\ UNCHANGED <<watch, dead, localVars, jobVars, fileVars, channelVars, delFailed, crashes>>

\* scheduleJobWorker starts a goroutine unless the job has one.
Schedule(w) ==
  /\ pc[w] = "schedule"
  /\ IF running
       THEN End(w)
       ELSE /\ running' = TRUE
            /\ Goto(w, "watch")
            /\ UNCHANGED <<watch, dead, localVars>>
  /\ UNCHANGED <<jobVars, fileVars, channelVars, delFailed, crashes>>

\* WatchUploadJob registers the process under the job.
Watch(p) ==
  /\ pc[p] = "watch"
  /\ watch' = watch \cup {p}
  /\ Goto(p, "admit")
  /\ UNCHANGED <<jobVars, fileVars, channelVars, dead, running, localVars, delFailed, crashes>>

\* SetJobStatus without its condition on the current status.
MayRun_Any == status # "none"

\* SetJobStatusIf(running; pending, running) applies.
MayRun == status \in {"pending", "running"}

\* The slot has been waited for, or refused; then the caller's own transition
\* to running.  A worker or a request whose transition does not apply stops
\* there, a stream goes on and leaves the refusal to PutSegment.
Admit(p) ==
  /\ pc[p] = "admit"
  /\ \/ /\ p \in dead \/ p \notin Streams
        /\ Fail(p) /\ UNCHANGED status
     \/ /\ p \notin dead /\ MayRun
        /\ status' = "running"
        /\ Goto(p, IF p \in Workers THEN "file" ELSE "check")
        /\ UNCHANGED <<localVars, workVars>>
     \/ /\ p \notin dead /\ ~MayRun
        /\ IF p \in Streams
             THEN Goto(p, "check") /\ UNCHANGED <<localVars, workVars>>
             ELSE End(p)
        /\ UNCHANGED status
  /\ UNCHANGED <<source, mask, uploaded, fileVars, channelVars, delFailed, crashes>>

\* The worker loads the file row it will read the geometry from.
WorkerFile(w) ==
  /\ pc[w] = "file"
  /\ IF w \in dead \/ file = "absent"
       THEN Fail(w)
       ELSE /\ Goto(w, IF todo[w] = {} THEN "c_read" ELSE "check")
            /\ UNCHANGED <<localVars, workVars>>
  /\ UNCHANGED <<jobVars, fileVars, channelVars, delFailed, crashes>>

------------------------------------------------------------------------------
(* PutSegment.                                                             *)

\* JobByID and FileByID: a stopped transfer stores nothing.
PutCheck(p) ==
  /\ pc[p] = "check"
  /\ IF p \in dead \/ status \in Aborted \/ file = "absent"
       THEN Fail(p)
       ELSE Goto(p, "start") /\ UNCHANGED <<localVars, workVars>>
  /\ UNCHANGED <<jobVars, fileVars, channelVars, delFailed, crashes>>

\* PutSegment's own conditional transition to running.
PutStart(p) ==
  /\ pc[p] = "start"
  /\ IF p \in dead \/ ~MayRun
       THEN Fail(p) /\ UNCHANGED status
       ELSE /\ status' = "running"
            /\ Goto(p, "upload")
            /\ UNCHANGED <<localVars, workVars>>
  /\ UNCHANGED <<source, mask, uploaded, fileVars, channelVars, delFailed, crashes>>

\* uploadSegment: the document is posted and its handle returned, or the call
\* fails with the document posted (the answer was lost) or not posted.
Upload(p) ==
  /\ pc[p] = "upload"
  /\ \/ /\ p \notin dead /\ posted < MaxDocs
        /\ posted' = posted + 1
        /\ docs' = docs \cup {posted + 1}
        /\ doc' = [doc EXCEPT ![p] = posted + 1]
        /\ Goto(p, "record")
        /\ UNCHANGED <<todo, msgs, seen, want, workVars>>
     \/ /\ posted < MaxDocs
        /\ posted' = posted + 1
        /\ docs' = docs \cup {posted + 1}
        /\ Fail(p)
     \/ Fail(p) /\ UNCHANGED channelVars
  /\ UNCHANGED <<jobVars, fileVars, delFailed, crashes>>

\* UpsertSegment; the foreign key refuses it once the file row is gone.
UpsertSegment(p) ==
  /\ pc[p] = "record"
  /\ IF p \in dead \/ file = "absent"
       THEN Fail(p) /\ UNCHANGED rows
       ELSE /\ rows' = [rows EXCEPT ![Seg(p)] = doc[p]]
            /\ Goto(p, "mark")
            /\ UNCHANGED <<localVars, workVars>>
  /\ UNCHANGED <<jobVars, file, channelVars, delFailed, crashes>>

\* A segment that lands after the abort is recorded all the same.
MarkRefused_Never == FALSE

\* The transaction finds the job stopped.
MarkRefused == status \in Aborted

\* A segment stored twice is counted twice.
BytesAfter_Double(i) == uploaded + 1

\* Re-sending a segment does not count its bytes again.
BytesAfter(i) == IF i \in mask THEN uploaded ELSE uploaded + 1

\* The job is complete with its last segment.
StatusAfter(m) == IF m = Segments THEN "complete" ELSE "running"

\* MarkSegmentDone's transaction; the put is over and the process goes on.
MarkSegmentDone(p) ==
  LET i == Seg(p)
      left == todo[p] \ {i}
  IN
  /\ pc[p] = "mark"
  /\ IF p \in dead \/ MarkRefused
       THEN Fail(p) /\ UNCHANGED <<status, mask, uploaded>>
       ELSE /\ mask' = mask \cup {i}
            /\ uploaded' = BytesAfter(i)
            /\ status' = StatusAfter(mask \cup {i})
            /\ IF p \in Requests
                 THEN End(p)
                 ELSE /\ todo' = [todo EXCEPT ![p] = left]
                      /\ doc' = [doc EXCEPT ![p] = 0]
                      /\ Goto(p, IF left = {} THEN "c_read" ELSE "check")
                      /\ UNCHANGED <<msgs, seen, want, workVars>>
  /\ UNCHANGED <<source, fileVars, channelVars, delFailed, crashes>>

\* The client of a request or of a stream goes away: its context is done.
HangUp(p) ==
  /\ pc[p] \in {"watch", "admit"} \cup PutSteps \cup CompleteSteps
  /\ p \notin dead
  /\ dead' = dead \cup {p}
  /\ UNCHANGED <<jobVars, fileVars, channelVars, watch, running, pc, localVars, delFailed, crashes>>

------------------------------------------------------------------------------
(* Complete, by a /complete request or at the end of a worker or a stream. *)

StartComplete(c) ==
  /\ pc[c] = "idle" /\ status # "none"
  /\ Goto(c, "c_read")
  /\ UNCHANGED <<jobVars, fileVars, channelVars, workVars, localVars, delFailed, crashes>>

\* Complete finds segments missing.
Missing == ~Done

CompleteRead(p) ==
  /\ pc[p] = "c_read"
  /\ IF p \in dead \/ Missing
       THEN Fail(p)
       ELSE Goto(p, "c_file") /\ UNCHANGED <<localVars, workVars>>
  /\ UNCHANGED <<jobVars, fileVars, channelVars, delFailed, crashes>>

\* UpdateFileStatus: no row, no completion.
CompleteFile(p) ==
  /\ pc[p] = "c_file"
  /\ IF p \in dead \/ file = "absent"
       THEN Fail(p) /\ UNCHANGED file
       ELSE /\ file' = "complete"
            /\ Goto(p, "c_status")
            /\ UNCHANGED <<localVars, workVars>>
  /\ UNCHANGED <<jobVars, rows, channelVars, delFailed, crashes>>

\* SetJobStatus(complete), whatever the status is by now.
CompleteStatus(p) ==
  /\ pc[p] = "c_status"
  /\ IF p \in dead
       THEN Fail(p) /\ UNCHANGED status
       ELSE /\ status' = "complete"
            /\ IF p \in Workers
                 THEN Goto(p, "c_load") /\ UNCHANGED <<localVars, workVars>>
                 ELSE End(p)
  /\ UNCHANGED <<source, mask, uploaded, fileVars, channelVars, delFailed, crashes>>

\* Complete returns the row; a worker treats failing to load it as a failure.
CompleteLoad(w) ==
  /\ pc[w] = "c_load"
  /\ IF w \in dead \/ file = "absent" THEN Fail(w) ELSE End(w)
  /\ UNCHANGED <<jobVars, fileVars, channelVars, delFailed, crashes>>

------------------------------------------------------------------------------
(* CancelUpload.                                                           *)

StartCancel(k) ==
  /\ pc[k] = "idle" /\ status # "none"
  /\ seen' = [seen EXCEPT ![k] = status]
  /\ want' = [want EXCEPT ![k] = "cancelled"]
  /\ Goto(k, "k_stop")
  /\ UNCHANGED <<jobVars, fileVars, channelVars, workVars, todo, doc, msgs, delFailed, crashes>>

\* stopUploadWork, in CancelUpload and again in Abort.
StopUploadWork(p, from, to) ==
  /\ pc[p] = from
  /\ dead' = dead \cup watch
  /\ Goto(p, to)
  /\ UNCHANGED <<jobVars, fileVars, channelVars, watch, running, localVars, delFailed, crashes>>

\* waitUploadWork returns: nobody is registered, or the thirty seconds are over
\* with a writer that has been interrupted and has not unwound.
WaitUploadWork(k) ==
  /\ pc[k] = "k_wait"
  /\ Goto(k, "k_decide")
  /\ UNCHANGED <<jobVars, fileVars, channelVars, workVars, localVars, delFailed, crashes>>

\* The switch is on the status read before the wait.
Decide(k) ==
  /\ pc[k] = "k_decide"
  /\ IF seen[k] \in Terminal
       THEN End(k)
       ELSE Goto(k, "a_stop") /\ UNCHANGED <<localVars, workVars>>
  /\ UNCHANGED <<jobVars, fileVars, channelVars, delFailed, crashes>>

------------------------------------------------------------------------------
(* Abort.                                                                  *)

\* files.abortUpload of a plugin calls Abort directly when the state it reports
\* is not a cancellation: failed is recorded as such, any other as cancelled.
PluginAbort(k) ==
  /\ pc[k] = "idle" /\ status # "none"
  /\ \E s \in Aborted : want' = [want EXCEPT ![k] = s]
  /\ Goto(k, "a_stop")
  /\ UNCHANGED <<jobVars, fileVars, channelVars, workVars, todo, doc, msgs, seen,
                 delFailed, crashes>>

\* abortAfterFailure reads the status: a recorded abort is left alone.
AbortAfterFailure(w) ==
  /\ pc[w] = "f_read"
  /\ IF status \in Aborted
       THEN End(w)
       ELSE /\ want' = [want EXCEPT ![w] = "failed"]
            /\ Goto(w, "a_stop")
            /\ UNCHANGED <<todo, doc, msgs, seen, workVars>>
  /\ UNCHANGED <<jobVars, fileVars, channelVars, delFailed, crashes>>

\* The abort records its status before it cleans up.
AbortRead_SetFirst(p) ==
  /\ pc[p] = "a_read"
  /\ status' = want[p]
  /\ msgs' = [msgs EXCEPT ![p] = {rows[i] : i \in Segments} \ {0}]
  /\ Goto(p, IF file = "absent" THEN "a_set" ELSE "a_del")
  /\ UNCHANGED <<source, mask, uploaded, fileVars, channelVars, workVars, todo, doc, seen, want,
                 delFailed, crashes>>

\* JobByID, FileByID and deleteFileRow's FileMessages.
AbortRead(p) ==
  /\ pc[p] = "a_read"
  /\ msgs' = [msgs EXCEPT ![p] = {rows[i] : i \in Segments} \ {0}]
  /\ Goto(p, IF file = "absent" THEN "a_set" ELSE "a_del")
  /\ UNCHANGED <<jobVars, fileVars, channelVars, workVars, todo, doc, seen, want,
                 delFailed, crashes>>

\* Delete, DeleteFileByID or the clearName of an overwriting Begin finds the row.
StartDelete(d) ==
  /\ pc[d] = "idle" /\ file # "absent" /\ status # "none"
  /\ msgs' = [msgs EXCEPT ![d] = {rows[i] : i \in Segments} \ {0}]
  /\ Goto(d, "a_del")
  /\ UNCHANGED <<jobVars, fileVars, channelVars, workVars, todo, doc, seen, want,
                 delFailed, crashes>>

\* deleteMessages: Telegram first.  A refusal ends the deletion with the rows
\* in place; Abort logs it and goes on, a Delete returns it.
DeleteMessages(p) ==
  /\ pc[p] = "a_del"
  /\ \/ /\ docs' = docs \ msgs[p]
        /\ Goto(p, "a_row")
        /\ UNCHANGED <<delFailed, localVars, workVars>>
     \/ /\ msgs[p] # {}
        /\ delFailed' = TRUE
        /\ IF want[p] = "none"
             THEN End(p)
             ELSE Goto(p, "a_set") /\ UNCHANGED <<localVars, workVars>>
        /\ UNCHANGED docs
  /\ UNCHANGED <<jobVars, fileVars, posted, crashes>>

\* DeleteFile; the segment rows go with the file row.
DeleteFile(p) ==
  /\ pc[p] = "a_row"
  /\ file' = "absent"
  /\ rows' = [i \in Segments |-> 0]
  /\ IF want[p] = "none"
       THEN End(p)
       ELSE Goto(p, "a_set") /\ UNCHANGED <<localVars, workVars>>
  /\ UNCHANGED <<jobVars, channelVars, delFailed, crashes>>

\* SetJobStatus(failed or cancelled), whatever the status is by now.
AbortSet(p) ==
  /\ pc[p] = "a_set"
  /\ status' = want[p]
  /\ End(p)
  /\ UNCHANGED <<source, mask, uploaded, fileVars, channelVars, delFailed, crashes>>

\* The caller of Complete, CancelUpload, Abort or a deletion hangs up: its next
\* database or Telegram call fails and the rest of it does not happen.
Abandon(p) ==
  /\ pc[p] \in CompleteSteps \cup {"a_read", "a_del", "a_row", "a_set"}
  /\ End(p)
  /\ UNCHANGED <<jobVars, fileVars, channelVars, delFailed, crashes>>

------------------------------------------------------------------------------
\* The server stops and starts again: what is in memory is gone.
Crash ==
  /\ crashes < MaxCrashes
  /\ crashes' = crashes + 1
  /\ watch' = {} /\ dead' = {} /\ running' = FALSE
  /\ pc' = [p \in Procs |-> "idle"]
  /\ todo' = [p \in Procs |-> {}]
  /\ doc' = [p \in Procs |-> 0]
  /\ msgs' = [p \in Procs |-> {}]
  /\ seen' = [p \in Procs |-> "none"]
  /\ want' = [p \in Procs |-> "none"]
  /\ UNCHANGED <<jobVars, fileVars, channelVars, delFailed>>

PutStep(p) ==
  \/ Watch(p) \/ Admit(p) \/ PutCheck(p) \/ PutStart(p)
  \/ Upload(p) \/ UpsertSegment(p) \/ MarkSegmentDone(p)

CompleteStep(p) == CompleteRead(p) \/ CompleteFile(p) \/ CompleteStatus(p)

AbortStep(p) ==
  \/ StopUploadWork(p, "a_stop", "a_read") \/ AbortRead(p)
  \/ DeleteMessages(p) \/ DeleteFile(p) \/ AbortSet(p)

FailStep(p) == AbortAfterFailure(p) \/ AbortStep(p)

StreamStep(s) == StreamQueue(s) \/ PutStep(s) \/ CompleteStep(s) \/ FailStep(s)

WorkerStep(w) ==
  \/ Schedule(w) \/ WorkerFile(w) \/ PutStep(w)
  \/ CompleteStep(w) \/ CompleteLoad(w) \/ FailStep(w)

CancelStep(k) ==
  StopUploadWork(k, "k_stop", "k_wait") \/ WaitUploadWork(k) \/ Decide(k) \/ AbortStep(k)

DeleteStep(d) == DeleteMessages(d) \/ DeleteFile(d)

Next ==
  \/ BeginFile \/ BeginJob \/ BeginRollback \/ Crash
  \/ \E r \in Requests : PutStep(r) \/ HangUp(r) \/ \E i \in Segments : HandlePut(r, i)
  \/ \E s \in Streams : StreamStep(s) \/ HangUp(s)
  \/ \E w \in Workers : Resume(w) \/ WorkerStep(w)
  \/ \E c \in Completers : StartComplete(c) \/ CompleteStep(c) \/ Abandon(c)
  \/ \E k \in Cancellers : StartCancel(k) \/ CancelStep(k) \/ Abandon(k)
  \/ \E a \in Aborters : PluginAbort(a) \/ AbortStep(a) \/ Abandon(a)
  \/ \E d \in Deleters : StartDelete(d) \/ DeleteStep(d) \/ Abandon(d)

\* A goroutine that can take a step takes it, and Telegram becoming ready after
\* a restart calls ResumeRemotes.  Clients owe nothing.
Fairness ==
  /\ WF_vars(BeginJob \/ BeginRollback)
  /\ \A w \in Workers : WF_vars(WorkerStep(w)) /\ WF_vars(crashes > 0 /\ Resume(w))
  /\ \A p \in Requests \cup Streams : WF_vars(StreamStep(p))
  /\ \A k \in Cancellers : WF_vars(CancelStep(k))

Spec == Init /\ [][Next]_vars

FairSpec == Spec /\ Fairness

------------------------------------------------------------------------------
TypeOK ==
  /\ source \in Sources
  /\ status \in Statuses
  /\ mask \subseteq Segments
  /\ uploaded \in 0..SegmentCount
  /\ file \in {"absent", "pending", "complete"}
  /\ rows \in [Segments -> 0..MaxDocs]
  /\ posted \in 0..MaxDocs
  /\ docs \subseteq 1..posted
  /\ watch \subseteq Putters
  /\ dead \subseteq Putters
  /\ running \in BOOLEAN
  /\ pc \in [Procs -> Steps]
  /\ todo \in [Procs -> SUBSET Segments]
  /\ doc \in [Procs -> 0..MaxDocs]
  /\ msgs \in [Procs -> SUBSET (1..MaxDocs)]
  /\ seen \in [Procs -> Statuses]
  /\ want \in [Procs -> {"none"} \cup Aborted]
  /\ delFailed \in BOOLEAN
  /\ crashes \in 0..MaxCrashes

\* The progress shown to the user is the bytes of distinct landed segments, even
\* when two requests store the same segment at once (MarkSegmentDone).
BytesMatchMask == uploaded = Cardinality(mask)

\* A segment counts as done only when the file knows where it is stored: as long
\* as the file row exists, every done segment has its row, and a file shown as
\* complete has them all (PutSegment's order, Complete's check).
DoneIsStored ==
  /\ file # "absent" => \A i \in mask : rows[i] # 0
  /\ file = "complete" => Done

\* An aborted job keeps its file row, and so the name it reserved, only if
\* Telegram refused to delete its documents (Abort cleans up before it records).
AbortCleansUp == (status \in Aborted /\ file # "absent") => delFailed

\* A stopped transfer never reads as live again: what is still unwinding cannot
\* put the row back to pending or running (SetJobStatusIf, MarkSegmentDone).
NeverRevived == [][(status \in Aborted) => (status' \notin {"pending", "running"})]_vars

\* However often ResumeRemotes runs, one goroutine at most works on the job.
OneWorker ==
  \A v, w \in Workers : (pc[v] \notin {"idle", "schedule"} /\ pc[w] \notin {"idle", "schedule"}) => v = w

\* An upload job tells the truth about itself: its progress is that of distinct
\* segments, what it calls done is stored, and one goroutine works on it, by
\* whatever requests, workers and restarts it is driven (the invariants above).
UploadSound == TypeOK /\ BytesMatchMask /\ DoneIsStored /\ OneWorker

\* A server-side transfer ends: its job reaches a final status, through
\* restarts, lost answers and cancellations.
TransferEnds == (source = "remote" /\ status \in {"pending", "running"}) ~> (status \in Terminal)

------------------------------------------------------------------------------
(* What comments of the code say, and the code does not do.                *)

\* "a transfer that has already stored its file is refused rather than deleted"
\* (CancelUpload): with nobody deleting files, a complete file stays.
FinishedFileKept == [][file = "complete" => file' = "complete"]_vars

\* "Refusing the transition is what makes "cancelled" stick" (SetJobStatusIf).
CancelledSticks == [][status = "cancelled" => status' = "cancelled"]_vars

\* "by the time Abort deletes the file row there is nothing still trying to
\* store segments into it" (CancelUpload): whoever is storing a segment when
\* the row is about to go has at least been interrupted.
NobodyStoresAtDelete ==
  \A k \in Cancellers, p \in Putters :
    (pc[k] = "a_row" /\ pc[p] \in {"upload", "record"}) => p \in dead

\* "a crash leaves something the transfer panel can show and resume" (Begin): the
\* file of a server-side upload does not stay pending for ever, unless Telegram
\* refused to delete what an abort wanted gone.
PendingFileSettles ==
  (source = "remote" /\ file = "pending" /\ status # "none") ~> (file # "pending" \/ delFailed)

\* "Leave a terminal history row and remove its pending file if admission is
\* cancelled or fails" (UploadStream): a stream does not leave its job pending.
NoPlaceholder == (source = "webdav" /\ status = "pending") ~> (status # "pending")
==============================================================================
