---------------------------- MODULE StagedDownload ----------------------------
(***************************************************************************)
(* Staged downloads: files assembled on the server's disk in a bounded     *)
(* cache (internal/drive/download.go, internal/database/downloads.go): the *)
(* rows of download_jobs, what each job has on disk, its worker goroutine, *)
(* and the requests and sweeps that work on the same rows.                 *)
(*                                                                         *)
(* One step is one database statement, one removal or creation on disk, or *)
(* one critical section.  removeStagedFile is one step.  A database call   *)
(* with a context that is done returns its error and changes nothing.  The *)
(* order of eviction (last_used_at) is left open.                          *)
(***************************************************************************)
EXTENDS Integers, FiniteSets, FiniteSetsExt

CONSTANTS
  Files,        \* files that can be staged
  Size,         \* their sizes
  Limits,       \* values of CacheLimit in the settings
  Starters,     \* StartStaged calls
  Cancellers,   \* CancelStaged calls
  Deleters,     \* DeleteStaged and PurgeDownloadHistory
  Readers,      \* StagedFile calls
  Sweepers,     \* SweepCache: one maintenance goroutine calls it, or none here
  Purgers,      \* PurgeCache calls
  MaxJobs,      \* bound: rows inserted
  MaxResizes,   \* bound: changes of the limit
  MaxCrashes,   \* bound: restarts of the server
  MaxResumes    \* bound: accounts that become ready while the server is up

ASSUME FilesAssumption == IsFiniteSet(Files) /\ Files # {}
ASSUME SizeAssumption == Size \in [Files -> Nat]
ASSUME LimitsAssumption == Limits \subseteq Nat \ {0} /\ Limits # {}
ASSUME SweepersAssumption == \A v, w \in Sweepers : v = w
ASSUME BoundsAssumption == \A b \in {MaxJobs, MaxResizes, MaxCrashes, MaxResumes} : b \in Nat

VARIABLES
  created,   \* rows inserted so far; job ids are 1..created
  fileOf,    \* per job: download_jobs.file_id
  status,    \* per job: download_jobs.status; "gone" without a row
  path,      \* jobs with a cache_path
  expired,   \* jobs whose expires_at is over
  disk,      \* per job: what its cache directory holds
  runs,      \* stageRuns
  reg,       \* stageCancels
  dead,      \* jobs whose worker's context is cancelled
  work,      \* per job: the next step of its worker
  mutex,     \* who holds stageMu; "free" for nobody
  pc,        \* per request: its next step
  job,       \* per request: the job it is dealing with, 0 for none
  file,      \* per starter: the file it was asked for
  list,      \* per request: the rows it has read and not dealt with
  used,      \* per starter or sweeper: the usage it has computed
  cap,       \* per starter or sweeper: the limit it has read
  late,      \* rows the sweeper has read as past their expires_at
  trim,      \* usable rows the sweeper has read
  resuming,  \* rows ResumeStaged has read and not dealt with
  limit,     \* CacheLimit
  resizes, crashes, resumes

vars == <<created, fileOf, status, path, expired, disk, runs, reg, dead, work, mutex, pc,
          job, file, list, used, cap, late, trim, resuming, limit,
          resizes, crashes, resumes>>
rowVars == <<created, fileOf, status, path, expired>>
workerVars == <<runs, reg, dead, work>>
localVars == <<job, file, list, used, cap>>
sweepVars == <<late, trim, resuming>>
callVars == <<mutex, pc, localVars, sweepVars>>
envVars == <<limit, resizes, crashes, resumes>>

Jobs == 1..MaxJobs
Calls == Starters \cup Cancellers \cup Deleters \cup Readers \cup Sweepers \cup Purgers
ASSUME FreeAssumption == "free" \notin Calls
Live == {"pending", "running"}
Terminal == {"ready", "failed", "cancelled", "expired"}
DiskStates == {"none", "dir", "part", "final"}
WorkerSteps == {"none", "register", "lease", "run", "mkdir", "dest", "create", "copy",
                "publish", "date", "ready", "cleanExit", "cleanFail", "fail", "failed"}
CallSteps == {"idle", "drop", "lock", "room", "candidates", "evict", "evictRow", "insert",
              "k_remove", "k_status", "k_path", "d_remove", "d_row",
              "x_remove", "x_path", "x_status",
              "w_usage", "w_next", "w_path", "w_status", "w_trim",
              "orphans", "p_next", "p_row", "p_list", "p_rest"}

Init ==
  /\ created = 0
  /\ fileOf \in [Jobs -> {CHOOSE f \in Files : TRUE}]
  /\ status = [j \in Jobs |-> "gone"]
  /\ path = {} /\ expired = {}
  /\ disk = [j \in Jobs |-> "none"]
  /\ runs = {} /\ reg = {} /\ dead = {}
  /\ work = [j \in Jobs |-> "none"]
  /\ mutex = "free"
  /\ pc = [p \in Calls |-> "idle"]
  /\ job = [p \in Calls |-> 0]
  /\ file \in [Calls -> {CHOOSE f \in Files : TRUE}]
  /\ list = [p \in Calls |-> {}]
  /\ used = [p \in Calls |-> 0]
  /\ cap = [p \in Calls |-> 0]
  /\ late = {} /\ trim = {} /\ resuming = {}
  /\ limit \in Limits /\ resizes = 0 /\ crashes = 0 /\ resumes = 0

------------------------------------------------------------------------------
(* The queries.                                                            *)

Row(j) == status[j] # "gone"
JobSize(j) == Size[fileOf[j]]

\* StagedDownloadFor: the newest usable copy.
Copies(f) == {j \in path : status[j] = "ready" /\ fileOf[j] = f /\ j \notin expired}

\* ActiveStagedFor.
Active(f) == {j \in Jobs : status[j] \in Live /\ fileOf[j] = f}

\* Only copies that exist are counted.
Counted_NoReservations == {j \in path : status[j] \in Terminal}

\* The rows CacheUsage adds up: reservations and whatever has a path.
Counted == {j \in Jobs : status[j] \in Live \/ (status[j] \in Terminal /\ j \in path)}

CacheUsage == SumFunction([j \in Counted |-> JobSize(j)])

Evictable == {j \in path : status[j] \in Terminal}

\* Only transfers that had begun are picked up.
Resumable_Running == {j \in Jobs : status[j] = "running"}

\* ResumableDownloads.
Resumable == {j \in Jobs : status[j] \in Live}

Less(n, j) == IF n >= JobSize(j) THEN n - JobSize(j) ELSE 0

------------------------------------------------------------------------------
Goto(p, step) == pc' = [pc EXCEPT ![p] = step]

\* p returns; stageMu is released when it holds it.
Return(p) ==
  /\ Goto(p, "idle")
  /\ job' = [job EXCEPT ![p] = 0]
  /\ list' = [list EXCEPT ![p] = {}]
  /\ used' = [used EXCEPT ![p] = 0]
  /\ cap' = [cap EXCEPT ![p] = 0]
  /\ mutex' = IF mutex = p THEN "free" ELSE mutex
  /\ UNCHANGED <<file, sweepVars>>

\* p goes on to another step, with the same locals.
Continue(p, step) == Goto(p, step) /\ UNCHANGED <<mutex, localVars, sweepVars>>

\* p goes on to another step to deal with job j.
TakeUp(p, j, step) ==
  /\ Goto(p, step)
  /\ job' = [job EXCEPT ![p] = j]
  /\ UNCHANGED <<mutex, file, list, used, cap, sweepVars>>

\* removeStagedFile: the copy, its partial and the directory.
RemoveStagedFile(p, from, to) ==
  /\ pc[p] = from
  /\ disk' = [disk EXCEPT ![job[p]] = "none"]
  /\ Continue(p, to)
  /\ UNCHANGED <<rowVars, workerVars, envVars>>

\* SetDownloadCache(j, "", 0); a row that is gone is an error nobody minds.
ClearPath(j) == path' = path \ {j} /\ expired' = expired \ {j}

\* DeleteDownload.
DeleteRow(j) == status' = [status EXCEPT ![j] = "gone"] /\ ClearPath(j)

\* scheduleStagedWorker.
Schedule(j) ==
  IF j \in runs
    THEN UNCHANGED <<runs, work>>
    ELSE runs' = runs \cup {j} /\ work' = [work EXCEPT ![j] = "register"]

------------------------------------------------------------------------------
(* StartStaged.                                                            *)

\* A file larger than the cache is refused, a copy on disk is the answer, a row
\* without its file is to be dropped; otherwise a transfer is needed.
StartStaged(s, f) ==
  /\ pc[s] = "idle" /\ created < MaxJobs
  /\ Size[f] <= limit
  /\ \/ Copies(f) = {} /\ Goto(s, "lock") /\ UNCHANGED job
     \/ /\ Copies(f) # {} /\ disk[Max(Copies(f))] # "final"
        /\ Goto(s, "drop")
        /\ job' = [job EXCEPT ![s] = Max(Copies(f))]
  /\ file' = [file EXCEPT ![s] = f]
  /\ UNCHANGED <<rowVars, disk, workerVars, mutex, list, used, cap, sweepVars, envVars>>

DropRow(s) ==
  /\ pc[s] = "drop"
  /\ DeleteRow(job[s])
  /\ TakeUp(s, 0, "lock")
  /\ UNCHANGED <<created, fileOf, disk, workerVars, envVars>>

\* Two requests for a file each start a transfer.
Joins_Never(f) == FALSE

\* Under stageMu: a transfer of the file that is under way is joined.
Joins(f) == Active(f) # {}

LockStage(s) ==
  /\ pc[s] = "lock" /\ mutex = "free"
  /\ IF Joins(file[s])
       THEN Return(s)
       ELSE mutex' = s /\ Goto(s, "room") /\ UNCHANGED <<localVars, sweepVars>>
  /\ UNCHANGED <<rowVars, disk, workerVars, envVars>>

Fits(s, n, lim) == n + Size[file[s]] <= lim

\* makeRoomFor: the limit and what is in use, then what may go.
Room(s) ==
  /\ pc[s] = "room"
  /\ used' = [used EXCEPT ![s] = CacheUsage]
  /\ cap' = [cap EXCEPT ![s] = limit]
  /\ Goto(s, IF Fits(s, CacheUsage, limit) THEN "insert" ELSE "candidates")
  /\ UNCHANGED <<mutex, job, file, list, sweepVars, rowVars, disk, workerVars, envVars>>

Candidates(s) ==
  /\ pc[s] = "candidates"
  /\ list' = [list EXCEPT ![s] = Evictable]
  /\ Goto(s, "evict")
  /\ UNCHANGED <<mutex, job, file, used, cap, sweepVars, rowVars, disk, workerVars, envVars>>

\* The eviction loop: it stops when the file fits or nothing is left (which is
\* ErrCacheFull), and removes the bytes of a row before the row.
Evict(s) ==
  /\ pc[s] = "evict"
  /\ \/ Fits(s, used[s], cap[s]) /\ Continue(s, "insert") /\ UNCHANGED disk
     \/ ~Fits(s, used[s], cap[s]) /\ list[s] = {} /\ Return(s) /\ UNCHANGED disk
     \/ /\ ~Fits(s, used[s], cap[s])
        /\ \E j \in list[s] :
             /\ disk' = [disk EXCEPT ![j] = "none"]
             /\ job' = [job EXCEPT ![s] = j]
             /\ list' = [list EXCEPT ![s] = @ \ {j}]
        /\ Goto(s, "evictRow")
        /\ UNCHANGED <<mutex, file, used, cap, sweepVars>>
  /\ UNCHANGED <<rowVars, workerVars, envVars>>

\* A row that somebody else deleted meanwhile frees nothing, nor does one whose
\* deletion fails because the caller has hung up.
EvictRow(s) ==
  LET j == job[s] IN
  /\ pc[s] = "evictRow"
  /\ \/ DeleteRow(j) /\ used' = [used EXCEPT ![s] = IF Row(j) THEN Less(@, j) ELSE @]
     \/ UNCHANGED <<status, path, expired, used>>
  /\ job' = [job EXCEPT ![s] = 0]
  /\ Goto(s, "evict")
  /\ UNCHANGED <<mutex, file, list, cap, sweepVars, created, fileOf, disk, workerVars, envVars>>

\* InsertDownload and scheduleStagedWorker, still under stageMu; or its error.
Insert(s) ==
  LET j == created + 1 IN
  /\ pc[s] = "insert"
  /\ \/ /\ created < MaxJobs
        /\ created' = j
        /\ fileOf' = [fileOf EXCEPT ![j] = file[s]]
        /\ status' = [status EXCEPT ![j] = "pending"]
        /\ Schedule(j)
     \/ UNCHANGED <<created, fileOf, status, runs, work>>
  /\ Return(s)
  /\ UNCHANGED <<path, expired, disk, reg, dead, envVars>>

------------------------------------------------------------------------------
(* runStaged, the worker of job j.                                         *)

Then(j, step) == work' = [work EXCEPT ![j] = step] /\ UNCHANGED <<runs, reg, dead>>

\* The deferred cancel and both deregistrations.
Exit(j) ==
  /\ work' = [work EXCEPT ![j] = "none"]
  /\ runs' = runs \ {j} /\ reg' = reg \ {j} /\ dead' = dead \ {j}

Register(j) ==
  /\ work[j] = "register"
  /\ reg' = reg \cup {j}
  /\ work' = [work EXCEPT ![j] = "lease"]
  /\ UNCHANGED <<runs, dead, rowVars, disk, callVars, envVars>>

\* leaseDownload: a slot (which may be granted as the context ends), or an error.
Lease(j) ==
  /\ work[j] = "lease"
  /\ Then(j, "run") \/ (j \in dead /\ Exit(j)) \/ (j \notin dead /\ Then(j, "fail"))
  /\ UNCHANGED <<rowVars, disk, callVars, envVars>>

\* SetDownloadStatusIf(running; pending, running).
Run(j) ==
  /\ work[j] = "run"
  /\ IF j \in dead \/ status[j] \notin Live
       THEN Exit(j) /\ UNCHANGED status
       ELSE status' = [status EXCEPT ![j] = "running"] /\ Then(j, "mkdir")
  /\ UNCHANGED <<created, fileOf, path, expired, disk, callVars, envVars>>

Mkdir(j) ==
  /\ work[j] = "mkdir"
  /\ \/ /\ disk' = [disk EXCEPT ![j] = IF @ = "none" THEN "dir" ELSE @]
        /\ Then(j, "dest")
     \/ Then(j, "fail") /\ UNCHANGED disk
  /\ UNCHANGED <<rowVars, callVars, envVars>>

\* The destination is recorded before bytes move.
Dest(j) ==
  /\ work[j] = "dest"
  /\ IF j \in dead \/ ~Row(j)
       THEN Then(j, "cleanFail") /\ UNCHANGED <<path, expired>>
       ELSE path' = path \cup {j} /\ expired' = expired \ {j} /\ Then(j, "create")
  /\ UNCHANGED <<created, fileOf, status, disk, callVars, envVars>>

\* A stale copy goes and the partial is created, if the directory is still there.
Create(j) ==
  /\ work[j] = "create"
  /\ \/ disk[j] # "none" /\ disk' = [disk EXCEPT ![j] = "part"] /\ Then(j, "copy")
     \/ Then(j, "cleanFail") /\ UNCHANGED disk
  /\ UNCHANGED <<rowVars, callVars, envVars>>

\* OpenFile and copyStaged, which looks at its context before every read.
Copy(j) ==
  /\ work[j] = "copy"
  /\ (j \notin dead /\ Then(j, "publish")) \/ Then(j, "cleanFail")
  /\ UNCHANGED <<rowVars, disk, callVars, envVars>>

\* The copy is announced without having got its name.
Publish_Skipped(j) ==
  /\ work[j] = "publish"
  /\ Then(j, "date")
  /\ UNCHANGED <<disk, rowVars, callVars, envVars>>

\* The rename; it fails when the partial has been removed meanwhile.
Publish(j) ==
  /\ work[j] = "publish"
  /\ \/ disk[j] = "part" /\ disk' = [disk EXCEPT ![j] = "final"] /\ Then(j, "date")
     \/ Then(j, "cleanFail") /\ UNCHANGED disk
  /\ UNCHANGED <<rowVars, callVars, envVars>>

\* SetDownloadCache with the expiry.
Date(j) ==
  /\ work[j] = "date"
  /\ IF j \in dead \/ ~Row(j)
       THEN Then(j, "cleanFail") /\ UNCHANGED <<path, expired>>
       ELSE path' = path \cup {j} /\ expired' = expired \ {j} /\ Then(j, "ready")
  /\ UNCHANGED <<created, fileOf, status, disk, callVars, envVars>>

\* SetDownloadStatusIf(ready; running); a job that was stopped leaves no bytes.
Ready(j) ==
  /\ work[j] = "ready"
  /\ IF j \notin dead /\ status[j] = "running"
       THEN status' = [status EXCEPT ![j] = "ready"] /\ Exit(j)
       ELSE Then(j, "cleanExit") /\ UNCHANGED status
  /\ UNCHANGED <<created, fileOf, path, expired, disk, callVars, envVars>>

\* The failure is reported with the partial still there.
Clean_Kept(j) ==
  /\ work[j] \in {"cleanExit", "cleanFail"}
  /\ IF work[j] = "cleanExit" THEN Exit(j) ELSE Then(j, "fail")
  /\ UNCHANGED <<disk, rowVars, callVars, envVars>>

\* removeStagedFile by the worker itself.
Clean(j) ==
  /\ work[j] \in {"cleanExit", "cleanFail"}
  /\ disk' = [disk EXCEPT ![j] = "none"]
  /\ IF work[j] = "cleanExit" THEN Exit(j) ELSE Then(j, "fail")
  /\ UNCHANGED <<rowVars, callVars, envVars>>

\* fail: silent when the context is done; else the path is cleared ...
Fail(j) ==
  /\ work[j] = "fail"
  /\ IF j \in dead
       THEN Exit(j) /\ UNCHANGED <<path, expired>>
       ELSE ClearPath(j) /\ Then(j, "failed")
  /\ UNCHANGED <<created, fileOf, status, disk, callVars, envVars>>

\* ... and SetDownloadStatusIf(failed; pending, running) made.
Failed(j) ==
  /\ work[j] = "failed"
  /\ status' = [status EXCEPT ![j] = IF @ \in Live THEN "failed" ELSE @]
  /\ Exit(j)
  /\ UNCHANGED <<created, fileOf, path, expired, disk, callVars, envVars>>

WorkerStep(j) ==
  \/ Register(j) \/ Lease(j) \/ Run(j) \/ Mkdir(j) \/ Dest(j) \/ Create(j) \/ Copy(j)
  \/ Publish(j) \/ Date(j) \/ Ready(j) \/ Clean(j) \/ Fail(j) \/ Failed(j)

------------------------------------------------------------------------------
(* CancelStaged, called by a request or by PurgeCache.                     *)

\* The row is there, and its worker is interrupted if it has registered.
Interrupt(j) ==
  /\ dead' = IF j \in reg THEN dead \cup {j} ELSE dead
  /\ UNCHANGED <<runs, reg, work>>

CancelStaged(k, j) ==
  /\ pc[k] = "idle" /\ Row(j)
  /\ Interrupt(j)
  /\ TakeUp(k, j, "k_remove")
  /\ UNCHANGED <<rowVars, disk, envVars>>

\* SetDownloadStatusIf(cancelled; pending, running, ready).
CancelStatus(k) ==
  LET j == job[k] IN
  /\ pc[k] = "k_status"
  /\ status' = [status EXCEPT ![j] = IF @ \in Live \cup {"ready"} THEN "cancelled" ELSE @]
  /\ Continue(k, "k_path")
  /\ UNCHANGED <<created, fileOf, path, expired, disk, workerVars, envVars>>

CancelPath(k) ==
  /\ pc[k] = "k_path"
  /\ ClearPath(job[k])
  /\ IF mutex = k THEN Continue(k, "p_row") ELSE Return(k)
  /\ UNCHANGED <<created, fileOf, status, disk, workerVars, envVars>>

\* The caller hangs up: its next database call fails.
Abandon(k) ==
  /\ pc[k] \in {"drop", "lock", "room", "candidates",
               "k_status", "k_path", "p_next", "p_row", "p_list", "orphans",
               "x_path", "x_status"} \/ (pc[k] = "d_row" /\ mutex # k)
  /\ Return(k)
  /\ UNCHANGED <<rowVars, disk, workerVars, envVars>>

------------------------------------------------------------------------------
(* Deleting rows that were read as finished.                               *)

\* DeleteStaged, for a row that was not live when it was read.
DeleteStaged(d, j) ==
  /\ pc[d] = "idle" /\ status[j] \in Terminal
  /\ Interrupt(j)
  /\ TakeUp(d, j, "d_remove")
  /\ UNCHANGED <<rowVars, disk, envVars>>

\* PurgeDownloadHistory: an old row that is no usable copy.
PurgeHistory(d, j) ==
  /\ pc[d] = "idle" /\ status[j] \in Terminal
  /\ ~(status[j] = "ready" /\ j \in path /\ j \notin expired)
  /\ TakeUp(d, j, "d_remove")
  /\ UNCHANGED <<rowVars, disk, workerVars, envVars>>

DeleteDownload(d) ==
  /\ pc[d] = "d_row"
  /\ DeleteRow(job[d])
  /\ IF mutex = d THEN TakeUp(d, 0, "p_rest") ELSE Return(d)
  /\ UNCHANGED <<created, fileOf, disk, workerVars, envVars>>

\* A purge whose caller has hung up goes on to the next row.
SkipRow(p) ==
  /\ pc[p] = "d_row" /\ mutex = p
  /\ TakeUp(p, 0, "p_rest")
  /\ UNCHANGED <<rowVars, disk, workerVars, envVars>>

------------------------------------------------------------------------------
(* StagedFile: a copy that has expired or is missing is written off.       *)

StagedFile(x, j) ==
  /\ pc[x] = "idle" /\ status[j] = "ready" /\ j \in path
  /\ j \in expired \/ disk[j] # "final"
  /\ TakeUp(x, j, "x_remove")
  /\ UNCHANGED <<rowVars, disk, workerVars, envVars>>

ExpirePath(x, from, to) ==
  /\ pc[x] = from
  /\ ClearPath(job[x])
  /\ Continue(x, to)
  /\ UNCHANGED <<created, fileOf, status, disk, workerVars, envVars>>

\* SetDownloadStatus(expired), whatever the status is by now.
ExpireStatus(x) ==
  LET j == job[x] IN
  /\ pc[x] = "x_status"
  /\ status' = [status EXCEPT ![j] = IF Row(j) THEN "expired" ELSE @]
  /\ Return(x)
  /\ UNCHANGED <<created, fileOf, path, expired, disk, workerVars, envVars>>

------------------------------------------------------------------------------
(* SweepCache, under stageMu, on the rows as it read them.                 *)

SweepCache(w) ==
  LET doomed == {j \in Evictable : j \in expired \/ status[j] # "ready"} IN
  /\ pc[w] = "idle" /\ mutex = "free"
  /\ mutex' = w
  /\ cap' = [cap EXCEPT ![w] = limit]
  /\ list' = [list EXCEPT ![w] = doomed]
  /\ late' = {j \in doomed : j \in expired /\ status[j] # "expired"}
  /\ trim' = Evictable \ doomed
  /\ Goto(w, "w_usage")
  /\ UNCHANGED <<job, file, used, resuming, rowVars, disk, workerVars, envVars>>

SweepUsage(w) ==
  /\ pc[w] = "w_usage"
  /\ used' = [used EXCEPT ![w] = CacheUsage]
  /\ Goto(w, "w_next")
  /\ UNCHANGED <<mutex, job, file, list, cap, sweepVars, rowVars, disk, workerVars, envVars>>

\* The next doomed row: its bytes go, then its path, and its status if it
\* expired; after them copies go until the cache is within its limit.
SweepNext(w) ==
  /\ pc[w] = "w_next"
  /\ \/ \E j \in list[w] :
          /\ job' = [job EXCEPT ![w] = j]
          /\ list' = [list EXCEPT ![w] = @ \ {j}]
          /\ used' = [used EXCEPT ![w] = Less(@, j)]
          /\ disk' = [disk EXCEPT ![j] = "none"]
          /\ Goto(w, "w_path")
          /\ UNCHANGED trim
     \/ /\ list[w] = {} /\ used[w] > cap[w]
        /\ \E j \in trim :
             /\ job' = [job EXCEPT ![w] = j]
             /\ trim' = trim \ {j}
             /\ disk' = [disk EXCEPT ![j] = "none"]
        /\ Goto(w, "w_trim")
        /\ UNCHANGED <<list, used>>
     \/ /\ list[w] = {} /\ (used[w] <= cap[w] \/ trim = {})
        /\ Goto(w, "orphans")
        /\ UNCHANGED <<job, list, used, trim, disk>>
  /\ UNCHANGED <<mutex, file, cap, late, resuming, rowVars, workerVars, envVars>>

SweepStatus(w) ==
  LET j == job[w] IN
  /\ pc[w] = "w_status"
  /\ status' = [status EXCEPT ![j] = IF j \in late /\ Row(j) THEN "expired" ELSE @]
  /\ TakeUp(w, 0, "w_next")
  /\ UNCHANGED <<created, fileOf, path, expired, disk, workerVars, envVars>>

SweepTrim(w) ==
  LET j == job[w] IN
  /\ pc[w] = "w_trim"
  /\ DeleteRow(j)
  /\ used' = [used EXCEPT ![w] = IF Row(j) THEN Less(@, j) ELSE @]
  /\ job' = [job EXCEPT ![w] = 0]
  /\ Goto(w, "w_next")
  /\ UNCHANGED <<mutex, file, list, cap, sweepVars, created, fileOf, disk, workerVars, envVars>>

\* removeOrphanCacheDirs, the end of a sweep and of a purge.
RemoveOrphans(p) ==
  /\ pc[p] = "orphans"
  /\ disk' = [j \in Jobs |-> IF Row(j) THEN disk[j] ELSE "none"]
  /\ Return(p)
  /\ UNCHANGED <<rowVars, workerVars, envVars>>

------------------------------------------------------------------------------
(* PurgeCache, under stageMu: cancel and delete what is live, delete the   *)
(* rest, then the orphans.                                                 *)

\* The purge does not wait for stageMu.
PurgeCache_NoLock(p) ==
  /\ pc[p] = "idle"
  /\ list' = [list EXCEPT ![p] = Resumable]
  /\ Goto(p, "p_next")
  /\ UNCHANGED <<mutex, job, file, used, cap, sweepVars, rowVars, disk, workerVars, envVars>>

PurgeCache(p) ==
  /\ pc[p] = "idle" /\ mutex = "free"
  /\ mutex' = p
  /\ list' = [list EXCEPT ![p] = Resumable]
  /\ Goto(p, "p_next")
  /\ UNCHANGED <<job, file, used, cap, sweepVars, rowVars, disk, workerVars, envVars>>

\* The next live row; CancelStaged returns an error when it is gone, which ends
\* the purge.
PurgeNext(p) ==
  /\ pc[p] = "p_next"
  /\ \/ \E j \in list[p] :
          /\ Row(j)
          /\ Interrupt(j)
          /\ job' = [job EXCEPT ![p] = j]
          /\ list' = [list EXCEPT ![p] = @ \ {j}]
          /\ Goto(p, "k_remove")
          /\ UNCHANGED <<mutex, file, used, cap, sweepVars>>
     \/ /\ \E j \in list[p] : ~Row(j)
        /\ Return(p) /\ UNCHANGED workerVars
     \/ /\ list[p] = {}
        /\ Continue(p, "p_list") /\ UNCHANGED workerVars
  /\ UNCHANGED <<rowVars, disk, envVars>>

PurgeRow(p) ==
  /\ pc[p] = "p_row"
  /\ DeleteRow(job[p])
  /\ TakeUp(p, 0, "p_next")
  /\ UNCHANGED <<created, fileOf, disk, workerVars, envVars>>

PurgeList(p) ==
  /\ pc[p] = "p_list"
  /\ list' = [list EXCEPT ![p] = Evictable]
  /\ Goto(p, "p_rest")
  /\ UNCHANGED <<mutex, job, file, used, cap, sweepVars, rowVars, disk, workerVars, envVars>>

PurgeRest(p) ==
  /\ pc[p] = "p_rest"
  /\ \/ /\ \E j \in list[p] :
             /\ job' = [job EXCEPT ![p] = j]
             /\ list' = [list EXCEPT ![p] = @ \ {j}]
        /\ Goto(p, "d_remove")
        /\ UNCHANGED <<mutex, file, used, cap, sweepVars>>
     \/ list[p] = {} /\ Continue(p, "orphans")
  /\ UNCHANGED <<rowVars, disk, workerVars, envVars>>

------------------------------------------------------------------------------
(* The world outside.                                                      *)

\* The time to live of a copy is over.
Expire(j) ==
  /\ j \in path \ expired /\ status[j] = "ready"
  /\ expired' = expired \cup {j}
  /\ UNCHANGED <<created, fileOf, status, path, disk, workerVars, callVars, envVars>>

SetLimit(n) ==
  /\ resizes < MaxResizes /\ n # limit
  /\ limit' = n /\ resizes' = resizes + 1
  /\ UNCHANGED <<rowVars, disk, workerVars, callVars, crashes, resumes>>

\* The server stops and starts again; rows and cache stay.
Crash ==
  /\ crashes < MaxCrashes
  /\ crashes' = crashes + 1 /\ resumes' = 0
  /\ runs' = {} /\ reg' = {} /\ dead' = {}
  /\ work' = [j \in Jobs |-> "none"]
  /\ mutex' = "free"
  /\ pc' = [p \in Calls |-> "idle"]
  /\ job' = [p \in Calls |-> 0]
  /\ list' = [p \in Calls |-> {}]
  /\ used' = [p \in Calls |-> 0]
  /\ cap' = [p \in Calls |-> 0]
  /\ late' = {} /\ trim' = {} /\ resuming' = {}
  /\ UNCHANGED <<file, rowVars, disk, limit, resizes>>

\* ResumeStaged, whenever an account becomes ready, lists the live rows ...
ResumeStaged ==
  /\ resuming = {} /\ resumes < MaxResumes
  /\ resumes' = resumes + 1
  /\ resuming' = Resumable
  /\ UNCHANGED <<rowVars, disk, workerVars, mutex, pc, localVars, late, trim,
                 limit, resizes, crashes>>

\* ... and gives each a worker unless it has one, or fails it, whatever its
\* status is by now, when its file cannot be loaded.
ResumeJob(j) ==
  /\ j \in resuming
  /\ resuming' = resuming \ {j}
  /\ \/ Schedule(j) /\ UNCHANGED status
     \/ /\ status' = [status EXCEPT ![j] = IF Row(j) THEN "failed" ELSE @]
        /\ UNCHANGED <<runs, work>>
  /\ UNCHANGED <<created, fileOf, path, expired, disk, reg, dead, mutex, pc, localVars, late,
                 trim, envVars>>

StartStep(s) ==
  DropRow(s) \/ LockStage(s) \/ Room(s) \/ Candidates(s) \/ Evict(s) \/ EvictRow(s) \/ Insert(s)

CancelStep(k) == RemoveStagedFile(k, "k_remove", "k_status") \/ CancelStatus(k) \/ CancelPath(k)

DeleteStep(d) == RemoveStagedFile(d, "d_remove", "d_row") \/ DeleteDownload(d)

ReadStep(x) ==
  \/ RemoveStagedFile(x, "x_remove", "x_path") \/ ExpirePath(x, "x_path", "x_status")
  \/ ExpireStatus(x)

SweepStep(w) ==
  \/ SweepUsage(w) \/ SweepNext(w) \/ ExpirePath(w, "w_path", "w_status")
  \/ SweepStatus(w) \/ SweepTrim(w) \/ RemoveOrphans(w)

PurgeStep(p) ==
  \/ PurgeNext(p) \/ CancelStep(p) \/ PurgeRow(p)
  \/ PurgeList(p) \/ PurgeRest(p) \/ DeleteStep(p) \/ SkipRow(p) \/ RemoveOrphans(p)

\* A step in which nobody but these calls and the server takes part.
NextOf(calls) ==
  \/ \E s \in Starters \cap calls : StartStep(s) \/ Abandon(s) \/ \E f \in Files : StartStaged(s, f)
  \/ \E k \in Cancellers \cap calls : CancelStep(k) \/ Abandon(k) \/ \E j \in Jobs : CancelStaged(k, j)
  \/ \E d \in Deleters \cap calls :
       DeleteStep(d) \/ Abandon(d) \/ \E j \in Jobs : DeleteStaged(d, j) \/ PurgeHistory(d, j)
  \/ \E x \in Readers \cap calls : ReadStep(x) \/ Abandon(x) \/ \E j \in Jobs : StagedFile(x, j)
  \/ \E w \in Sweepers \cap calls : SweepCache(w) \/ SweepStep(w)
  \/ \E p \in Purgers \cap calls : PurgeCache(p) \/ PurgeStep(p) \/ Abandon(p)
  \/ \E j \in Jobs : WorkerStep(j) \/ ResumeJob(j) \/ Expire(j)
  \/ ResumeStaged
  \/ \E n \in Limits : SetLimit(n)
  \/ Crash

Next == NextOf(Calls)

\* Goroutines run; the server, once it is up again, resumes what was live.
Fairness ==
  /\ \A j \in Jobs : WF_vars(WorkerStep(j)) /\ WF_vars(ResumeJob(j))
  /\ WF_vars(crashes > 0 /\ ResumeStaged)
  /\ \A p \in Calls : WF_vars(StartStep(p) \/ CancelStep(p) \/ DeleteStep(p) \/ ReadStep(p)
                              \/ SweepStep(p) \/ PurgeStep(p))

Spec == Init /\ [][Next]_vars

FairSpec == Spec /\ Fairness

------------------------------------------------------------------------------
TypeOK ==
  /\ created \in 0..MaxJobs
  /\ fileOf \in [Jobs -> Files]
  /\ status \in [Jobs -> {"gone"} \cup Live \cup Terminal]
  /\ path \subseteq 1..created
  /\ expired \subseteq path
  /\ disk \in [Jobs -> DiskStates]
  /\ reg \subseteq runs /\ dead \subseteq reg
  /\ runs = {j \in Jobs : work[j] # "none"}
  /\ work \in [Jobs -> WorkerSteps]
  /\ mutex \in Calls \cup {"free"}
  /\ pc \in [Calls -> CallSteps]
  /\ job \in [Calls -> 0..created]
  /\ file \in [Calls -> Files]
  /\ list \in [Calls -> SUBSET Jobs]
  /\ used \in [Calls -> Nat]
  /\ cap \in [Calls -> Limits \cup {0}]
  /\ late \subseteq Jobs /\ trim \subseteq Jobs /\ resuming \subseteq Jobs
  /\ limit \in Limits
  /\ resizes \in 0..MaxResizes
  /\ crashes \in 0..MaxCrashes
  /\ resumes \in 0..MaxResumes

\* What transfers and the copies they have left occupy together.
Occupied ==
  LET held == {j \in Jobs : status[j] \in Live \/ (status[j] = "ready" /\ disk[j] = "final")}
  IN SumFunction([j \in held |-> JobSize(j)])

\* A transfer starts only if it, the other transfers and the copies that stay
\* fit in the cache: two requests never count on the same free space, whatever
\* finishes, fails, expires or is deleted while one of them makes room
\* (makeRoomFor).  A cancellation can break it: see RoomKept in MCStaged.
StartsFit == \A s \in Starters : (pc[s] = "insert" /\ created' > created) => Occupied' <= cap[s]
ReservationsFit == [][StartsFit]_vars

\* Two requests for a file wait on one transfer (ActiveStagedFor under stageMu).
OneTransferPerFile ==
  \A i, j \in Jobs : (status[i] \in Live /\ status[j] \in Live /\ fileOf[i] = fileOf[j]) => i = j

\* A half-written file is never taken for a complete one: a row that says ready
\* has its whole file on disk, or none (which StagedFile and StartStaged notice),
\* through resumed workers and crashes (the partial name and the rename).
ReadyIsWhole == \A j \in Jobs : status[j] = "ready" => disk[j] \in {"none", "final"}

\* What a request is told about a staged file is true: one transfer per file, and
\* a copy that is whole (the two invariants above), in a well-typed state.
StagedSound == TypeOK /\ OneTransferPerFile /\ ReadyIsWhole

\* Nobody is working on job j.
Quiet(j) == work[j] = "none" /\ \A p \in Calls : job[p] # j

\* Bytes of a job that was not cancelled can be found again: when everybody is
\* done with it they are removed, unless its row still has their path, which is
\* what every sweep goes by (see CancelRemoves for a cancelled one).
NoLostBytes ==
  \A j \in Jobs :
    (status[j] \in Terminal \ {"cancelled"} /\ j \notin path /\ Quiet(j)) => disk[j] = "none"

\* A purge that gets to its end leaves no transfer under way and no copy: nothing
\* is inserted behind its back, and what finishes while it runs goes too.
PurgeEmpties ==
  [][\A p \in Purgers : RemoveOrphans(p) =>
       \A j \in Jobs : status[j] \notin Live /\ (status[j] = "ready" => disk[j] = "none")]_vars

\* A transfer ends, through failures and restarts.
StagedEnds == \A j \in Jobs : (status[j] \in Live) ~> (status[j] \notin Live)

------------------------------------------------------------------------------
(* What comments of the code say, and the code does not do.                *)

\* "Two people asking for the same file get one transfer: the second joins the
\* first rather than pulling the same bytes out of Telegram twice" (StartStaged):
\* no transfer is started with a usable copy in the cache.
CopyReused ==
  [][\A f \in Files :
       (created' > created /\ fileOf'[created'] = f) =>
         \A j \in Copies(f) : disk[j] # "final"]_vars

\* "CancelStaged removes the published path and marks the row cancelled"
\* (runStaged, of a cancellation that follows the ready status): when everybody
\* is done with a cancelled job, none of its bytes are left.
CancelRemoves == \A j \in Jobs : (status[j] = "cancelled" /\ Quiet(j)) => disk[j] = "none"

\* "A failed worker has already removed its bytes" (runStaged, where the path of
\* a failed job is cleared): nothing is left on disk that its row has no path to.
FailureRemoves ==
  \A j \in Jobs : (status[j] = "failed" /\ j \notin path /\ Quiet(j)) => disk[j] = "none"

\* "A cancelled job already has its status set by CancelStaged" (runStaged, where
\* an interrupted worker leaves without a word): without a restart, a row that is
\* live has somebody working on it.
NoRowStranded == \A j \in Jobs : status[j] \in Live => ~Quiet(j)
==============================================================================
