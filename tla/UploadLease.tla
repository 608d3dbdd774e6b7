------------------------------ MODULE UploadLease ------------------------------
(***************************************************************************)
(* The segment requests of one browser upload share one task slot          *)
(* (internal/drive/limiter.go, AcquireUploadJob, uploadRequestRelease and  *)
(* ReleaseUploadJob) as handlePutSegment, Complete and Abort use them      *)
(* (internal/api/upload.go, internal/drive/upload.go).  One step is one    *)
(* critical section of uploadJobsMu, one select or one write of the job    *)
(* row; a slot taken out of a lease under the mutex is returned after it.  *)
(***************************************************************************)
EXTENDS Integers, FiniteSets

CONSTANTS
  Writers,      \* segment requests of the job
  Closers,      \* Complete and Abort calls for the job
  SegmentCount, \* segments of the file
  MaxLeases     \* bound: leases created for the job

ASSUME WritersAssumption == IsFiniteSet(Writers)
ASSUME ClosersAssumption == Writers \cap Closers = {}
ASSUME SegmentCountAssumption == SegmentCount \in Nat \ {0}
ASSUME MaxLeasesAssumption == MaxLeases \in Nat

VARIABLES
  current,      \* uploadJobs[job]: a lease's number, 0 for none
  created,      \* number of leases made so far
  slot,         \* per lease: where its task slot is, see SlotStates
  writers,      \* per lease: uploadJobLease.active
  closed,       \* leases with uploadJobLease.closed set
  actual,       \* per lease: bytes setActual left in its quota reservation
  charged,      \* bytes committed to the account's daily usage
  uploaded,     \* upload_jobs.uploaded_bytes, in segments
  status,       \* upload_jobs.status: live (pending or running), complete or aborted
  pc,           \* per process: its next step
  mine          \* per request: the lease it is in or waits for

leaseVars == <<current, created, slot, writers, closed, actual, charged, uploaded, status, pc, mine>>
jobVars == <<uploaded, status>>

Leases == 1..MaxLeases
Procs == Writers \cup Closers

\* unmade; queued: leaseUpload has not returned, ready is open; failed: acquireErr
\* is set; owned: gateRelease is set; returning: it was taken out of the lease
\* and is about to be called; returned: it has been called.
SlotStates == {"unmade", "queued", "failed", "owned", "returning", "returned"}

Steps == {"idle", "enter", "creating", "joining", "relock", "start", "put",
          "look", "closing", "releasing"}

LeaseInit ==
  /\ current = 0 /\ created = 0
  /\ slot = [l \in Leases |-> "unmade"]
  /\ writers = [l \in Leases |-> 0]
  /\ closed = {}
  /\ actual = [l \in Leases |-> 0]
  /\ charged = 0 /\ uploaded = 0 /\ status = "live"
  /\ pc = [p \in Procs |-> "idle"]
  /\ mine = [r \in Writers |-> 0]

Goto(p, step) == pc' = [pc EXCEPT ![p] = step]
Holders(l) == {r \in Writers : mine[r] = l /\ pc[r] \in {"start", "put", "look", "closing", "releasing"}}

------------------------------------------------------------------------------
\* handlePutSegment has read the job and found its segment missing.
HandlePut(r) ==
  /\ pc[r] = "idle" /\ uploaded < SegmentCount
  /\ Goto(r, "enter")
  /\ UNCHANGED <<current, created, slot, writers, closed, actual, charged, jobVars, mine>>

\* AcquireUploadJob's first critical section: a closed lease refuses, an open
\* one is joined, otherwise a new one is queued.
Enter(r) ==
  /\ pc[r] = "enter"
  /\ \/ /\ current # 0 /\ current \in closed
        /\ Goto(r, "idle")
        /\ UNCHANGED <<current, created, slot, mine>>
     \/ /\ current # 0 /\ current \notin closed
        /\ Goto(r, "joining")
        /\ mine' = [mine EXCEPT ![r] = current]
        /\ UNCHANGED <<current, created, slot>>
     \/ /\ current = 0 /\ created < MaxLeases
        /\ created' = created + 1
        /\ current' = created + 1
        /\ slot' = [slot EXCEPT ![created + 1] = "queued"]
        /\ mine' = [mine EXCEPT ![r] = created + 1]
        /\ Goto(r, "creating")
  /\ UNCHANGED <<writers, closed, actual, charged, jobVars>>

\* leaseUpload returns: a slot for a lease that is still open, a slot that comes
\* too late and is returned uncharged, or an error (the lease was cancelled, the
\* browser left, no account).
Created(r) ==
  LET l == mine[r] IN
  /\ pc[r] = "creating"
  /\ \/ /\ l \notin closed
        /\ slot' = [slot EXCEPT ![l] = "owned"]
        /\ writers' = [writers EXCEPT ![l] = 1]
        /\ Goto(r, "start")
        /\ UNCHANGED <<current, mine>>
     \/ /\ \/ l \in closed /\ slot' = [slot EXCEPT ![l] = "returning"]
           \/ slot' = [slot EXCEPT ![l] = "failed"]
        /\ current' = IF current = l THEN 0 ELSE current
        /\ Goto(r, "idle")
        /\ mine' = [mine EXCEPT ![r] = 0]
        /\ UNCHANGED writers
  /\ UNCHANGED <<created, closed, actual, charged, jobVars>>

\* A joiner's select: ready was closed, or its own context is done.
JoinWait(r) ==
  /\ pc[r] = "joining"
  /\ \/ /\ slot[mine[r]] # "queued"
        /\ Goto(r, "relock") /\ UNCHANGED mine
     \/ /\ Goto(r, "idle")
        /\ mine' = [mine EXCEPT ![r] = 0]
  /\ UNCHANGED <<current, created, slot, writers, closed, actual, charged, jobVars>>

\* The joiner finds acquireErr or the lease closed.
Refused(l) == l \in closed \/ slot[l] \in {"failed", "returning"}

\* The joiner's second critical section.
Join(r) ==
  LET l == mine[r] IN
  /\ pc[r] = "relock"
  /\ IF Refused(l)
       THEN /\ Goto(r, "idle")
            /\ mine' = [mine EXCEPT ![r] = 0]
            /\ UNCHANGED writers
       ELSE /\ writers' = [writers EXCEPT ![l] = @ + 1]
            /\ Goto(r, "start")
            /\ UNCHANGED mine
  /\ UNCHANGED <<current, created, slot, closed, actual, charged, jobVars>>

------------------------------------------------------------------------------
\* SetJobStatusIf(running): a job that is over, or an error, closes the lease.
Start(r) ==
  /\ pc[r] = "start"
  /\ \/ status = "live" /\ Goto(r, "put")
     \/ Goto(r, "closing")
  /\ UNCHANGED <<current, created, slot, writers, closed, actual, charged, jobVars, mine>>

\* PutSegment: the segment lands and is counted, the last one completes the job;
\* it landed before and is not counted again; or it fails, which closes the lease.
Put(r) ==
  /\ pc[r] = "put"
  /\ \/ /\ status # "aborted" /\ uploaded < SegmentCount
        /\ uploaded' = uploaded + 1
        /\ status' = IF uploaded + 1 = SegmentCount THEN "complete" ELSE "live"
        /\ Goto(r, "look")
     \/ status # "aborted" /\ Goto(r, "look") /\ UNCHANGED jobVars
     \/ Goto(r, "closing") /\ UNCHANGED jobVars
  /\ UNCHANGED <<current, created, slot, writers, closed, actual, charged, mine>>

\* The handler reads the job back: a complete one, or an error, closes the lease.
Look(r) ==
  /\ pc[r] = "look"
  /\ \/ status # "complete" /\ Goto(r, "releasing")
     \/ Goto(r, "closing")
  /\ UNCHANGED <<current, created, slot, writers, closed, actual, charged, jobVars, mine>>

\* Complete has recorded its status, Abort has or could not; either then calls
\* ReleaseUploadJob.
CloseJob(c) ==
  /\ pc[c] = "idle"
  /\ \/ status' = "aborted"
     \/ uploaded = SegmentCount /\ status' = "complete"
     \/ UNCHANGED status
  /\ Goto(c, "closing")
  /\ UNCHANGED <<current, created, slot, writers, closed, actual, charged, uploaded, mine>>

\* The slot is taken away although requests are still writing.
Idle_Always(l) == TRUE

\* No request of the lease is running.
Idle(l) == writers[l] = 0

\* ReleaseUploadJob: closes whatever lease the job has now, sets what its
\* reservation will be charged, and takes the slot out if nobody is using it.
ReleaseUploadJob(p) ==
  /\ pc[p] = "closing"
  /\ IF current = 0
       THEN UNCHANGED <<current, slot, closed, actual>>
       ELSE /\ closed' = closed \cup {current}
            /\ actual' = [actual EXCEPT ![current] =
                            IF slot[current] # "owned" THEN @ ELSE IF status = "live" THEN 0 ELSE uploaded]
            /\ IF Idle(current) /\ slot[current] = "owned"
                 THEN /\ slot' = [slot EXCEPT ![current] = "returning"]
                      /\ current' = 0
                 ELSE UNCHANGED <<slot, current>>
  /\ Goto(p, IF p \in Closers THEN "idle" ELSE "releasing")
  /\ UNCHANGED <<created, writers, charged, jobVars, mine>>

\* The function of uploadRequestRelease, deferred by handlePutSegment: the last
\* request out of a closed lease takes the slot with it.
RequestRelease(r) ==
  LET l == mine[r]
      left == writers[l] - 1
      last == l \in closed /\ left = 0
  IN
  /\ pc[r] = "releasing"
  /\ writers' = [writers EXCEPT ![l] = left]
  /\ current' = IF last /\ current = l THEN 0 ELSE current
  /\ slot' = IF last /\ slot[l] = "owned" THEN [slot EXCEPT ![l] = "returning"] ELSE slot
  /\ Goto(r, "idle")
  /\ mine' = [mine EXCEPT ![r] = 0]
  /\ UNCHANGED <<created, closed, actual, charged, jobVars>>

\* A reservation that nothing was charged to keeps its slot.
ReturnSlot_ChargedOnly(l) ==
  /\ slot[l] = "returning" /\ actual[l] > 0
  /\ slot' = [slot EXCEPT ![l] = "returned"]
  /\ charged' = charged + actual[l]
  /\ UNCHANGED <<current, created, writers, closed, actual, jobVars, pc, mine>>

\* The release function of the task: the reservation is committed.
ReturnSlot(l) ==
  /\ slot[l] = "returning"
  /\ slot' = [slot EXCEPT ![l] = "returned"]
  /\ charged' = charged + actual[l]
  /\ UNCHANGED <<current, created, writers, closed, actual, jobVars, pc, mine>>

RequestStep(r) ==
  \/ Enter(r) \/ Created(r) \/ JoinWait(r) \/ Join(r) \/ Start(r) \/ Put(r) \/ Look(r)
  \/ ReleaseUploadJob(r) \/ RequestRelease(r)

LeaseNext ==
  \/ \E r \in Writers : HandlePut(r) \/ RequestStep(r)
  \/ \E c \in Closers : CloseJob(c) \/ ReleaseUploadJob(c)
  \/ \E l \in Leases : ReturnSlot(l)

\* Requests that were accepted run to their end, closers too.
LeaseFairness ==
  /\ \A r \in Writers : WF_leaseVars(RequestStep(r))
  /\ \A c \in Closers : WF_leaseVars(ReleaseUploadJob(c))
  /\ \A l \in Leases : WF_leaseVars(ReturnSlot(l))

LeaseSpec == LeaseInit /\ [][LeaseNext]_leaseVars

LeaseFairSpec == LeaseSpec /\ LeaseFairness

------------------------------------------------------------------------------
LeaseTypeOK ==
  /\ current \in 0..created
  /\ created \in 0..MaxLeases
  /\ slot \in [Leases -> SlotStates]
  /\ writers \in [Leases -> 0..Cardinality(Writers)]
  /\ closed \subseteq 1..created
  /\ actual \in [Leases -> 0..SegmentCount]
  /\ charged \in Nat
  /\ uploaded \in 0..SegmentCount
  /\ status \in {"live", "complete", "aborted"}
  /\ pc \in [Procs -> Steps]
  /\ mine \in [Writers -> 0..created]

\* The task slot is not returned underneath a request that is still writing
\* (uploadJobLease's active count), whoever closed the job meanwhile.
SlotUnderWriter == \A r \in Writers : pc[r] \in {"start", "put", "look"} => slot[mine[r]] = "owned"

\* One upload never uses two slots: a lease out of the map has given its up.
OneLeaseOpen == \A l \in Leases : slot[l] \in {"queued", "owned"} => l = current

\* A closed lease stays in the map, where it refuses retries, only while a
\* request is in it or its creator has not come back: none blocks the job.
NoStrandedLease ==
  (current # 0 /\ current \in closed) => (writers[current] > 0 \/ slot[current] = "queued")

\* The lease of a browser upload is sound whoever closes it and whenever: its
\* slot stays under its writers, it is the only one of the job, and a closed one
\* leaves the map (the four invariants above).
LeaseSound == LeaseTypeOK /\ SlotUnderWriter /\ OneLeaseOpen /\ NoStrandedLease

\* The slot of a closed lease comes back.
ClosedSlotReturns ==
  \A l \in Leases : (l \in closed) ~> (slot[l] \in {"failed", "returned"})

------------------------------------------------------------------------------
\* What a comment of the code says, and the code does not do: "a later retry
\* must not pay for the same earlier segments twice" (ReleaseUploadJob).
PaidOnce == charged <= uploaded
==============================================================================
