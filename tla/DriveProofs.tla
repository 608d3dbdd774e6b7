----------------------------- MODULE DriveProofs -----------------------------
(***************************************************************************)
(* Proofs about two components of internal/drive.  The first part is about *)
(* UploadJob, for every set of requests, streams, workers and callers,     *)
(* every number of segments, documents and restarts; the second about      *)
(* Tree, for every set of names and every number of directories, files,    *)
(* segments, refreshes and faults, with one request at a time.             *)
(***************************************************************************)
EXTENDS UploadJob, Tree, SumLemmas, SequenceTheorems, TLAPS


\* TypeOK in two parts: what the database and the channel hold, and what the
\* goroutines hold.
DataTyped ==
  /\ source \in Sources /\ status \in Statuses
  /\ mask \subseteq Segments /\ uploaded \in 0..SegmentCount
  /\ file \in {"absent", "pending", "complete"} /\ rows \in [Segments -> 0..MaxDocs]
  /\ posted \in 0..MaxDocs /\ docs \subseteq 1..posted
  /\ delFailed \in BOOLEAN /\ crashes \in 0..MaxCrashes

LocalsTyped ==
  /\ watch \subseteq Putters /\ dead \subseteq Putters /\ running \in BOOLEAN
  /\ pc \in [Procs -> Steps]
  /\ todo \in [Procs -> SUBSET Segments] /\ doc \in [Procs -> 0..MaxDocs]
  /\ msgs \in [Procs -> SUBSET (1..MaxDocs)]
  /\ seen \in [Procs -> Statuses] /\ want \in [Procs -> {"none"} \cup Aborted]

\* What is stored is sound, and before there is a job nothing has landed.
DataSound ==
  /\ BytesMatchMask /\ DoneIsStored /\ AbortCleansUp
  /\ status = "none" => mask = {}

\* What a process knows when it is about to take its next step: there is a job;
\* it has a segment to put, and the document of it; the row of the segment it
\* marks is there as long as the file is; whoever completes the file has found
\* all segments; whoever records an abort has seen to the file.
Placed(p) ==
  /\ pc[p] # "idle" => status # "none"
  /\ pc[p] \in {"check", "start", "upload", "record", "mark"} => todo[p] # {}
  /\ (pc[p] \in {"queue", "watch", "admit"} /\ p \notin Workers) => todo[p] # {}
  /\ pc[p] = "record" => doc[p] # 0
  /\ pc[p] = "mark" => file = "absent" \/ rows[Seg(p)] # 0
  /\ pc[p] = "c_file" => Done
  /\ pc[p] \in {"k_stop", "k_wait", "k_decide", "a_stop", "a_read", "a_set"} => want[p] # "none"
  /\ pc[p] = "a_set" => file = "absent" \/ delFailed

\* A worker past its schedule step is the registered goroutine of the job.
WorkerRegistered ==
  /\ OneWorker
  /\ \A w \in Workers : pc[w] \notin {"idle", "schedule"} => running

\* The inductive invariant: UploadSound and AbortCleansUp say nothing of a
\* process between the read it relies on and the write that relies on it.
IInv == DataTyped /\ LocalsTyped /\ DataSound /\ WorkerRegistered /\ \A p \in Procs : Placed(p)

\* Nothing a process relies on is taken back, except together with the file.
DataStep ==
  /\ status # "none" => status' # "none"
  /\ mask \subseteq mask'
  /\ delFailed => delFailed'
  /\ (status # "none" /\ file = "absent") => file' = "absent"
  /\ \A i \in Segments : rows[i] # 0 => file' = "absent" \/ rows'[i] # 0

\* The locals of everybody but p stay.
OthersStay(p) ==
  \A q \in Procs \ {p} :
    pc'[q] = pc[q] /\ todo'[q] = todo[q] /\ doc'[q] = doc[q] /\ want'[q] = want[q]

LEMMA TypeSplit == TypeOK <=> DataTyped /\ LocalsTyped
  BY DEF TypeOK, DataTyped, LocalsTyped

\* The segment a process is about to put is one it has still to put.
LEMMA SegInTodo ==
  ASSUME NEW p, todo[p] \in SUBSET Segments, todo[p] # {}
  PROVE  Seg(p) \in todo[p] /\ Seg(p) \in Segments
  <1>1. todo[p] \in SUBSET Nat
    BY SegmentCountAssumption DEF Segments
  <1>2. \E x \in todo[p] : \A y \in todo[p] : x <= y
    BY <1>1, LeastElement
  <1>3. Seg(p) \in todo[p]
    BY <1>2 DEF Seg, Min
  <1>4. QED
    BY <1>3

\* A step of one process keeps the invariant when it leaves the rows sound, takes
\* nothing back, and leaves the process itself where it may be.
LEMMA OneMoves ==
  ASSUME IInv, NEW p \in Procs, DataTyped', LocalsTyped', DataSound', DataStep,
         WorkerRegistered', OthersStay(p), Placed(p)'
  PROVE  IInv'
  <1>1. ASSUME NEW q \in Procs \ {p} PROVE Placed(q)'
    <2>1. Placed(q) /\ pc'[q] = pc[q] /\ todo'[q] = todo[q] /\ doc'[q] = doc[q] /\ want'[q] = want[q]
      BY <1>1 DEF IInv, OthersStay
    <2>2. Done => Done'
      BY DEF Done, DataStep, DataTyped
    <2>3. ASSUME pc[q] = "mark" PROVE file' = "absent" \/ rows'[Seg(q)'] # 0
      <3>1. todo[q] # {} /\ todo[q] \in SUBSET Segments /\ status # "none"
        BY <1>1, <2>1, <2>3 DEF Placed, IInv, LocalsTyped
      <3>2. Seg(q) \in Segments /\ Seg(q)' = Seg(q)
        BY <2>1, <3>1, SegInTodo DEF Seg
      <3>3. QED
        BY <2>1, <2>3, <3>1, <3>2 DEF Placed, DataStep
    <2>4. QED
      BY <2>1, <2>2, <2>3 DEF Placed, DataStep
  <1>2. QED
    BY <1>1 DEF IInv

\* A process that goes on to its next step, with the same locals.
LEMMA GoOn ==
  ASSUME LocalsTyped, WorkerRegistered, NEW p \in Procs, pc[p] \notin {"idle", "schedule"},
         NEW step \in Steps, Goto(p, step), UNCHANGED <<localVars, workVars>>
  PROVE  /\ LocalsTyped' /\ WorkerRegistered' /\ OthersStay(p)
         /\ pc'[p] = step /\ todo'[p] = todo[p] /\ doc'[p] = doc[p] /\ want'[p] = want[p]
  <1> USE DEF Goto, localVars, workVars
  <1>1. LocalsTyped'
    BY DEF LocalsTyped
  <1>2. WorkerRegistered'
    BY DEF WorkerRegistered, OneWorker, LocalsTyped, Procs
  <1>3. QED
    BY <1>1, <1>2 DEF LocalsTyped, OthersStay

\* A process that is finished; a worker leaves the registry with it.
LEMMA EndKeeps ==
  ASSUME LocalsTyped, WorkerRegistered, NEW p \in Procs, pc[p] # "idle", End(p)
  PROVE  /\ LocalsTyped' /\ WorkerRegistered' /\ OthersStay(p)
         /\ pc'[p] = "idle"
  <1> USE DEF End, Goto, Forget
  <1>1. watch' \subseteq Putters /\ dead' \subseteq Putters /\ running' \in BOOLEAN
    BY DEF LocalsTyped
  <1>2. pc' \in [Procs -> Steps] /\ todo' \in [Procs -> SUBSET Segments]
    BY DEF LocalsTyped, Steps
  <1>3. doc' \in [Procs -> 0..MaxDocs] /\ msgs' \in [Procs -> SUBSET (1..MaxDocs)]
    BY MaxDocsAssumption DEF LocalsTyped
  <1>4. seen' \in [Procs -> Statuses] /\ want' \in [Procs -> {"none"} \cup Aborted]
    BY DEF LocalsTyped, Statuses
  <1>5. LocalsTyped'
    BY <1>1, <1>2, <1>3, <1>4 DEF LocalsTyped
  <1>6. WorkerRegistered'
    BY DEF WorkerRegistered, OneWorker, LocalsTyped, Procs
  <1>7. QED
    BY <1>5, <1>6 DEF LocalsTyped, OthersStay

\* A process whose step failed is finished or goes on to abort the job.
LEMMA FailKeeps ==
  ASSUME LocalsTyped, WorkerRegistered, NEW p \in Procs, pc[p] \notin {"idle", "schedule"}, Fail(p)
  PROVE  /\ LocalsTyped' /\ WorkerRegistered' /\ OthersStay(p)
         /\ pc'[p] \in {"idle", "f_read"}
  <1>1. CASE End(p)
    BY <1>1, EndKeeps
  <1>2. CASE Goto(p, "f_read") /\ UNCHANGED <<localVars, workVars>>
    <2>1. "f_read" \in Steps
      BY DEF Steps, AbortSteps
    <2>2. QED
      BY <1>2, <2>1, GoOn
  <1>3. QED
    BY <1>1, <1>2 DEF Fail

\* Nothing is asked of a process that is finished or about to abort after a
\* failure, but that there is a job.
LEMMA PlacedAtEnd ==
  ASSUME NEW p, pc'[p] \in {"idle", "f_read"}, status' # "none"
  PROVE  Placed(p)'
  BY DEF Placed

\* A step that leaves the database alone keeps what is stored sound.
LEMMA DataStays ==
  ASSUME IInv, UNCHANGED <<jobVars, fileVars, delFailed, crashes>>,
         posted' \in 0..MaxDocs, docs' \subseteq 1..posted'
  PROVE  DataTyped' /\ DataSound' /\ DataStep
  <1> USE DEF jobVars, fileVars
  <1>1. DataTyped' /\ DataStep
    BY DEF IInv, DataTyped, DataStep
  <1>2. DataSound'
    BY DEF IInv, DataSound, BytesMatchMask, DoneIsStored, AbortCleansUp, Done
  <1>3. QED
    BY <1>1, <1>2

\* A process that moves by itself: a worker is registered when it leaves its
\* schedule step.
LEMMA CallerMoves ==
  ASSUME LocalsTyped, WorkerRegistered, NEW p \in Procs, NEW step \in Steps, Goto(p, step),
         running' = running,
         p \in Workers => (step = "schedule" \/ pc[p] \notin {"idle", "schedule"})
  PROVE  WorkerRegistered' /\ pc' \in [Procs -> Steps] /\ pc'[p] = step
         /\ \A q \in Procs \ {p} : pc'[q] = pc[q]
  <1>1. pc' \in [Procs -> Steps] /\ pc'[p] = step /\ \A q \in Procs \ {p} : pc'[q] = pc[q]
    BY DEF LocalsTyped, Goto
  <1>2. WorkerRegistered'
    BY <1>1 DEF WorkerRegistered, OneWorker, Procs
  <1>3. QED
    BY <1>1, <1>2

LEMMA EndStays ==
  ASSUME IInv, NEW p \in Procs, pc[p] # "idle", End(p), DataTyped', DataSound', DataStep
  PROVE  IInv'
  <1>1. LocalsTyped' /\ WorkerRegistered' /\ OthersStay(p) /\ pc'[p] = "idle"
    BY EndKeeps DEF IInv
  <1>2. Placed(p)'
    BY <1>1 DEF Placed
  <1>3. QED
    BY <1>1, <1>2, OneMoves

LEMMA FailStays ==
  ASSUME IInv, NEW p \in Procs, pc[p] \notin {"idle", "schedule"}, Fail(p),
         DataTyped', DataSound', DataStep
  PROVE  IInv'
  <1>1. LocalsTyped' /\ WorkerRegistered' /\ OthersStay(p) /\ pc'[p] \in {"idle", "f_read"}
    BY FailKeeps DEF IInv
  <1>2. status' # "none"
    BY DEF IInv, Placed, DataStep
  <1>3. Placed(p)'
    BY <1>1, <1>2, PlacedAtEnd
  <1>4. QED
    BY <1>1, <1>3, OneMoves

LEMMA GoesOn ==
  ASSUME IInv, NEW p \in Procs, pc[p] \notin {"idle", "schedule"}, NEW step \in Steps,
         Goto(p, step), UNCHANGED <<localVars, workVars>>,
         DataTyped', DataSound', DataStep, Placed(p)'
  PROVE  IInv'
  <1>1. LocalsTyped' /\ WorkerRegistered' /\ OthersStay(p)
    BY GoOn DEF IInv
  <1>2. QED
    BY <1>1, OneMoves

\* The steps are distinct strings: which of them are which kind of step.
LEMMA StepsAre ==
  /\ {"idle", "schedule", "watch", "admit", "file", "queue", "check", "start", "upload",
      "record", "mark", "c_read", "c_file", "c_status", "c_load", "k_stop", "k_wait",
      "k_decide", "f_read", "a_stop", "a_read", "a_del", "a_row", "a_set"} \subseteq Steps
  BY DEF Steps, PutSteps, CompleteSteps, CancelSteps, AbortSteps

\* Nothing has moved before there is a job.
LEMMA AllIdle ==
  ASSUME IInv, status = "none"
  PROVE  mask = {} /\ \A q \in Procs : pc[q] = "idle"
  BY DEF IInv, Placed, DataSound

\* What a goroutine holds when it is at rest has its type.
LEMMA RestTyped ==
  /\ [p \in Procs |-> "idle"] \in [Procs -> Steps]
  /\ [p \in Procs |-> {}] \in [Procs -> SUBSET Segments]
  /\ [p \in Procs |-> {}] \in [Procs -> SUBSET (1..MaxDocs)]
  /\ [p \in Procs |-> 0] \in [Procs -> 0..MaxDocs]
  /\ [p \in Procs |-> "none"] \in [Procs -> Statuses]
  /\ [p \in Procs |-> "none"] \in [Procs -> {"none"} \cup Aborted]
  <1>1. "idle" \in Steps /\ "none" \in Statuses /\ 0 \in 0..MaxDocs
    BY StepsAre, MaxDocsAssumption DEF Statuses
  <1>2. QED
    BY <1>1

LEMMA InitInv == Init => IInv
  <1> SUFFICES ASSUME Init PROVE IInv
    OBVIOUS
  <1> USE DEF Init
  <1>1. DataTyped
    <2>1. uploaded \in 0..SegmentCount /\ posted \in 0..MaxDocs /\ crashes \in 0..MaxCrashes
      BY SegmentCountAssumption, MaxDocsAssumption, MaxCrashesAssumption
    <2>2. rows \in [Segments -> 0..MaxDocs]
      BY MaxDocsAssumption
    <2>3. mask \subseteq Segments /\ docs \subseteq 1..posted
      OBVIOUS
    <2>4. QED
      BY <2>1, <2>2, <2>3 DEF DataTyped, Statuses
  <1>2. LocalsTyped
    BY RestTyped DEF LocalsTyped
  <1>3. DataSound
    BY FS_EmptySet DEF DataSound, BytesMatchMask, DoneIsStored, AbortCleansUp, Aborted
  <1>4. WorkerRegistered
    BY DEF WorkerRegistered, OneWorker, Procs
  <1>5. \A p \in Procs : Placed(p)
    BY DEF Placed
  <1>6. QED
    BY <1>1, <1>2, <1>3, <1>4, <1>5 DEF IInv

LEMMA BeginFileKeeps == IInv /\ (BeginFile \/ BeginRollback) => IInv'
  <1> SUFFICES ASSUME IInv, BeginFile \/ BeginRollback PROVE IInv'
    OBVIOUS
  <1> USE DEF BeginFile, BeginRollback, jobVars, channelVars, workVars, localVars
  <1>1. /\ status = "none" /\ file' \in {"absent", "pending"} /\ mask = {}
        /\ \A q \in Procs : pc[q] = "idle"
    BY AllIdle
  <1>2. UNCHANGED <<jobVars, rows, channelVars, workVars, pc, localVars, delFailed, crashes>>
    OBVIOUS
  <1>3. DataTyped'
    BY <1>1, <1>2 DEF IInv, DataTyped
  <1>4. LocalsTyped' /\ WorkerRegistered'
    BY <1>2 DEF IInv, LocalsTyped, WorkerRegistered, OneWorker
  <1>5. DataSound'
    BY <1>1, <1>2 DEF IInv, DataSound, BytesMatchMask, DoneIsStored, AbortCleansUp, Aborted
  <1>6. \A q \in Procs : Placed(q)'
    BY <1>1, <1>2 DEF Placed
  <1>7. QED
    BY <1>3, <1>4, <1>5, <1>6 DEF IInv

LEMMA BeginJobKeeps == IInv /\ BeginJob => IInv'
  <1> SUFFICES ASSUME IInv, BeginJob PROVE IInv'
    OBVIOUS
  <1>1. /\ status = "none" /\ status' = "pending" /\ file = "pending" /\ mask = {}
        /\ \A q \in Procs : pc[q] = "idle"
    BY AllIdle DEF BeginJob
  <1>2. UNCHANGED <<source, mask, uploaded, file, rows, docs, posted, watch, dead, running,
                    doc, msgs, seen, want, delFailed, crashes>>
    BY DEF BeginJob, fileVars, channelVars, workVars
  <1>3. DataTyped'
    BY <1>1, <1>2 DEF IInv, DataTyped, Statuses
  <1>4. DataSound'
    BY <1>1, <1>2 DEF IInv, DataSound, BytesMatchMask, DoneIsStored, AbortCleansUp, Aborted
  <1>5. DataStep
    BY <1>1, <1>2 DEF DataStep
  <1>6. CASE UNCHANGED <<pc, todo>>
    <2>1. LocalsTyped' /\ WorkerRegistered'
      BY <1>2, <1>6 DEF IInv, LocalsTyped, WorkerRegistered, OneWorker
    <2>2. \A q \in Procs : Placed(q)'
      BY <1>1, <1>6 DEF Placed
    <2>3. QED
      BY <1>3, <1>4, <2>1, <2>2 DEF IInv
  <1>7. CASE ~UNCHANGED <<pc, todo>>
    <2>1. PICK p \in Workers \cup Streams :
            /\ Goto(p, IF p \in Workers THEN "schedule" ELSE "queue")
            /\ todo' = [todo EXCEPT ![p] = Segments]
      BY <1>7 DEF BeginJob
    <2>2. p \in Procs
      BY DEF Procs
    <2>3. (IF p \in Workers THEN "schedule" ELSE "queue") \in Steps
      BY StepsAre
    <2>4. /\ WorkerRegistered' /\ pc' \in [Procs -> Steps]
          /\ pc'[p] = (IF p \in Workers THEN "schedule" ELSE "queue")
          /\ \A q \in Procs \ {p} : pc'[q] = pc[q]
      BY <1>2, <2>1, <2>2, <2>3, CallerMoves DEF IInv
    <2>5. /\ todo' \in [Procs -> SUBSET Segments] /\ todo'[p] = Segments
          /\ \A q \in Procs \ {p} : todo'[q] = todo[q]
      BY <2>1, <2>2 DEF IInv, LocalsTyped
    <2>6. LocalsTyped' /\ OthersStay(p)
      BY <1>2, <2>4, <2>5 DEF IInv, LocalsTyped, OthersStay
    <2>7. Segments # {}
      BY SegmentCountAssumption DEF Segments
    <2>8. Placed(p)'
      BY <1>1, <2>4, <2>5, <2>7 DEF Placed
    <2>9. QED
      BY <1>3, <1>4, <1>5, <2>2, <2>4, <2>6, <2>8, OneMoves
  <1>8. QED
    BY <1>6, <1>7

LEMMA CrashKeeps == IInv /\ Crash => IInv'
  <1> SUFFICES ASSUME IInv, Crash PROVE IInv'
    OBVIOUS
  <1> USE DEF Crash, jobVars, fileVars, channelVars
  <1>1. UNCHANGED <<source, status, mask, uploaded, file, rows, docs, posted, delFailed>>
    OBVIOUS
  <1>2. crashes' \in 0..MaxCrashes
    BY MaxCrashesAssumption DEF IInv, DataTyped
  <1>3. DataTyped'
    BY <1>1, <1>2 DEF IInv, DataTyped
  <1>4. DataSound'
    BY <1>1 DEF IInv, DataSound, BytesMatchMask, DoneIsStored, AbortCleansUp, Done
  <1>5. LocalsTyped'
    BY RestTyped DEF LocalsTyped
  <1>6. WorkerRegistered'
    BY DEF WorkerRegistered, OneWorker, Procs
  <1>7. \A q \in Procs : Placed(q)'
    BY DEF Placed
  <1>8. QED
    BY <1>3, <1>4, <1>5, <1>6, <1>7 DEF IInv

LEMMA DataUntouched ==
  ASSUME IInv, UNCHANGED <<jobVars, fileVars, channelVars, delFailed, crashes>>
  PROVE  DataTyped' /\ DataSound' /\ DataStep
  <1>1. posted' \in 0..MaxDocs /\ docs' \subseteq 1..posted'
    BY DEF IInv, DataTyped, channelVars
  <1>2. QED
    BY <1>1, DataStays

\* A step that changes nothing in the database but the status of the job.
LEMMA StatusMoves ==
  ASSUME IInv, status' \in Statuses \ {"none"},
         UNCHANGED <<source, mask, uploaded, fileVars, channelVars, delFailed, crashes>>,
         status' \in Aborted => file = "absent" \/ delFailed
  PROVE  DataTyped' /\ DataSound' /\ DataStep
  <1> USE DEF fileVars, channelVars
  <1>1. DataTyped' /\ DataStep
    BY DEF IInv, DataTyped, DataStep
  <1>2. DataSound'
    BY DEF IInv, DataSound, BytesMatchMask, DoneIsStored, AbortCleansUp, Done
  <1>3. QED
    BY <1>1, <1>2

\* What p holds when it goes on with the same locals.
LEMMA Holds ==
  ASSUME IInv, NEW p \in Procs, NEW step \in Steps, Goto(p, step), UNCHANGED <<localVars, workVars>>
  PROVE  pc'[p] = step /\ todo'[p] = todo[p] /\ doc'[p] = doc[p] /\ want'[p] = want[p]
  BY DEF IInv, LocalsTyped, Goto, localVars

LEMMA HandlePutKeeps ==
  ASSUME IInv, NEW p \in Requests, NEW i \in Segments, HandlePut(p, i)
  PROVE  IInv'
  <1>1. p \in Procs /\ p \notin Workers /\ "watch" \in Steps
    BY WorkersAssumption, StepsAre DEF Procs
  <1>2. DataTyped' /\ DataSound' /\ DataStep
    BY DataUntouched DEF HandlePut
  <1>3. /\ WorkerRegistered' /\ pc' \in [Procs -> Steps] /\ pc'[p] = "watch"
        /\ \A q \in Procs \ {p} : pc'[q] = pc[q]
    BY <1>1, CallerMoves DEF HandlePut, IInv, workVars
  <1>4. /\ todo' \in [Procs -> SUBSET Segments] /\ todo'[p] = {i}
        /\ \A q \in Procs \ {p} : todo'[q] = todo[q]
    BY <1>1 DEF HandlePut, IInv, LocalsTyped
  <1>5. UNCHANGED <<watch, dead, running, doc, msgs, seen, want>> /\ status' # "none"
    BY DEF HandlePut, workVars, jobVars
  <1>6. LocalsTyped' /\ OthersStay(p)
    BY <1>3, <1>4, <1>5 DEF IInv, LocalsTyped, OthersStay
  <1>7. Placed(p)'
    BY <1>3, <1>4, <1>5 DEF Placed
  <1>8. QED
    BY <1>1, <1>2, <1>3, <1>6, <1>7, OneMoves

LEMMA StreamQueueKeeps ==
  ASSUME IInv, NEW p \in Streams, StreamQueue(p)
  PROVE  IInv'
  <1>1. p \in Procs /\ p \notin Workers /\ "watch" \in Steps
    BY WorkersAssumption, StepsAre DEF Procs
  <1>2. DataTyped' /\ DataSound' /\ DataStep /\ pc[p] = "queue"
    BY DataUntouched DEF StreamQueue
  <1>3. CASE Goto(p, "watch") /\ UNCHANGED <<localVars, workVars>>
    <2>1. pc'[p] = "watch" /\ todo'[p] = todo[p] /\ doc'[p] = doc[p] /\ want'[p] = want[p]
      BY <1>1, <1>3, Holds
    <2>2. Placed(p)'
      BY <1>1, <1>2, <2>1 DEF IInv, Placed, DataStep
    <2>3. QED
      BY <1>1, <1>2, <1>3, <2>2, GoesOn
  <1>4. CASE Fail(p)
    BY <1>1, <1>2, <1>4, FailStays
  <1>5. QED
    BY <1>3, <1>4 DEF StreamQueue

LEMMA ResumeKeeps ==
  ASSUME IInv, NEW p \in Workers, Resume(p)
  PROVE  IInv'
  <1>1. p \in Procs /\ "schedule" \in Steps
    BY StepsAre DEF Procs
  <1>2. DataTyped' /\ DataSound' /\ DataStep
    BY DataUntouched DEF Resume
  <1>3. /\ WorkerRegistered' /\ pc' \in [Procs -> Steps] /\ pc'[p] = "schedule"
        /\ \A q \in Procs \ {p} : pc'[q] = pc[q]
    BY <1>1, CallerMoves DEF Resume, IInv, workVars
  <1>4. /\ todo' \in [Procs -> SUBSET Segments]
        /\ \A q \in Procs \ {p} : todo'[q] = todo[q]
    BY <1>1 DEF Resume, IInv, LocalsTyped
  <1>5. UNCHANGED <<watch, dead, running, doc, msgs, seen, want>> /\ status' # "none"
    BY DEF Resume, Resumable, workVars, jobVars
  <1>6. LocalsTyped' /\ OthersStay(p)
    BY <1>3, <1>4, <1>5 DEF IInv, LocalsTyped, OthersStay
  <1>7. Placed(p)'
    BY <1>3, <1>5 DEF Placed
  <1>8. QED
    BY <1>1, <1>2, <1>3, <1>6, <1>7, OneMoves

LEMMA ScheduleKeeps ==
  ASSUME IInv, NEW p \in Workers, Schedule(p)
  PROVE  IInv'
  <1>1. p \in Procs /\ "watch" \in Steps /\ pc[p] = "schedule"
    BY StepsAre DEF Procs, Schedule
  <1>2. DataTyped' /\ DataSound' /\ DataStep
    BY DataUntouched DEF Schedule
  <1>3. CASE End(p)
    BY <1>1, <1>2, <1>3, EndStays
  <1>4. CASE ~running /\ running' = TRUE /\ Goto(p, "watch") /\ UNCHANGED <<watch, dead, localVars>>
    <2>1. UNCHANGED <<watch, dead, todo, doc, msgs, seen, want>> /\ running' = TRUE
      BY <1>4 DEF localVars
    <2>2. /\ pc' \in [Procs -> Steps] /\ pc'[p] = "watch"
          /\ \A q \in Procs \ {p} : pc'[q] = pc[q]
      BY <1>1, <1>4 DEF Goto, IInv, LocalsTyped
    <2>3. LocalsTyped' /\ OthersStay(p)
      BY <2>1, <2>2 DEF IInv, LocalsTyped, OthersStay
    <2>4. WorkerRegistered'
      BY <1>4, <2>2 DEF IInv, WorkerRegistered, OneWorker, Procs
    <2>5. Placed(p)'
      BY <1>1, <1>2, <2>2 DEF IInv, Placed, DataStep
    <2>6. QED
      BY <1>1, <1>2, <2>3, <2>4, <2>5, OneMoves
  <1>5. QED
    BY <1>3, <1>4 DEF Schedule

LEMMA WatchKeeps ==
  ASSUME IInv, NEW p \in Putters, Watch(p)
  PROVE  IInv'
  <1>1. p \in Procs /\ "admit" \in Steps /\ pc[p] = "watch"
    BY StepsAre DEF Procs, Putters, Watch
  <1>2. DataTyped' /\ DataSound' /\ DataStep
    BY DataUntouched DEF Watch
  <1>3. /\ WorkerRegistered' /\ pc' \in [Procs -> Steps] /\ pc'[p] = "admit"
        /\ \A q \in Procs \ {p} : pc'[q] = pc[q]
    BY <1>1, CallerMoves DEF Watch, IInv
  <1>4. UNCHANGED <<dead, running, todo, doc, msgs, seen, want>> /\ watch' = watch \cup {p}
    BY DEF Watch, localVars
  <1>5. LocalsTyped' /\ OthersStay(p)
    BY <1>3, <1>4 DEF IInv, LocalsTyped, OthersStay
  <1>6. Placed(p)'
    BY <1>1, <1>2, <1>3, <1>4 DEF IInv, Placed, DataStep
  <1>7. QED
    BY <1>1, <1>2, <1>3, <1>5, <1>6, OneMoves

LEMMA AdmitKeeps ==
  ASSUME IInv, NEW p \in Putters, Admit(p)
  PROVE  IInv'
  <1>1. p \in Procs /\ {"check", "file"} \subseteq Steps /\ pc[p] = "admit"
    BY StepsAre DEF Procs, Putters, Admit
  <1>2. UNCHANGED <<source, mask, uploaded, fileVars, channelVars, delFailed, crashes>>
    BY DEF Admit
  <1>3. CASE /\ UNCHANGED status
             /\ \/ Fail(p) \/ End(p)
                \/ p \in Streams /\ Goto(p, "check") /\ UNCHANGED <<localVars, workVars>>
    <2>1. DataTyped' /\ DataSound' /\ DataStep
      BY <1>2, <1>3, DataUntouched DEF jobVars
    <2>2. CASE Fail(p) \/ End(p)
      BY <1>1, <2>1, <2>2, FailStays, EndStays
    <2>3. CASE p \in Streams /\ Goto(p, "check") /\ UNCHANGED <<localVars, workVars>>
      <3>1. p \notin Workers
        BY <2>3, WorkersAssumption
      <3>2. pc'[p] = "check" /\ todo'[p] = todo[p] /\ doc'[p] = doc[p] /\ want'[p] = want[p]
        BY <1>1, <2>3, Holds
      <3>3. Placed(p)'
        BY <1>1, <2>1, <3>1, <3>2 DEF IInv, Placed, DataStep
      <3>4. QED
        BY <1>1, <2>1, <2>3, <3>3, GoesOn
    <2>4. QED
      BY <1>3, <2>2, <2>3
  <1>4. CASE /\ status' = "running" /\ Goto(p, IF p \in Workers THEN "file" ELSE "check")
             /\ UNCHANGED <<localVars, workVars>>
    <2>1. DataTyped' /\ DataSound' /\ DataStep
      BY <1>2, <1>4, StatusMoves DEF Statuses, Aborted
    <2>2. /\ pc'[p] = (IF p \in Workers THEN "file" ELSE "check")
          /\ todo'[p] = todo[p] /\ doc'[p] = doc[p] /\ want'[p] = want[p]
      BY <1>1, <1>4, Holds
    <2>3. Placed(p)'
      BY <1>1, <1>4, <2>2 DEF IInv, Placed
    <2>4. QED
      BY <1>1, <1>4, <2>1, <2>3, GoesOn
  <1>5. QED
    BY <1>3, <1>4 DEF Admit

LEMMA WorkerFileKeeps ==
  ASSUME IInv, NEW p \in Workers, WorkerFile(p)
  PROVE  IInv'
  <1>1. p \in Procs /\ {"check", "c_read"} \subseteq Steps /\ pc[p] = "file"
    BY StepsAre DEF Procs, WorkerFile
  <1>2. DataTyped' /\ DataSound' /\ DataStep
    BY DataUntouched DEF WorkerFile
  <1>3. CASE Fail(p)
    BY <1>1, <1>2, <1>3, FailStays
  <1>4. CASE /\ Goto(p, IF todo[p] = {} THEN "c_read" ELSE "check")
             /\ UNCHANGED <<localVars, workVars>>
    <2>1. /\ pc'[p] = (IF todo[p] = {} THEN "c_read" ELSE "check")
          /\ todo'[p] = todo[p] /\ doc'[p] = doc[p] /\ want'[p] = want[p]
      BY <1>1, <1>4, Holds
    <2>2. Placed(p)'
      BY <1>1, <1>2, <2>1 DEF IInv, Placed, DataStep
    <2>3. QED
      BY <1>1, <1>2, <1>4, <2>2, GoesOn
  <1>5. QED
    BY <1>3, <1>4 DEF WorkerFile

LEMMA PutCheckKeeps ==
  ASSUME IInv, NEW p \in Putters, PutCheck(p)
  PROVE  IInv'
  <1>1. p \in Procs /\ "start" \in Steps /\ pc[p] = "check"
    BY StepsAre DEF Procs, Putters, PutCheck
  <1>2. DataTyped' /\ DataSound' /\ DataStep
    BY DataUntouched DEF PutCheck
  <1>3. CASE Fail(p)
    BY <1>1, <1>2, <1>3, FailStays
  <1>4. CASE Goto(p, "start") /\ UNCHANGED <<localVars, workVars>>
    <2>1. pc'[p] = "start" /\ todo'[p] = todo[p] /\ doc'[p] = doc[p] /\ want'[p] = want[p]
      BY <1>1, <1>4, Holds
    <2>2. Placed(p)'
      BY <1>1, <1>2, <2>1 DEF IInv, Placed, DataStep
    <2>3. QED
      BY <1>1, <1>2, <1>4, <2>2, GoesOn
  <1>5. QED
    BY <1>3, <1>4 DEF PutCheck

LEMMA PutStartKeeps ==
  ASSUME IInv, NEW p \in Putters, PutStart(p)
  PROVE  IInv'
  <1>1. p \in Procs /\ "upload" \in Steps /\ pc[p] = "start"
    BY StepsAre DEF Procs, Putters, PutStart
  <1>2. UNCHANGED <<source, mask, uploaded, fileVars, channelVars, delFailed, crashes>>
    BY DEF PutStart
  <1>3. CASE Fail(p) /\ UNCHANGED status
    <2>1. DataTyped' /\ DataSound' /\ DataStep
      BY <1>2, <1>3, DataUntouched DEF jobVars
    <2>2. QED
      BY <1>1, <1>3, <2>1, FailStays
  <1>4. CASE status' = "running" /\ Goto(p, "upload") /\ UNCHANGED <<localVars, workVars>>
    <2>1. DataTyped' /\ DataSound' /\ DataStep
      BY <1>2, <1>4, StatusMoves DEF Statuses, Aborted
    <2>2. pc'[p] = "upload" /\ todo'[p] = todo[p] /\ doc'[p] = doc[p] /\ want'[p] = want[p]
      BY <1>1, <1>4, Holds
    <2>3. Placed(p)'
      BY <1>1, <1>4, <2>2 DEF IInv, Placed
    <2>4. QED
      BY <1>1, <1>4, <2>1, <2>3, GoesOn
  <1>5. QED
    BY <1>3, <1>4 DEF PutStart

LEMMA UploadKeeps ==
  ASSUME IInv, NEW p \in Putters, Upload(p)
  PROVE  IInv'
  <1>1. p \in Procs /\ "record" \in Steps /\ pc[p] = "upload"
    BY StepsAre DEF Procs, Putters, Upload
  <1>2. posted' \in 0..MaxDocs /\ docs' \subseteq 1..posted'
    <2>1. CASE UNCHANGED channelVars
      BY <2>1 DEF channelVars, IInv, DataTyped
    <2>2. CASE posted < MaxDocs /\ posted' = posted + 1 /\ docs' = docs \cup {posted + 1}
      BY <2>2, MaxDocsAssumption DEF IInv, DataTyped
    <2>3. QED
      BY <2>1, <2>2 DEF Upload
  <1>3. DataTyped' /\ DataSound' /\ DataStep
    BY <1>2, DataStays DEF Upload
  <1>4. CASE Fail(p)
    BY <1>1, <1>3, <1>4, FailStays
  <1>5. CASE /\ posted < MaxDocs /\ doc' = [doc EXCEPT ![p] = posted + 1] /\ Goto(p, "record")
             /\ UNCHANGED <<todo, msgs, seen, want, workVars>>
    <2>1. /\ WorkerRegistered' /\ pc' \in [Procs -> Steps] /\ pc'[p] = "record"
          /\ \A q \in Procs \ {p} : pc'[q] = pc[q]
      BY <1>1, <1>5, CallerMoves DEF IInv, workVars
    <2>2. posted + 1 \in 0..MaxDocs /\ posted + 1 # 0
      BY <1>5, MaxDocsAssumption DEF IInv, DataTyped
    <2>3. /\ doc' \in [Procs -> 0..MaxDocs] /\ doc'[p] # 0
          /\ \A q \in Procs \ {p} : doc'[q] = doc[q]
      BY <1>1, <1>5, <2>2 DEF IInv, LocalsTyped
    <2>4. UNCHANGED <<watch, dead, running, todo, msgs, seen, want>>
      BY <1>5 DEF workVars
    <2>5. LocalsTyped' /\ OthersStay(p)
      BY <2>1, <2>3, <2>4 DEF IInv, LocalsTyped, OthersStay
    <2>6. Placed(p)'
      BY <1>1, <1>3, <2>1, <2>3, <2>4 DEF IInv, Placed, DataStep
    <2>7. QED
      BY <1>1, <1>3, <2>1, <2>5, <2>6, OneMoves
  <1>6. QED
    BY <1>4, <1>5 DEF Upload

LEMMA UpsertSegmentKeeps ==
  ASSUME IInv, NEW p \in Putters, UpsertSegment(p)
  PROVE  IInv'
  <1>1. p \in Procs /\ "mark" \in Steps /\ pc[p] = "record"
    BY StepsAre DEF Procs, Putters, UpsertSegment
  <1>2. UNCHANGED <<jobVars, file, channelVars, delFailed, crashes>>
    BY DEF UpsertSegment
  <1>3. CASE Fail(p) /\ UNCHANGED rows
    <2>1. DataTyped' /\ DataSound' /\ DataStep
      BY <1>2, <1>3, DataUntouched DEF fileVars
    <2>2. QED
      BY <1>1, <1>3, <2>1, FailStays
  <1>4. CASE /\ rows' = [rows EXCEPT ![Seg(p)] = doc[p]] /\ Goto(p, "mark")
             /\ UNCHANGED <<localVars, workVars>>
    <2>1. todo[p] # {} /\ todo[p] \in SUBSET Segments /\ doc[p] # 0 /\ doc[p] \in 0..MaxDocs
      BY <1>1 DEF IInv, Placed, LocalsTyped
    <2>2. Seg(p) \in Segments
      BY <2>1, SegInTodo
    <2>3. /\ rows' \in [Segments -> 0..MaxDocs] /\ rows'[Seg(p)] # 0
          /\ \A i \in Segments : rows[i] # 0 => rows'[i] # 0
      BY <1>4, <2>1, <2>2 DEF IInv, DataTyped
    <2>4. UNCHANGED <<source, status, mask, uploaded, file, docs, posted, delFailed, crashes>>
      BY <1>2 DEF jobVars, channelVars
    <2>5. DataTyped' /\ DataStep
      BY <2>3, <2>4 DEF IInv, DataTyped, DataStep
    <2>6. DataSound'
      BY <2>3, <2>4 DEF IInv, DataTyped, DataSound, BytesMatchMask, DoneIsStored, AbortCleansUp, Done
    <2>7. pc'[p] = "mark" /\ todo'[p] = todo[p] /\ doc'[p] = doc[p] /\ want'[p] = want[p]
      BY <1>1, <1>4, Holds
    <2>8. Seg(p)' = Seg(p)
      BY <2>7 DEF Seg
    <2>9. Placed(p)'
      BY <1>1, <2>1, <2>3, <2>4, <2>7, <2>8 DEF IInv, Placed
    <2>10. QED
      BY <1>1, <1>4, <2>5, <2>6, <2>9, GoesOn
  <1>5. QED
    BY <1>3, <1>4 DEF UpsertSegment

LEMMA SegmentsFinite == IsFiniteSet(Segments) /\ Cardinality(Segments) = SegmentCount
  BY SegmentCountAssumption, FS_Interval DEF Segments

\* Marking a segment counts it once.
LEMMA MarkCounts ==
  ASSUME DataTyped, BytesMatchMask, NEW i \in Segments
  PROVE  /\ BytesAfter(i) = Cardinality(mask \cup {i})
         /\ BytesAfter(i) \in 0..SegmentCount
  <1>1. IsFiniteSet(mask) /\ mask \cup {i} \subseteq Segments
    BY SegmentsFinite, FS_Subset DEF DataTyped
  <1>2. IsFiniteSet(mask \cup {i}) /\ Cardinality(mask \cup {i}) <= SegmentCount
        /\ Cardinality(mask \cup {i}) \in Nat
    BY <1>1, SegmentsFinite, FS_Subset, FS_CardinalityType
  <1>3. BytesAfter(i) = Cardinality(mask \cup {i})
    <2>1. CASE i \in mask
      <3>1. mask \cup {i} = mask
        BY <2>1
      <3>2. QED
        BY <2>1, <3>1 DEF BytesAfter, BytesMatchMask
    <2>2. CASE i \notin mask
      BY <1>1, <2>2, FS_AddElement DEF BytesAfter, BytesMatchMask
    <2>3. QED
      BY <2>1, <2>2
  <1>4. QED
    BY <1>2, <1>3, SegmentCountAssumption

LEMMA MarkSegmentDoneKeeps ==
  ASSUME IInv, NEW p \in Putters, MarkSegmentDone(p)
  PROVE  IInv'
  <1> DEFINE i == Seg(p)
  <1> DEFINE left == todo[p] \ {i}
  <1>1. p \in Procs /\ {"check", "c_read"} \subseteq Steps /\ pc[p] = "mark" /\ status # "none"
    BY StepsAre DEF Procs, Putters, MarkSegmentDone, IInv, Placed
  <1>2. UNCHANGED <<source, fileVars, channelVars, delFailed, crashes>>
    BY DEF MarkSegmentDone
  <1>3. CASE Fail(p) /\ UNCHANGED <<status, mask, uploaded>>
    <2>1. DataTyped' /\ DataSound' /\ DataStep
      BY <1>2, <1>3, DataUntouched DEF jobVars
    <2>2. QED
      BY <1>1, <1>3, <2>1, FailStays
  <1>4. CASE /\ mask' = mask \cup {i} /\ uploaded' = BytesAfter(i)
             /\ status' = StatusAfter(mask \cup {i})
             /\ \/ End(p)
                \/ /\ todo' = [todo EXCEPT ![p] = left] /\ doc' = [doc EXCEPT ![p] = 0]
                   /\ Goto(p, IF left = {} THEN "c_read" ELSE "check")
                   /\ UNCHANGED <<msgs, seen, want, workVars>>
    <2>1. todo[p] # {} /\ todo[p] \in SUBSET Segments
      BY <1>1 DEF IInv, Placed, LocalsTyped
    <2>2. i \in Segments /\ i \in todo[p]
      BY <2>1, SegInTodo
    <2>3. uploaded' = Cardinality(mask') /\ uploaded' \in 0..SegmentCount
      BY <1>4, <2>2, MarkCounts DEF IInv, DataSound
    <2>4. mask' \subseteq Segments /\ mask \subseteq mask' /\ i \in mask' /\ mask' \ mask \subseteq {i}
      BY <1>4, <2>2 DEF IInv, DataTyped
    <2>5. status' \in {"complete", "running"}
      BY <1>4 DEF StatusAfter
    <2>6. UNCHANGED <<source, file, rows, docs, posted, delFailed, crashes>>
      BY <1>2 DEF fileVars, channelVars
    <2>7. file = "absent" \/ rows[i] # 0
      BY <1>1 DEF IInv, Placed
    <2>8. DataTyped' /\ DataStep
      BY <2>3, <2>4, <2>5, <2>6 DEF IInv, DataTyped, DataStep, Statuses
    <2>9. DoneIsStored'
      BY <2>4, <2>6, <2>7 DEF IInv, DataTyped, DataSound, DoneIsStored, Done
    <2>10. DataSound'
      BY <2>3, <2>5, <2>9 DEF DataSound, BytesMatchMask, AbortCleansUp, Aborted
    <2>11. CASE End(p)
      BY <1>1, <2>8, <2>10, <2>11, EndStays
    <2>12. CASE /\ todo' = [todo EXCEPT ![p] = left] /\ doc' = [doc EXCEPT ![p] = 0]
                /\ Goto(p, IF left = {} THEN "c_read" ELSE "check")
                /\ UNCHANGED <<msgs, seen, want, workVars>>
      <3>1. (IF left = {} THEN "c_read" ELSE "check") \in Steps
        BY <1>1
      <3>2. UNCHANGED <<watch, dead, running, msgs, seen, want>>
        BY <2>12 DEF workVars
      <3>3. /\ WorkerRegistered' /\ pc' \in [Procs -> Steps]
            /\ pc'[p] = (IF left = {} THEN "c_read" ELSE "check")
            /\ \A q \in Procs \ {p} : pc'[q] = pc[q]
        BY <1>1, <2>12, <3>1, <3>2, CallerMoves DEF IInv
      <3>4. /\ todo' \in [Procs -> SUBSET Segments] /\ todo'[p] = left
            /\ \A q \in Procs \ {p} : todo'[q] = todo[q]
        BY <1>1, <2>12 DEF IInv, LocalsTyped
      <3>5. doc' \in [Procs -> 0..MaxDocs] /\ \A q \in Procs \ {p} : doc'[q] = doc[q]
        BY <1>1, <2>12, MaxDocsAssumption DEF IInv, LocalsTyped
      <3>6. LocalsTyped' /\ OthersStay(p)
        BY <3>2, <3>3, <3>4, <3>5 DEF IInv, LocalsTyped, OthersStay
      <3>7. Placed(p)'
        BY <2>5, <3>3, <3>4 DEF Placed
      <3>8. QED
        BY <1>1, <2>8, <2>10, <3>3, <3>6, <3>7, OneMoves
    <2>13. QED
      BY <1>4, <2>11, <2>12
  <1>5. QED
    BY <1>3, <1>4 DEF MarkSegmentDone

LEMMA HangUpKeeps ==
  ASSUME IInv, NEW p \in Requests \cup Streams, HangUp(p)
  PROVE  IInv'
  <1>1. p \in Procs /\ p \in Putters
    BY DEF Procs, Putters
  <1>2. DataTyped' /\ DataSound' /\ DataStep
    BY DataUntouched DEF HangUp
  <1>3. UNCHANGED <<watch, running, pc, todo, doc, msgs, seen, want>> /\ dead' = dead \cup {p}
    BY DEF HangUp, localVars
  <1>4. LocalsTyped' /\ WorkerRegistered' /\ OthersStay(p)
    BY <1>1, <1>3 DEF IInv, LocalsTyped, WorkerRegistered, OneWorker, OthersStay
  <1>5. UNCHANGED <<jobVars, fileVars, delFailed>>
    BY DEF HangUp
  <1>6. Placed(p)'
    <2>1. Placed(p)
      BY <1>1 DEF IInv
    <2>2. UNCHANGED <<pc, todo, doc, want, status, mask, file, rows, delFailed>>
      BY <1>3, <1>5 DEF jobVars, fileVars
    <2>3. QED
      BY <2>1, <2>2 DEF Placed, Seg, Done
  <1>7. QED
    BY <1>1, <1>2, <1>4, <1>6, OneMoves

\* Calls that come from outside: nobody but their caller moves.
LEMMA StartCompleteKeeps ==
  ASSUME IInv, NEW p \in Completers, StartComplete(p)
  PROVE  IInv'
  <1>1. p \in Procs /\ p \notin Workers /\ "c_read" \in Steps /\ status # "none"
    BY WorkersAssumption, StepsAre DEF Procs, StartComplete
  <1>2. DataTyped' /\ DataSound' /\ DataStep
    BY DataUntouched DEF StartComplete
  <1>3. UNCHANGED <<watch, dead, running, todo, doc, msgs, seen, want>>
    BY DEF StartComplete, localVars, workVars
  <1>4. /\ WorkerRegistered' /\ pc' \in [Procs -> Steps] /\ pc'[p] = "c_read"
        /\ \A q \in Procs \ {p} : pc'[q] = pc[q]
    BY <1>1, <1>3, CallerMoves DEF StartComplete, IInv
  <1>5. LocalsTyped' /\ OthersStay(p)
    BY <1>3, <1>4 DEF IInv, LocalsTyped, OthersStay
  <1>6. Placed(p)'
    BY <1>1, <1>2, <1>4 DEF Placed, DataStep
  <1>7. QED
    BY <1>1, <1>2, <1>4, <1>5, <1>6, OneMoves

LEMMA CompleteReadKeeps ==
  ASSUME IInv, NEW p \in Procs, CompleteRead(p)
  PROVE  IInv'
  <1>1. "c_file" \in Steps /\ pc[p] = "c_read"
    BY StepsAre DEF CompleteRead
  <1>2. DataTyped' /\ DataSound' /\ DataStep
    BY DataUntouched DEF CompleteRead
  <1>3. CASE Fail(p)
    BY <1>1, <1>2, <1>3, FailStays
  <1>4. CASE Done /\ Goto(p, "c_file") /\ UNCHANGED <<localVars, workVars>>
    <2>1. pc'[p] = "c_file" /\ todo'[p] = todo[p] /\ doc'[p] = doc[p] /\ want'[p] = want[p]
      BY <1>1, <1>4, Holds
    <2>2. Done'
      BY <1>4 DEF CompleteRead, jobVars, Done
    <2>3. Placed(p)'
      BY <1>1, <1>2, <2>1, <2>2 DEF IInv, Placed, DataStep
    <2>4. QED
      BY <1>1, <1>2, <1>4, <2>3, GoesOn
  <1>5. QED
    BY <1>3, <1>4 DEF CompleteRead, Missing

LEMMA CompleteFileKeeps ==
  ASSUME IInv, NEW p \in Procs, CompleteFile(p)
  PROVE  IInv'
  <1>1. "c_status" \in Steps /\ pc[p] = "c_file" /\ Done /\ status # "none"
    BY StepsAre DEF CompleteFile, IInv, Placed
  <1>2. UNCHANGED <<source, status, mask, uploaded, rows, docs, posted, delFailed, crashes>>
    BY DEF CompleteFile, jobVars, channelVars
  <1>3. CASE Fail(p) /\ UNCHANGED file
    <2>1. DataTyped' /\ DataSound' /\ DataStep
      BY <1>2, <1>3, DataUntouched DEF jobVars, fileVars, channelVars
    <2>2. QED
      BY <1>1, <1>3, <2>1, FailStays
  <1>4. CASE /\ file # "absent" /\ file' = "complete" /\ Goto(p, "c_status")
             /\ UNCHANGED <<localVars, workVars>>
    <2>1. DataTyped' /\ DataStep
      BY <1>2, <1>4 DEF IInv, DataTyped, DataStep
    <2>2. DataSound'
      BY <1>1, <1>2, <1>4 DEF IInv, DataSound, BytesMatchMask, DoneIsStored, AbortCleansUp, Done
    <2>3. pc'[p] = "c_status" /\ todo'[p] = todo[p] /\ doc'[p] = doc[p] /\ want'[p] = want[p]
      BY <1>1, <1>4, Holds
    <2>4. Placed(p)'
      BY <1>1, <1>2, <2>3 DEF Placed
    <2>5. QED
      BY <1>1, <1>4, <2>1, <2>2, <2>4, GoesOn
  <1>5. QED
    BY <1>3, <1>4 DEF CompleteFile

LEMMA CompleteStatusKeeps ==
  ASSUME IInv, NEW p \in Procs, CompleteStatus(p)
  PROVE  IInv'
  <1>1. "c_load" \in Steps /\ pc[p] = "c_status"
    BY StepsAre DEF CompleteStatus
  <1>2. UNCHANGED <<source, mask, uploaded, fileVars, channelVars, delFailed, crashes>>
    BY DEF CompleteStatus
  <1>3. CASE Fail(p) /\ UNCHANGED status
    <2>1. DataTyped' /\ DataSound' /\ DataStep
      BY <1>2, <1>3, DataUntouched DEF jobVars
    <2>2. QED
      BY <1>1, <1>3, <2>1, FailStays
  <1>4. CASE /\ status' = "complete"
             /\ End(p) \/ (Goto(p, "c_load") /\ UNCHANGED <<localVars, workVars>>)
    <2>1. DataTyped' /\ DataSound' /\ DataStep
      BY <1>2, <1>4, StatusMoves DEF Statuses, Aborted
    <2>2. CASE End(p)
      BY <1>1, <2>1, <2>2, EndStays
    <2>3. CASE Goto(p, "c_load") /\ UNCHANGED <<localVars, workVars>>
      <3>1. pc'[p] = "c_load"
        BY <1>1, <2>3, Holds
      <3>2. Placed(p)'
        BY <1>4, <3>1 DEF Placed
      <3>3. QED
        BY <1>1, <2>1, <2>3, <3>2, GoesOn
    <2>4. QED
      BY <1>4, <2>2, <2>3
  <1>5. QED
    BY <1>3, <1>4 DEF CompleteStatus

LEMMA CompleteLoadKeeps ==
  ASSUME IInv, NEW p \in Workers, CompleteLoad(p)
  PROVE  IInv'
  <1>1. p \in Procs /\ pc[p] = "c_load"
    BY DEF Procs, CompleteLoad
  <1>2. DataTyped' /\ DataSound' /\ DataStep
    BY DataUntouched DEF CompleteLoad
  <1>3. QED
    BY <1>1, <1>2, FailStays, EndStays DEF CompleteLoad

LEMMA AbandonKeeps ==
  ASSUME IInv, NEW p \in Procs, Abandon(p)
  PROVE  IInv'
  <1>1. pc[p] # "idle"
    BY DEF Abandon, CompleteSteps
  <1>2. DataTyped' /\ DataSound' /\ DataStep
    BY DataUntouched DEF Abandon
  <1>3. QED
    BY <1>1, <1>2, EndStays DEF Abandon

LEMMA StartCancelKeeps ==
  ASSUME IInv, NEW p \in Cancellers, StartCancel(p)
  PROVE  IInv'
  <1>1. p \in Procs /\ p \notin Workers /\ "k_stop" \in Steps /\ status # "none"
    BY WorkersAssumption, StepsAre DEF Procs, StartCancel
  <1>2. DataTyped' /\ DataSound' /\ DataStep
    BY DataUntouched DEF StartCancel
  <1>3. UNCHANGED <<watch, dead, running, todo, doc, msgs>>
    BY DEF StartCancel, workVars
  <1>4. /\ WorkerRegistered' /\ pc' \in [Procs -> Steps] /\ pc'[p] = "k_stop"
        /\ \A q \in Procs \ {p} : pc'[q] = pc[q]
    BY <1>1, <1>3, CallerMoves DEF StartCancel, IInv
  <1>5. /\ want' \in [Procs -> {"none"} \cup Aborted] /\ want'[p] # "none"
        /\ \A q \in Procs \ {p} : want'[q] = want[q]
    BY <1>1 DEF StartCancel, IInv, LocalsTyped, Aborted
  <1>6. seen' \in [Procs -> Statuses]
    BY DEF StartCancel, IInv, LocalsTyped, DataTyped
  <1>7. LocalsTyped' /\ OthersStay(p)
    BY <1>3, <1>4, <1>5, <1>6 DEF IInv, LocalsTyped, OthersStay
  <1>8. Placed(p)'
    BY <1>1, <1>2, <1>4, <1>5 DEF Placed, DataStep
  <1>9. QED
    BY <1>1, <1>2, <1>4, <1>7, <1>8, OneMoves

LEMMA PluginAbortKeeps ==
  ASSUME IInv, NEW p \in Aborters, PluginAbort(p)
  PROVE  IInv'
  <1>1. p \in Procs /\ p \notin Workers /\ "a_stop" \in Steps /\ status # "none"
    BY WorkersAssumption, StepsAre DEF Procs, PluginAbort
  <1>2. DataTyped' /\ DataSound' /\ DataStep
    BY DataUntouched DEF PluginAbort
  <1>3. UNCHANGED <<watch, dead, running, todo, doc, msgs, seen>>
    BY DEF PluginAbort, workVars
  <1>4. /\ WorkerRegistered' /\ pc' \in [Procs -> Steps] /\ pc'[p] = "a_stop"
        /\ \A q \in Procs \ {p} : pc'[q] = pc[q]
    BY <1>1, <1>3, CallerMoves DEF PluginAbort, IInv
  <1>5. /\ want' \in [Procs -> {"none"} \cup Aborted] /\ want'[p] # "none"
        /\ \A q \in Procs \ {p} : want'[q] = want[q]
    <2>1. PICK s \in Aborted : want' = [want EXCEPT ![p] = s]
      BY DEF PluginAbort
    <2>2. QED
      BY <1>1, <2>1 DEF IInv, LocalsTyped, Aborted
  <1>6. LocalsTyped' /\ OthersStay(p)
    BY <1>3, <1>4, <1>5 DEF IInv, LocalsTyped, OthersStay
  <1>7. Placed(p)'
    BY <1>1, <1>2, <1>4, <1>5 DEF Placed, DataStep
  <1>8. QED
    BY <1>1, <1>2, <1>4, <1>6, <1>7, OneMoves

LEMMA StopUploadWorkKeeps ==
  ASSUME IInv, NEW p \in Procs,
         StopUploadWork(p, "k_stop", "k_wait") \/ StopUploadWork(p, "a_stop", "a_read")
  PROVE  IInv'
  <1> USE DEF StopUploadWork
  <1>1. PICK to \in {"k_wait", "a_read"} : Goto(p, to)
    OBVIOUS
  <1>2. to \in Steps /\ pc[p] \in {"k_stop", "a_stop"}
    BY <1>1, StepsAre
  <1>3. DataTyped' /\ DataSound' /\ DataStep
    BY DataUntouched
  <1>4. UNCHANGED <<watch, running, todo, doc, msgs, seen, want>> /\ dead' = dead \cup watch
    BY DEF localVars
  <1>5. /\ WorkerRegistered' /\ pc' \in [Procs -> Steps] /\ pc'[p] = to
        /\ \A q \in Procs \ {p} : pc'[q] = pc[q]
    BY <1>1, <1>2, <1>4, CallerMoves DEF IInv
  <1>6. LocalsTyped' /\ OthersStay(p)
    BY <1>4, <1>5 DEF IInv, LocalsTyped, OthersStay
  <1>7. Placed(p)'
    BY <1>2, <1>3, <1>4, <1>5 DEF IInv, Placed, DataStep
  <1>8. QED
    BY <1>3, <1>5, <1>6, <1>7, OneMoves

LEMMA WaitUploadWorkKeeps ==
  ASSUME IInv, NEW p \in Procs, WaitUploadWork(p)
  PROVE  IInv'
  <1>1. "k_decide" \in Steps /\ pc[p] = "k_wait"
    BY StepsAre DEF WaitUploadWork
  <1>2. DataTyped' /\ DataSound' /\ DataStep
    BY DataUntouched DEF WaitUploadWork
  <1>3. Goto(p, "k_decide") /\ UNCHANGED <<localVars, workVars>>
    BY DEF WaitUploadWork
  <1>4. pc'[p] = "k_decide" /\ want'[p] = want[p]
    BY <1>1, <1>3, Holds
  <1>5. Placed(p)'
    BY <1>1, <1>2, <1>4 DEF IInv, Placed, DataStep
  <1>6. QED
    BY <1>1, <1>2, <1>3, <1>5, GoesOn

LEMMA DecideKeeps ==
  ASSUME IInv, NEW p \in Procs, Decide(p)
  PROVE  IInv'
  <1>1. "a_stop" \in Steps /\ pc[p] = "k_decide"
    BY StepsAre DEF Decide
  <1>2. DataTyped' /\ DataSound' /\ DataStep
    BY DataUntouched DEF Decide
  <1>3. CASE End(p)
    BY <1>1, <1>2, <1>3, EndStays
  <1>4. CASE Goto(p, "a_stop") /\ UNCHANGED <<localVars, workVars>>
    <2>1. pc'[p] = "a_stop" /\ want'[p] = want[p]
      BY <1>1, <1>4, Holds
    <2>2. Placed(p)'
      BY <1>1, <1>2, <2>1 DEF IInv, Placed, DataStep
    <2>3. QED
      BY <1>1, <1>2, <1>4, <2>2, GoesOn
  <1>5. QED
    BY <1>3, <1>4 DEF Decide

LEMMA AbortAfterFailureKeeps ==
  ASSUME IInv, NEW p \in Procs, AbortAfterFailure(p)
  PROVE  IInv'
  <1>1. "a_stop" \in Steps /\ pc[p] = "f_read"
    BY StepsAre DEF AbortAfterFailure
  <1>2. DataTyped' /\ DataSound' /\ DataStep
    BY DataUntouched DEF AbortAfterFailure
  <1>3. CASE End(p)
    BY <1>1, <1>2, <1>3, EndStays
  <1>4. CASE /\ want' = [want EXCEPT ![p] = "failed"] /\ Goto(p, "a_stop")
             /\ UNCHANGED <<todo, doc, msgs, seen, workVars>>
    <2>1. UNCHANGED <<watch, dead, running, todo, doc, msgs, seen>>
      BY <1>4 DEF workVars
    <2>2. /\ WorkerRegistered' /\ pc' \in [Procs -> Steps] /\ pc'[p] = "a_stop"
          /\ \A q \in Procs \ {p} : pc'[q] = pc[q]
      BY <1>1, <1>4, <2>1, CallerMoves DEF IInv
    <2>3. /\ want' \in [Procs -> {"none"} \cup Aborted] /\ want'[p] # "none"
          /\ \A q \in Procs \ {p} : want'[q] = want[q]
      BY <1>4 DEF IInv, LocalsTyped, Aborted
    <2>4. LocalsTyped' /\ OthersStay(p)
      BY <2>1, <2>2, <2>3 DEF IInv, LocalsTyped, OthersStay
    <2>5. Placed(p)'
      BY <1>1, <1>2, <2>2, <2>3 DEF IInv, Placed, DataStep
    <2>6. QED
      BY <1>2, <2>2, <2>4, <2>5, OneMoves
  <1>5. QED
    BY <1>3, <1>4 DEF AbortAfterFailure

\* The messages a deletion reads from the rows of the file.
LEMMA FileMessages == DataTyped => {rows[i] : i \in Segments} \ {0} \subseteq 1..MaxDocs
  BY MaxDocsAssumption DEF DataTyped

LEMMA AbortReadKeeps ==
  ASSUME IInv, NEW p \in Procs, AbortRead(p)
  PROVE  IInv'
  <1> DEFINE to == IF file = "absent" THEN "a_set" ELSE "a_del"
  <1>1. to \in Steps /\ pc[p] = "a_read" /\ Goto(p, to)
    BY StepsAre DEF AbortRead
  <1>2. DataTyped' /\ DataSound' /\ DataStep
    BY DataUntouched DEF AbortRead
  <1>3. UNCHANGED <<watch, dead, running, todo, doc, seen, want, file>>
    BY DEF AbortRead, workVars, fileVars
  <1>4. /\ WorkerRegistered' /\ pc' \in [Procs -> Steps] /\ pc'[p] = to
        /\ \A q \in Procs \ {p} : pc'[q] = pc[q]
    <2> HIDE DEF to
    <2>1. QED
      BY <1>1, <1>3, CallerMoves DEF IInv
  <1>5. msgs' \in [Procs -> SUBSET (1..MaxDocs)]
    BY FileMessages DEF AbortRead, IInv, LocalsTyped
  <1>6. LocalsTyped' /\ OthersStay(p)
    BY <1>3, <1>4, <1>5 DEF IInv, LocalsTyped, OthersStay
  <1>7. Placed(p)'
    BY <1>1, <1>2, <1>3, <1>4 DEF IInv, Placed, DataStep
  <1>8. QED
    BY <1>2, <1>4, <1>6, <1>7, OneMoves

LEMMA StartDeleteKeeps ==
  ASSUME IInv, NEW p \in Deleters, StartDelete(p)
  PROVE  IInv'
  <1>1. p \in Procs /\ p \notin Workers /\ "a_del" \in Steps /\ status # "none"
    BY WorkersAssumption, StepsAre DEF Procs, StartDelete
  <1>2. DataTyped' /\ DataSound' /\ DataStep
    BY DataUntouched DEF StartDelete
  <1>3. UNCHANGED <<watch, dead, running, todo, doc, seen, want>>
    BY DEF StartDelete, workVars
  <1>4. /\ WorkerRegistered' /\ pc' \in [Procs -> Steps] /\ pc'[p] = "a_del"
        /\ \A q \in Procs \ {p} : pc'[q] = pc[q]
    BY <1>1, <1>3, CallerMoves DEF StartDelete, IInv
  <1>5. msgs' \in [Procs -> SUBSET (1..MaxDocs)]
    BY FileMessages DEF StartDelete, IInv, LocalsTyped
  <1>6. LocalsTyped' /\ OthersStay(p)
    BY <1>3, <1>4, <1>5 DEF IInv, LocalsTyped, OthersStay
  <1>7. Placed(p)'
    BY <1>1, <1>2, <1>4 DEF Placed, DataStep
  <1>8. QED
    BY <1>1, <1>2, <1>4, <1>6, <1>7, OneMoves

LEMMA DeleteMessagesKeeps ==
  ASSUME IInv, NEW p \in Procs, DeleteMessages(p)
  PROVE  IInv'
  <1>1. {"a_row", "a_set"} \subseteq Steps /\ pc[p] = "a_del"
    BY StepsAre DEF DeleteMessages
  <1>2. UNCHANGED <<source, status, mask, uploaded, file, rows, posted, crashes>>
    BY DEF DeleteMessages, jobVars, fileVars
  <1>3. docs' \subseteq 1..posted' /\ delFailed' \in BOOLEAN /\ (delFailed => delFailed')
    BY <1>2 DEF DeleteMessages, IInv, DataTyped
  <1>4. DataTyped' /\ DataStep
    BY <1>2, <1>3 DEF IInv, DataTyped, DataStep
  <1>5. DataSound'
    BY <1>2, <1>3 DEF IInv, DataSound, BytesMatchMask, DoneIsStored, AbortCleansUp, Done
  <1>6. CASE Goto(p, "a_row") /\ UNCHANGED <<localVars, workVars>>
    <2>1. pc'[p] = "a_row"
      BY <1>1, <1>6, Holds
    <2>2. Placed(p)'
      BY <1>1, <1>4, <2>1 DEF IInv, Placed, DataStep
    <2>3. QED
      BY <1>1, <1>4, <1>5, <1>6, <2>2, GoesOn
  <1>7. CASE End(p)
    BY <1>1, <1>4, <1>5, <1>7, EndStays
  <1>8. CASE /\ delFailed' = TRUE /\ want[p] # "none"
             /\ Goto(p, "a_set") /\ UNCHANGED <<localVars, workVars>>
    <2>1. pc'[p] = "a_set" /\ want'[p] = want[p]
      BY <1>1, <1>8, Holds
    <2>2. Placed(p)'
      BY <1>1, <1>4, <1>8, <2>1 DEF IInv, Placed, DataStep
    <2>3. QED
      BY <1>1, <1>4, <1>5, <1>8, <2>2, GoesOn
  <1>9. QED
    BY <1>6, <1>7, <1>8 DEF DeleteMessages

LEMMA DeleteFileKeeps ==
  ASSUME IInv, NEW p \in Procs, DeleteFile(p)
  PROVE  IInv'
  <1>1. "a_set" \in Steps /\ pc[p] = "a_row"
    BY StepsAre DEF DeleteFile
  <1>2. /\ UNCHANGED <<source, status, mask, uploaded, docs, posted, delFailed, crashes>>
        /\ file' = "absent" /\ rows' = [i \in Segments |-> 0]
    BY DEF DeleteFile, jobVars, channelVars
  <1>3. rows' \in [Segments -> 0..MaxDocs]
    BY <1>2, MaxDocsAssumption
  <1>4. DataTyped' /\ DataStep
    BY <1>2, <1>3 DEF IInv, DataTyped, DataStep
  <1>5. DataSound'
    BY <1>2 DEF IInv, DataSound, BytesMatchMask, DoneIsStored, AbortCleansUp
  <1>6. CASE End(p)
    BY <1>1, <1>4, <1>5, <1>6, EndStays
  <1>7. CASE want[p] # "none" /\ Goto(p, "a_set") /\ UNCHANGED <<localVars, workVars>>
    <2>1. pc'[p] = "a_set" /\ want'[p] = want[p]
      BY <1>1, <1>7, Holds
    <2>2. Placed(p)'
      BY <1>1, <1>2, <1>4, <1>7, <2>1 DEF IInv, Placed, DataStep
    <2>3. QED
      BY <1>1, <1>4, <1>5, <1>7, <2>2, GoesOn
  <1>8. QED
    BY <1>6, <1>7 DEF DeleteFile

LEMMA AbortSetKeeps ==
  ASSUME IInv, NEW p \in Procs, AbortSet(p)
  PROVE  IInv'
  <1>1. pc[p] = "a_set" /\ want[p] \in Aborted /\ (file = "absent" \/ delFailed)
    BY DEF AbortSet, IInv, LocalsTyped, Placed
  <1>2. status' \in Aborted
    BY <1>1 DEF AbortSet
  <1>3. DataTyped' /\ DataSound' /\ DataStep
    BY <1>1, <1>2, StatusMoves DEF AbortSet, Aborted, Statuses
  <1>4. QED
    BY <1>1, <1>3, EndStays DEF AbortSet

LEMMA PutStepKeeps ==
  ASSUME IInv, NEW p \in Putters, PutStep(p)
  PROVE  IInv'
  BY WatchKeeps, AdmitKeeps, PutCheckKeeps, PutStartKeeps, UploadKeeps, UpsertSegmentKeeps,
     MarkSegmentDoneKeeps
  DEF PutStep

LEMMA CompleteStepKeeps ==
  ASSUME IInv, NEW p \in Procs, CompleteStep(p)
  PROVE  IInv'
  BY CompleteReadKeeps, CompleteFileKeeps, CompleteStatusKeeps DEF CompleteStep

LEMMA AbortStepKeeps ==
  ASSUME IInv, NEW p \in Procs, AbortStep(p)
  PROVE  IInv'
  BY StopUploadWorkKeeps, AbortReadKeeps, DeleteMessagesKeeps, DeleteFileKeeps, AbortSetKeeps
  DEF AbortStep

LEMMA FailStepKeeps ==
  ASSUME IInv, NEW p \in Procs, FailStep(p)
  PROVE  IInv'
  BY AbortAfterFailureKeeps, AbortStepKeeps DEF FailStep

LEMMA NextInv == IInv /\ [Next]_vars => IInv'
  <1> SUFFICES ASSUME IInv, [Next]_vars PROVE IInv'
    OBVIOUS
  <1>1. CASE BeginFile \/ BeginJob \/ BeginRollback \/ Crash
    BY <1>1, BeginFileKeeps, BeginJobKeeps, CrashKeeps
  <1>2. ASSUME NEW r \in Requests, PutStep(r) \/ HangUp(r) \/ \E i \in Segments : HandlePut(r, i)
        PROVE  IInv'
    <2>1. r \in Putters
      BY DEF Putters
    <2>2. QED
      BY <1>2, <2>1, PutStepKeeps, HangUpKeeps, HandlePutKeeps
  <1>3. ASSUME NEW s \in Streams, StreamStep(s) \/ HangUp(s)
        PROVE  IInv'
    <2>1. s \in Putters /\ s \in Procs
      BY DEF Putters, Procs
    <2>2. QED
      BY <1>3, <2>1, StreamQueueKeeps, PutStepKeeps, CompleteStepKeeps, FailStepKeeps, HangUpKeeps
      DEF StreamStep
  <1>4. ASSUME NEW w \in Workers, Resume(w) \/ WorkerStep(w)
        PROVE  IInv'
    <2>1. w \in Putters /\ w \in Procs
      BY DEF Putters, Procs
    <2>2. QED
      BY <1>4, <2>1, ResumeKeeps, ScheduleKeeps, WorkerFileKeeps, PutStepKeeps, CompleteStepKeeps,
         CompleteLoadKeeps, FailStepKeeps
      DEF WorkerStep
  <1>5. ASSUME NEW c \in Completers, StartComplete(c) \/ CompleteStep(c) \/ Abandon(c)
        PROVE  IInv'
    <2>1. c \in Procs
      BY DEF Procs
    <2>2. QED
      BY <1>5, <2>1, StartCompleteKeeps, CompleteStepKeeps, AbandonKeeps
  <1>6. ASSUME NEW k \in Cancellers, StartCancel(k) \/ CancelStep(k) \/ Abandon(k)
        PROVE  IInv'
    <2>1. k \in Procs
      BY DEF Procs
    <2>2. QED
      BY <1>6, <2>1, StartCancelKeeps, StopUploadWorkKeeps, WaitUploadWorkKeeps, DecideKeeps,
         AbortStepKeeps, AbandonKeeps
      DEF CancelStep
  <1>7. ASSUME NEW a \in Aborters, PluginAbort(a) \/ AbortStep(a) \/ Abandon(a)
        PROVE  IInv'
    <2>1. a \in Procs
      BY DEF Procs
    <2>2. QED
      BY <1>7, <2>1, PluginAbortKeeps, AbortStepKeeps, AbandonKeeps
  <1>8. ASSUME NEW d \in Deleters, StartDelete(d) \/ DeleteStep(d) \/ Abandon(d)
        PROVE  IInv'
    <2>1. d \in Procs
      BY DEF Procs
    <2>2. QED
      BY <1>8, <2>1, StartDeleteKeeps, DeleteMessagesKeeps, DeleteFileKeeps, AbandonKeeps
      DEF DeleteStep
  <1>9. CASE UNCHANGED vars
    <2>1. UNCHANGED <<source, status, mask, uploaded, file, rows, docs, posted, watch, dead, running,
                      pc, todo, doc, msgs, seen, want, delFailed, crashes>>
      BY <1>9 DEF vars
    <2>2. DataTyped' /\ LocalsTyped'
      BY <2>1 DEF IInv, DataTyped, LocalsTyped
    <2>3. DataSound' /\ WorkerRegistered'
      BY <2>1 DEF IInv, DataSound, BytesMatchMask, DoneIsStored, AbortCleansUp, Done,
                  WorkerRegistered, OneWorker
    <2>4. \A p \in Procs : Placed(p)'
      BY <2>1 DEF IInv, Placed, Seg, Done
    <2>5. QED
      BY <2>2, <2>3, <2>4 DEF IInv
  <1>10. QED
    BY <1>1, <1>2, <1>3, <1>4, <1>5, <1>6, <1>7, <1>8, <1>9 DEF Next

\* The inductive invariant holds in every state a server can reach with one upload,
\* whatever requests, workers, streams, cancellations, deletions and restarts it meets.
THEOREM InvariantHolds == Spec => []IInv
  <1>1. QED
    BY InitInv, NextInv, PTL DEF Spec

\* The row of an upload tells the truth about it: its progress is that of distinct
\* segments, what it calls done is stored, and one goroutine at most works on it
\* (MarkSegmentDone, PutSegment, Complete, scheduleJobWorker).
THEOREM UploadsAreSound == Spec => []UploadSound
  <1>1. IInv => UploadSound
    BY TypeSplit DEF IInv, DataSound, WorkerRegistered, UploadSound
  <1>2. QED
    BY <1>1, InvariantHolds, PTL

\* A job recorded as failed or cancelled has given its name back, unless Telegram
\* refused to delete its documents (Abort, abortAfterFailure).
THEOREM AbortsCleanUp == Spec => []AbortCleansUp
  <1>1. IInv => AbortCleansUp
    BY DEF IInv, DataSound
  <1>2. QED
    BY <1>1, InvariantHolds, PTL

\* What a step may do to the status of a job that has been aborted.
StatusStep == status' = status \/ status \notin Aborted \/ status' \in Terminal

LEMMA PutStepStatus ==
  ASSUME NEW p, PutStep(p)
  PROVE  StatusStep
  <1>1. CASE Watch(p) \/ PutCheck(p) \/ Upload(p) \/ UpsertSegment(p)
    BY <1>1 DEF Watch, PutCheck, Upload, UpsertSegment, jobVars, StatusStep
  <1>2. CASE Admit(p) \/ PutStart(p)
    BY <1>2 DEF Admit, PutStart, MayRun, Aborted, StatusStep
  <1>3. CASE MarkSegmentDone(p)
    BY <1>3 DEF MarkSegmentDone, MarkRefused, StatusStep
  <1>4. QED
    BY <1>1, <1>2, <1>3 DEF PutStep

LEMMA CompleteStepStatus ==
  ASSUME NEW p, CompleteStep(p)
  PROVE  StatusStep
  BY DEF CompleteStep, CompleteRead, CompleteFile, CompleteStatus, jobVars, StatusStep, Terminal

LEMMA AbortStepStatus ==
  ASSUME IInv, NEW p \in Procs, AbortStep(p)
  PROVE  StatusStep
  <1>1. CASE AbortSet(p)
    BY <1>1 DEF AbortSet, IInv, LocalsTyped, Placed, StatusStep, Terminal
  <1>2. CASE StopUploadWork(p, "a_stop", "a_read") \/ AbortRead(p) \/ DeleteMessages(p) \/ DeleteFile(p)
    BY <1>2 DEF StopUploadWork, AbortRead, DeleteMessages, DeleteFile, jobVars, StatusStep
  <1>3. QED
    BY <1>1, <1>2 DEF AbortStep

LEMMA NextStatus == IInv /\ [Next]_vars => StatusStep
  <1> SUFFICES ASSUME IInv, [Next]_vars PROVE StatusStep
    OBVIOUS
  <1>1. CASE BeginFile \/ BeginJob \/ BeginRollback \/ Crash
    BY <1>1 DEF BeginFile, BeginJob, BeginRollback, Crash, jobVars, StatusStep, Aborted
  <1>2. ASSUME NEW r \in Requests, PutStep(r) \/ HangUp(r) \/ \E i \in Segments : HandlePut(r, i)
        PROVE  StatusStep
    <2>1. CASE HangUp(r) \/ \E i \in Segments : HandlePut(r, i)
      BY <2>1 DEF HangUp, HandlePut, jobVars, StatusStep
    <2>2. QED
      BY <1>2, <2>1, PutStepStatus
  <1>3. ASSUME NEW s \in Streams, StreamStep(s) \/ HangUp(s)
        PROVE  StatusStep
    <2>1. s \in Procs
      BY DEF Procs
    <2>2. CASE HangUp(s) \/ StreamQueue(s) \/ AbortAfterFailure(s)
      BY <2>2 DEF HangUp, StreamQueue, AbortAfterFailure, jobVars, StatusStep
    <2>3. QED
      BY <1>3, <2>1, <2>2, PutStepStatus, CompleteStepStatus, AbortStepStatus
      DEF StreamStep, FailStep
  <1>4. ASSUME NEW w \in Workers, Resume(w) \/ WorkerStep(w)
        PROVE  StatusStep
    <2>1. w \in Procs
      BY DEF Procs
    <2>2. CASE Resume(w) \/ Schedule(w) \/ WorkerFile(w) \/ CompleteLoad(w) \/ AbortAfterFailure(w)
      BY <2>2 DEF Resume, Schedule, WorkerFile, CompleteLoad, AbortAfterFailure, jobVars, StatusStep
    <2>3. QED
      BY <1>4, <2>1, <2>2, PutStepStatus, CompleteStepStatus, AbortStepStatus
      DEF WorkerStep, FailStep
  <1>5. ASSUME NEW p \in Procs, Abandon(p)
        PROVE  StatusStep
    BY <1>5 DEF Abandon, jobVars, StatusStep
  <1>6. ASSUME NEW c \in Completers, StartComplete(c) \/ CompleteStep(c) \/ Abandon(c)
        PROVE  StatusStep
    <2>1. CASE StartComplete(c)
      BY <2>1 DEF StartComplete, jobVars, StatusStep
    <2>2. QED
      BY <1>5, <1>6, <2>1, CompleteStepStatus DEF Procs
  <1>7. ASSUME NEW k \in Cancellers, StartCancel(k) \/ CancelStep(k) \/ Abandon(k)
        PROVE  StatusStep
    <2>1. k \in Procs
      BY DEF Procs
    <2>2. CASE StartCancel(k) \/ StopUploadWork(k, "k_stop", "k_wait") \/ WaitUploadWork(k) \/ Decide(k)
      BY <2>2 DEF StartCancel, StopUploadWork, WaitUploadWork, Decide, jobVars, StatusStep
    <2>3. QED
      BY <1>5, <1>7, <2>1, <2>2, AbortStepStatus DEF CancelStep
  <1>8. ASSUME NEW a \in Aborters, PluginAbort(a) \/ AbortStep(a) \/ Abandon(a)
        PROVE  StatusStep
    <2>1. a \in Procs
      BY DEF Procs
    <2>2. CASE PluginAbort(a)
      BY <2>2 DEF PluginAbort, jobVars, StatusStep
    <2>3. QED
      BY <1>5, <1>8, <2>1, <2>2, AbortStepStatus
  <1>9. ASSUME NEW d \in Deleters, StartDelete(d) \/ DeleteStep(d) \/ Abandon(d)
        PROVE  StatusStep
    <2>1. d \in Procs
      BY DEF Procs
    <2>2. CASE StartDelete(d) \/ DeleteStep(d)
      BY <2>2 DEF StartDelete, DeleteStep, DeleteMessages, DeleteFile, jobVars, StatusStep
    <2>3. QED
      BY <1>5, <1>9, <2>1, <2>2
  <1>10. CASE UNCHANGED vars
    BY <1>10 DEF vars, StatusStep
  <1>11. QED
    BY <1>1, <1>2, <1>3, <1>4, <1>6, <1>7, <1>8, <1>9, <1>10 DEF Next

\* A stopped transfer never reads as live again, whoever is still unwinding when it
\* was stopped (SetJobStatusIf, MarkSegmentDone).
THEOREM AbortedStaysEnded == Spec => NeverRevived
  <1>1. IInv /\ [Next]_vars =>
          [(status \in Aborted) => (status' \notin {"pending", "running"})]_vars
    BY NextStatus DEF StatusStep, Terminal, Aborted
  <1>2. QED
    BY <1>1, InvariantHolds, PTL DEF Spec, NeverRevived

-----------------------------------------------------------------------------
(***************************************************************************)
(* The directory tree.                                                     *)
(***************************************************************************)
\* One request at a time: what the drive promises of paths and of messages it
\* promises to one caller, whose captions are refreshed in the background.
OneCaller == \A c, e \in Callers : c = e

\* No two directories whose paths are one path to LIKE.
NoCaseTwins ==
  \A i, j \in DOMAIN dirs : FoldPath(dirs[i].path) = FoldPath(dirs[j].path) => i = j

\* The path of a folder, the root included.
PathOf(i) == IF i = Root THEN <<>> ELSE dirs[i].path
AtPath(i, p) == i \in DOMAIN dirs \cup {Root} /\ PathOf(i) = p

\* The messages of a file, whatever their order.
FileMsgs(f) == {FileMsg(f, k) : k \in 1..Segs}

\* A directory has the message of its number, a file those of its numbers; the
\* recovery folder has none, and nobody takes it for backed.
ChannelFits ==
  \A m \in DOMAIN channel :
    \/ channel[m].kind = "dir" /\ channel[m].id = m /\ m \in 1..nextDir - 1
    \/ /\ channel[m].kind = "file" /\ channel[m].id \in 1..nextFile - 1
       /\ channel[m].seg \in 1..Segs /\ m \in FileMsgs(channel[m].id)

DirFits(i) ==
  /\ dirs[i] \in [parent : Int, name : AllNames, path : Seq(AllNames), msg : Nat]
  /\ \/ i \in 1..nextDir - 1 /\ dirs[i].msg = i
     \/ i = Recovered /\ dirs[i].msg = 0 /\ D(Recovered) \in lost

FileRowFits(f) ==
  /\ f \in 1..nextFile - 1
  /\ DOMAIN files[f] = {"dir", "name", "status", "count", "segs"}
  /\ DOMAIN files[f].segs \subseteq 1..Segs
  /\ \A s \in DOMAIN files[f].segs : files[f].segs[s] \in FileMsgs(f)

\* What a caller holds between two of its steps.
SrcFits(o) ==
  /\ o.path \in Seq(AllNames) /\ o.src \in Seq(AllNames)
  /\ o.src # <<>> => o.src # o.path /\ ~IsDescendant(o.src, o.path)

\* Mkdir before and while it looks.
Walking(o) ==
  /\ o.pc = "walk" /\ SrcFits(o)
  /\ o.done \in 0..Len(o.path) /\ AtPath(o.parent, SubSeq(o.path, 1, o.done))

\* Mkdir with a directory under way, whose number is the newest.
Making(o) ==
  /\ DOMAIN o = {"pc", "path", "src", "done", "parent", "id"}
  /\ o.pc \in {"send", "insert", "unsend"} /\ SrcFits(o)
  /\ o.done \in 1..Len(o.path) /\ AtPath(o.parent, SubSeq(o.path, 1, o.done - 1))
  /\ o.id = nextDir - 1 /\ o.id \in 1..MaxDirs /\ o.id \notin DOMAIN dirs
  /\ o.pc = "insert" => o.id \in DOMAIN channel

\* Move with its target made.
Placing(o) ==
  /\ o.pc = "place" /\ SrcFits(o) /\ o.src # <<>>
  /\ AtPath(o.target, o.path)

\* A directory about to move: not into itself or what is below it.
UpdatingDir(o) ==
  /\ o.pc = "updateDir" /\ o.id \in DOMAIN dirs /\ o.name \in AllNames
  /\ o.parent \in DOMAIN dirs \cup {Root} /\ o.path = Join(PathOf(o.parent), o.name)
  /\ PathOf(o.parent) # dirs[o.id].path /\ ~IsDescendant(dirs[o.id].path, PathOf(o.parent))

\* A directory that has moved, one caption to rewrite.
CaptioningDir(o) == o.pc = "dirCaption" /\ o.id \in DOMAIN dirs /\ o.row = dirs[o.id]

\* A file about to move.
UpdatingFile(o) == o.pc = "updateFile" /\ o.id \in DOMAIN files

\* A file that has moved, its captions before this one rewritten.
CaptioningFile(o) ==
  /\ DOMAIN o = {"pc", "id", "row", "seg", "overtaken"}
  /\ o.pc = "fileCaption" /\ o.id \in DOMAIN files /\ o.seg \in 1..Segs
  /\ \A s \in DOMAIN files[o.id].segs : s < o.seg => files[o.id].segs[s] \in DOMAIN channel

\* A record with a row.
RecFits(rec) ==
  \/ \E i \in DOMAIN dirs : rec = D(i)
  \/ \E f \in DOMAIN files : rec = F(f)

\* The messages of all that goes with a record.
MessagesUnder(rec) ==
  {dirs[j].msg : j \in Dropped(rec).dirs}
    \cup UNION {Range(files[f].segs) : f \in Dropped(rec).files}

\* Delete with messages to remove.
Purging(o) == o.pc = "purge" /\ RecFits(o.rec) /\ o.msgs \subseteq MessagesUnder(o.rec)

\* Delete with rows to remove.
Dropping(o) == o.pc = "drop" /\ RecFits(o.rec)

\* All that a caller may hold.
OpFits(o) ==
  \/ o = Idle \/ Walking(o) \/ Making(o) \/ Placing(o) \/ UpdatingDir(o) \/ CaptioningDir(o)
  \/ UpdatingFile(o) \/ CaptioningFile(o) \/ Purging(o) \/ Dropping(o)

\* A row has its messages unless a call for its record failed, or its messages
\* have just been deleted and it is the next to go.
Going(r) == \E c \in Callers : op[c].pc = "drop" /\ r \in Dropped(op[c].rec).recs

Backed ==
  /\ \A i \in DOMAIN dirs : D(i) \in lost \/ Going(D(i)) \/ dirs[i].msg \in DOMAIN channel
  /\ \A f \in DOMAIN files :
       F(f) \in lost \/ Going(F(f)) \/ Range(files[f].segs) \subseteq DOMAIN channel

\* While the index is lost, or a rebuild runs, no operation does.
Phases ==
  /\ DOMAIN op = Callers
  /\ drill => Quiet
  /\ rebuild # Idle => Quiet
  /\ nextDir \in 1..MaxDirs + 1 /\ nextFile \in 1..MaxFiles + 1

\* While the index is lost only rebuilds run, and each replaces all of it.
Live ==
  /\ ChannelFits
  /\ \A i \in DOMAIN dirs : DirFits(i)
  /\ \A f \in DOMAIN files : FileRowFits(f)
  /\ \A c \in Callers : OpFits(op[c])
  /\ Backed

\* The inductive invariant.
TreeIInv == PathsMatch /\ Phases /\ (~drill => Live)

-----------------------------------------------------------------------------
(***************************************************************************)
(* Paths: one is below another when its first names are those of the other.*)
(***************************************************************************)
\* Below, name by name.
LEMMA DescendantMeans ==
  ASSUME NEW S, NEW p \in Seq(S), NEW q \in Seq(S)
  PROVE  IsDescendant(p, q) <=> Len(p) < Len(q) /\ \A k \in 1..Len(p) : p[k] = q[k]
  <1>1. Len(p) \in Nat /\ Len(q) \in Nat /\ DOMAIN p = 1..Len(p) /\ DOMAIN q = 1..Len(q)
    BY LenProperties
  <1>2. ASSUME IsDescendant(p, q)
        PROVE  Len(p) < Len(q) /\ \A k \in 1..Len(p) : p[k] = q[k]
    <2>1. Len(p) <= Len(q) /\ SubSeq(p, 1, Len(p)) = SubSeq(q, 1, Len(p)) /\ p # q
      BY <1>2 DEF IsDescendant, IsStrictPrefix, IsPrefix
    <2>2. \A k \in 1..Len(p) : SubSeq(p, 1, Len(p))[k] = p[k]
      BY <1>1, ElementOfSeq, SubSeqProperties, SMT
    <2>3. \A k \in 1..Len(p) : SubSeq(q, 1, Len(p))[k] = q[k]
      <3>1. \A k \in 1..Len(p) : q[k] \in S
        BY <1>1, <2>1, ElementOfSeq
      <3>2. QED
        BY <1>1, <3>1, SubSeqProperties, SMT
    <2>4. \A k \in 1..Len(p) : p[k] = q[k]
      BY <2>1, <2>2, <2>3
    <2>5. Len(p) # Len(q)
      BY <1>1, <2>1, <2>4, SeqEqual
    <2>6. Len(p) < Len(q)
      <3>1. Len(p) <= Len(q)
        BY <2>1
      <3>2. Len(p) \in Nat /\ Len(q) \in Nat
        BY <1>1
      <3>3. QED
        BY <2>5, <3>1, <3>2
    <2>7. QED
      BY <2>4, <2>6
  <1>3. ASSUME Len(p) < Len(q), \A k \in 1..Len(p) : p[k] = q[k]
        PROVE  IsDescendant(p, q)
    <2>1. \A k \in 1..Len(p) : p[k] \in S /\ q[k] \in S
      BY <1>1, <1>3, ElementOfSeq
    <2>2. /\ SubSeq(p, 1, Len(p)) \in Seq(S) /\ Len(SubSeq(p, 1, Len(p))) = Len(p)
          /\ \A k \in 1..Len(p) : SubSeq(p, 1, Len(p))[k] = p[k]
      BY <1>1, <2>1, SubSeqProperties, SMT
    <2>3. /\ SubSeq(q, 1, Len(p)) \in Seq(S) /\ Len(SubSeq(q, 1, Len(p))) = Len(p)
          /\ \A k \in 1..Len(p) : SubSeq(q, 1, Len(p))[k] = q[k]
      BY <1>1, <2>1, SubSeqProperties, SMT
    <2>4. SubSeq(p, 1, Len(p)) = SubSeq(q, 1, Len(p))
      BY <1>3, <2>2, <2>3, SeqEqual
    <2>5. p # q
      BY <1>1, <1>3
    <2>6. QED
      BY <1>1, <1>3, <2>4, <2>5 DEF IsDescendant, IsStrictPrefix, IsPrefix
  <1>4. QED
    BY <1>2, <1>3

\* The first n names of a path.
LEMMA FirstNames ==
  ASSUME NEW S, NEW p \in Seq(S), NEW n \in 0..Len(p)
  PROVE  /\ SubSeq(p, 1, n) \in Seq(S) /\ Len(SubSeq(p, 1, n)) = n
         /\ \A k \in 1..n : SubSeq(p, 1, n)[k] = p[k]
         /\ n = Len(p) => SubSeq(p, 1, n) = p
         /\ n = 0 => SubSeq(p, 1, n) = <<>>
  <1>1. Len(p) \in Nat
    BY LenProperties
  <1>2. \A k \in 1..n : p[k] \in S
    BY <1>1, ElementOfSeq
  <1>3. /\ SubSeq(p, 1, n) \in Seq(S) /\ Len(SubSeq(p, 1, n)) = n
        /\ \A k \in 1..n : SubSeq(p, 1, n)[k] = p[k]
    BY <1>1, <1>2, SubSeqProperties, SMT
  <1>4. n = Len(p) => SubSeq(p, 1, n) = p
    BY <1>1, <1>3, SeqEqual
  <1>5. n = 0 => SubSeq(p, 1, n) = <<>>
    BY SubSeqEmpty, SMT
  <1>6. QED
    BY <1>3, <1>4, <1>5

\* The path of a name in a folder.
LEMMA JoinGives ==
  ASSUME NEW S, NEW p \in Seq(S), NEW n \in S
  PROVE  /\ Join(p, n) \in Seq(S) /\ Len(Join(p, n)) = Len(p) + 1 /\ Len(p) \in Nat
         /\ \A k \in 1..Len(p) : Join(p, n)[k] = p[k]
         /\ Join(p, n)[Len(p) + 1] = n
  BY AppendProperties, LenProperties DEF Join

\* The names above the last one.
LEMMA JoinAbove ==
  ASSUME NEW S, NEW p \in Seq(S), NEW n \in S
  PROVE  SubSeq(Join(p, n), 1, Len(p)) = p
  <1>1. /\ Join(p, n) \in Seq(S) /\ Len(Join(p, n)) = Len(p) + 1 /\ Len(p) \in Nat
        /\ \A k \in 1..Len(p) : Join(p, n)[k] = p[k]
    BY JoinGives
  <1>2. Len(p) \in 0..Len(Join(p, n))
    BY <1>1
  <1>3. QED
    BY <1>1, <1>2, FirstNames, SeqEqual

\* A path is its folder's and its last name.
LEMMA JoinOfParts ==
  ASSUME NEW S, NEW p \in Seq(S), NEW n \in 1..Len(p)
  PROVE  SubSeq(p, 1, n) = Join(SubSeq(p, 1, n - 1), p[n])
  <1>1. Len(p) \in Nat /\ n - 1 \in 0..Len(p) /\ n \in 0..Len(p) /\ p[n] \in S
    BY LenProperties, ElementOfSeq
  <1>2. /\ SubSeq(p, 1, n) \in Seq(S) /\ Len(SubSeq(p, 1, n)) = n
        /\ \A k \in 1..n : SubSeq(p, 1, n)[k] = p[k]
    BY <1>1, FirstNames
  <1>3. /\ SubSeq(p, 1, n - 1) \in Seq(S) /\ Len(SubSeq(p, 1, n - 1)) = n - 1
        /\ \A k \in 1..n - 1 : SubSeq(p, 1, n - 1)[k] = p[k]
    BY <1>1, FirstNames
  <1> DEFINE above == SubSeq(p, 1, n - 1)
             j == Join(above, p[n])
  <1>4. /\ j \in Seq(S) /\ Len(j) = n
        /\ \A k \in 1..n - 1 : j[k] = above[k]
        /\ j[n] = p[n]
    <2>1. above \in Seq(S) /\ Len(above) = n - 1
      BY <1>3
    <2> HIDE DEF above
    <2>2. /\ j \in Seq(S) /\ Len(j) = Len(above) + 1
          /\ \A k \in 1..Len(above) : j[k] = above[k]
          /\ j[Len(above) + 1] = p[n]
      <3>1. p[n] \in S
        BY <1>1
      <3>2. above \in Seq(S)
        BY <2>1
      <3> DEFINE e == p[n]
      <3>a. e \in S
        BY <3>1
      <3> HIDE DEF e
      <3>3. /\ Join(above, e) \in Seq(S) /\ Len(Join(above, e)) = Len(above) + 1
            /\ \A k \in 1..Len(above) : Join(above, e)[k] = above[k]
            /\ Join(above, e)[Len(above) + 1] = e
        BY <3>2, <3>a, JoinGives, SMTT(60)
      <3>4. QED
        BY <3>3 DEF e
    <2> HIDE DEF j
    <2>3. Len(above) + 1 = n
      BY <1>1, <2>1
    <2>4. QED
      BY <2>1, <2>2, <2>3
  <1>5. \A k \in 1..n : j[k] = SubSeq(p, 1, n)[k]
    <2> HIDE DEF j
    <2> TAKE k \in 1..n
    <2>1. CASE k = n
      BY <1>1, <1>2, <1>4, <2>1
    <2>2. CASE k \in 1..n - 1
      BY <1>1, <1>2, <1>3, <1>4, <2>2
    <2>3. QED
      BY <1>1, <2>1, <2>2
  <1>6. j = SubSeq(p, 1, n)
    <2> HIDE DEF j
    <2>1. QED
      BY <1>1, <1>2, <1>4, <1>5, SeqEqual
  <1>7. QED
    BY <1>6

\* What LIKE compares.
LEMMA FoldGives ==
  ASSUME NEW p \in Seq(AllNames)
  PROVE  /\ FoldPath(p) \in Seq({FoldName(n) : n \in AllNames})
         /\ Len(FoldPath(p)) = Len(p) /\ Len(p) \in Nat
         /\ \A k \in 1..Len(p) : FoldPath(p)[k] = FoldName(p[k])
  <1> DEFINE T == {FoldName(n) : n \in AllNames}
             f == [k \in 1..Len(p) |-> FoldName(p[k])]
  <1>1. Len(p) \in Nat /\ DOMAIN p = 1..Len(p)
    BY LenProperties
  <1>2. FoldPath(p) = f
    BY <1>1 DEF FoldPath
  <1>3. \A k \in 1..Len(p) : p[k] \in AllNames
    BY ElementOfSeq
  <1>4. f \in [1..Len(p) -> T]
    BY <1>3
  <1>5. f \in Seq(T) /\ Len(f) = Len(p)
    <2> HIDE DEF T, f
    <2>1. f \in Seq(T)
      BY <1>1, <1>4, SeqDef
    <2>2. DOMAIN f = 1..Len(p) /\ DOMAIN f = 1..Len(f) /\ Len(f) \in Nat
      BY <1>4, <2>1, LenProperties
    <2>3. QED
      BY <1>1, <2>1, <2>2
  <1>6. QED
    BY <1>1, <1>2, <1>5

-----------------------------------------------------------------------------
(***************************************************************************)
(* The tree of the directories.                                            *)
(***************************************************************************)
\* What the lemmas need of the rows.
TreeFits ==
  /\ Root \notin DOMAIN dirs /\ DOMAIN dirs \subseteq Int
  /\ \A i \in DOMAIN dirs :
       /\ dirs[i] \in [parent : Int, name : AllNames, path : Seq(AllNames), msg : Nat]
       /\ dirs[i].parent \in DOMAIN dirs \cup {Root}
       /\ dirs[i].path = Join(PathOf(dirs[i].parent), dirs[i].name)
  /\ \A i, j \in DOMAIN dirs : dirs[i].path = dirs[j].path => i = j

\* A folder has a path, the root the empty one.
LEMMA PathsOfFolders ==
  ASSUME TreeFits, NEW i \in DOMAIN dirs \cup {Root}
  PROVE  PathOf(i) \in Seq(AllNames) /\ Len(PathOf(i)) \in Nat
  BY EmptySeq, LenProperties DEF TreeFits, PathOf

\* A path is that of the parent and one name.
LEMMA OneNameMore ==
  ASSUME TreeFits, NEW i \in DOMAIN dirs
  PROVE  /\ PathOf(dirs[i].parent) \in Seq(AllNames)
         /\ Len(PathOf(dirs[i].parent)) \in Nat
         /\ Len(dirs[i].path) = Len(PathOf(dirs[i].parent)) + 1
         /\ \A k \in 1..Len(PathOf(dirs[i].parent)) : dirs[i].path[k] = PathOf(dirs[i].parent)[k]
         /\ dirs[i].path[Len(dirs[i].path)] = dirs[i].name
         /\ dirs[i].path \in Seq(AllNames) /\ dirs[i].name \in AllNames
  <1> DEFINE q == PathOf(dirs[i].parent)
             n == dirs[i].name
  <1>1. q \in Seq(AllNames) /\ n \in AllNames /\ dirs[i].path = Join(q, n)
    BY PathsOfFolders DEF TreeFits
  <1>2. dirs[i].path \in Seq(AllNames)
    BY DEF TreeFits
  <1> HIDE DEF q, n
  <1>3. /\ Len(q) \in Nat /\ Len(Join(q, n)) = Len(q) + 1
        /\ \A k \in 1..Len(q) : Join(q, n)[k] = q[k]
        /\ Join(q, n)[Len(q) + 1] = n
    BY <1>1, JoinGives, SMTT(60)
  <1>4. QED
    BY <1>1, <1>2, <1>3 DEF q, n

\* Every part of a stored path that starts at the root is a stored path.
LEMMA AncestorsExist ==
  ASSUME TreeFits, NEW i \in DOMAIN dirs, NEW k \in 1..Len(dirs[i].path)
  PROVE  \E j \in DOMAIN dirs : dirs[j].path = SubSeq(dirs[i].path, 1, k)
  <1> DEFINE Bad(x) == \E m \in 1..Len(dirs[x].path) :
                         \A j \in DOMAIN dirs : dirs[j].path # SubSeq(dirs[x].path, 1, m)
             T == {Len(dirs[x].path) : x \in {y \in DOMAIN dirs : Bad(y)}}
  <1>1. SUFFICES ASSUME T # {} PROVE FALSE
    OBVIOUS
  <1>2. T \subseteq Nat
    BY LenProperties DEF TreeFits
  <1>3. PICK n \in T : \A m \in T : n <= m
    BY <1>1, <1>2, LeastElement
  <1>4. PICK x \in DOMAIN dirs : Bad(x) /\ n = Len(dirs[x].path)
    BY <1>3
  <1>5. PICK m \in 1..Len(dirs[x].path) :
               \A j \in DOMAIN dirs : dirs[j].path # SubSeq(dirs[x].path, 1, m)
    BY <1>4
  <1> DEFINE q == dirs[x].parent
             p == dirs[x].path
             above == PathOf(q)
  <1>6. /\ p \in Seq(AllNames) /\ above \in Seq(AllNames) /\ Len(above) \in Nat
        /\ Len(p) = Len(above) + 1 /\ \A l \in 1..Len(above) : p[l] = above[l]
    BY OneNameMore
  <1>7. m # Len(p)
    <2>1. Len(p) \in 0..Len(p)
      BY <1>6
    <2>2. SubSeq(p, 1, Len(p)) = p
      BY <1>6, <2>1, FirstNames
    <2>3. QED
      BY <1>5, <2>2
  <1>8. m \in 1..Len(above)
    BY <1>5, <1>6, <1>7
  <1>9. q \in DOMAIN dirs /\ above = dirs[q].path
    <2>1. q # Root
      BY <1>8, EmptySeq DEF PathOf
    <2>2. QED
      BY <2>1 DEF TreeFits, PathOf
  <1>10. SubSeq(p, 1, m) = SubSeq(above, 1, m)
    <2>1. m \in 0..Len(p) /\ m \in 0..Len(above)
      BY <1>6, <1>8
    <2>2. /\ SubSeq(p, 1, m) \in Seq(AllNames) /\ Len(SubSeq(p, 1, m)) = m
          /\ \A l \in 1..m : SubSeq(p, 1, m)[l] = p[l]
      BY <1>6, <2>1, FirstNames
    <2>3. /\ SubSeq(above, 1, m) \in Seq(AllNames) /\ Len(SubSeq(above, 1, m)) = m
          /\ \A l \in 1..m : SubSeq(above, 1, m)[l] = above[l]
      BY <1>6, <2>1, FirstNames
    <2>4. \A l \in 1..m : p[l] = above[l]
      BY <1>6, <1>8
    <2>5. QED
      BY <2>2, <2>3, <2>4, SeqEqual
  <1>11. Bad(q)
    BY <1>5, <1>8, <1>9, <1>10
  <1>12. Len(above) \in T
    BY <1>9, <1>11
  <1>13. n <= Len(above)
    <2> HIDE DEF T, above
    <2>1. QED
      BY <1>3, <1>12
  <1>14. n = Len(above) + 1 /\ Len(above) \in Nat
    BY <1>4, <1>6
  <1>15. QED
    BY <1>13, <1>14

\* LIKE finds what is below a directory, as long as no paths differ in case
\* only: so for a stored path and for any path in a stored folder.
LEMMA LikeIsBelow ==
  ASSUME TreeFits, NoCaseTwins, NEW i \in DOMAIN dirs,
         NEW f \in DOMAIN dirs \cup {Root}, NEW n \in AllNames
  PROVE  Like(dirs[i].path, Join(PathOf(f), n)) <=> IsDescendant(dirs[i].path, Join(PathOf(f), n))
  <1> DEFINE old == dirs[i].path
             above == PathOf(f)
             p == Join(above, n)
             T == {FoldName(x) : x \in AllNames}
  <1>1. /\ old \in Seq(AllNames) /\ Len(old) \in Nat /\ Len(old) >= 1
        /\ above \in Seq(AllNames) /\ Len(above) \in Nat
    BY PathsOfFolders, OneNameMore
  <1>2. /\ p \in Seq(AllNames) /\ Len(p) = Len(above) + 1
        /\ \A k \in 1..Len(above) : p[k] = above[k]
    <2> HIDE DEF above
    <2>1. QED
      BY <1>1, JoinGives, SMTT(60)
  <1> HIDE DEF old, above, p
  <1>a. old \in Seq(AllNames) /\ above \in Seq(AllNames) /\ p \in Seq(AllNames)
    BY <1>1, <1>2
  <1>3. /\ FoldPath(old) \in Seq(T) /\ Len(FoldPath(old)) = Len(old)
        /\ \A k \in 1..Len(old) : FoldPath(old)[k] = FoldName(old[k])
    BY <1>1, FoldGives
  <1>4. /\ FoldPath(p) \in Seq(T) /\ Len(FoldPath(p)) = Len(p)
        /\ \A k \in 1..Len(p) : FoldPath(p)[k] = FoldName(p[k])
    BY <1>2, FoldGives
  <1>5. Like(old, p) <=> Len(old) < Len(p) /\ \A k \in 1..Len(old) : FoldName(old[k]) = FoldName(p[k])
    <2> HIDE DEF T
    <2>1. Like(old, p) <=> /\ Len(old) < Len(p)
                           /\ \A k \in 1..Len(old) : FoldPath(old)[k] = FoldPath(p)[k]
      BY <1>3, <1>4, DescendantMeans DEF Like
    <2>2. QED
      BY <1>1, <1>2, <1>3, <1>4, <2>1
  <1>6. IsDescendant(old, p) <=> Len(old) < Len(p) /\ \A k \in 1..Len(old) : old[k] = p[k]
    BY <1>a, DescendantMeans
  <1>7. ASSUME Len(old) < Len(p), \A k \in 1..Len(old) : FoldName(old[k]) = FoldName(p[k])
        PROVE  \A k \in 1..Len(old) : old[k] = p[k]
    <2>1. Len(old) \in 1..Len(above) /\ Len(old) \in 0..Len(above)
      BY <1>1, <1>2, <1>7
    <2>2. f \in DOMAIN dirs /\ above = dirs[f].path
      <3>1. f # Root
        BY <2>1, EmptySeq DEF PathOf, above
      <3>2. QED
        BY <3>1 DEF PathOf, above
    <2>3. PICK j \in DOMAIN dirs : dirs[j].path = SubSeq(above, 1, Len(old))
      BY <2>1, <2>2, AncestorsExist
    <2> DEFINE part == SubSeq(above, 1, Len(old))
    <2>4. /\ part \in Seq(AllNames) /\ Len(part) = Len(old)
          /\ \A k \in 1..Len(old) : part[k] = above[k]
      BY <1>1, <2>1, FirstNames
    <2> HIDE DEF part
    <2>5. /\ FoldPath(part) \in Seq(T) /\ Len(FoldPath(part)) = Len(old)
          /\ \A k \in 1..Len(old) : FoldPath(part)[k] = FoldName(part[k])
      BY <2>4, FoldGives
    <2>6. \A k \in 1..Len(old) : part[k] = p[k]
      BY <1>1, <1>2, <2>1, <2>4
    <2>7. FoldPath(part) = FoldPath(old)
      <3> HIDE DEF T
      <3>1. \A k \in 1..Len(old) : FoldPath(part)[k] = FoldPath(old)[k]
        BY <1>3, <1>7, <2>5, <2>6
      <3>2. QED
        BY <1>3, <2>5, <3>1, SeqEqual
    <2>8. dirs[j].path = part /\ dirs[i].path = old
      BY <2>3 DEF part, old
    <2>9. j = i
      BY <2>7, <2>8 DEF NoCaseTwins
    <2>10. QED
      BY <2>6, <2>8, <2>9
  <1>8. Like(old, p) <=> IsDescendant(old, p)
    BY <1>5, <1>6, <1>7
  <1>9. QED
    BY <1>8 DEF old, above, p

\* A stored path is one: of the folder it is in and of its name.
LEMMA LikeIsBelowRow ==
  ASSUME TreeFits, NoCaseTwins, NEW i \in DOMAIN dirs, NEW j \in DOMAIN dirs
  PROVE  Like(dirs[i].path, dirs[j].path) <=> IsDescendant(dirs[i].path, dirs[j].path)
  <1>1. /\ dirs[j].parent \in DOMAIN dirs \cup {Root} /\ dirs[j].name \in AllNames
        /\ dirs[j].path = Join(PathOf(dirs[j].parent), dirs[j].name)
    BY DEF TreeFits
  <1>2. QED
    BY <1>1, LikeIsBelow

\* What is in a folder is below a directory if the folder is or is it.
LEMMA BelowByFolder ==
  ASSUME TreeFits, NEW i \in DOMAIN dirs, NEW f \in DOMAIN dirs \cup {Root}, NEW n \in AllNames
  PROVE  IsDescendant(dirs[i].path, Join(PathOf(f), n)) <=>
           f \in DOMAIN dirs /\ (f = i \/ IsDescendant(dirs[i].path, dirs[f].path))
  <1> DEFINE old == dirs[i].path
             above == PathOf(f)
             p == Join(above, n)
  <1>1. /\ old \in Seq(AllNames) /\ Len(old) \in Nat /\ Len(old) >= 1
        /\ above \in Seq(AllNames) /\ Len(above) \in Nat
    BY PathsOfFolders, OneNameMore
  <1>2. /\ p \in Seq(AllNames) /\ Len(p) = Len(above) + 1
        /\ \A k \in 1..Len(above) : p[k] = above[k]
    <2> HIDE DEF above
    <2>1. QED
      BY <1>1, JoinGives, SMTT(60)
  <1>3. f \in DOMAIN dirs => above = dirs[f].path
    BY DEF TreeFits, PathOf
  <1>4. f \notin DOMAIN dirs => Len(above) = 0
    BY EmptySeq DEF PathOf
  <1> HIDE DEF old, above, p
  <1>a. old \in Seq(AllNames) /\ above \in Seq(AllNames) /\ p \in Seq(AllNames)
    BY <1>1, <1>2
  <1>5. IsDescendant(old, p) <=> Len(old) < Len(p) /\ \A k \in 1..Len(old) : old[k] = p[k]
    BY <1>a, DescendantMeans
  <1>6. IsDescendant(old, above) <=> Len(old) < Len(above) /\ \A k \in 1..Len(old) : old[k] = above[k]
    BY <1>a, DescendantMeans
  <1>7. CASE f \notin DOMAIN dirs
    BY <1>1, <1>2, <1>4, <1>5, <1>7 DEF old, p, above
  <1>8. CASE f \in DOMAIN dirs
    <2>1. ASSUME IsDescendant(old, p), Len(old) # Len(above)
          PROVE  IsDescendant(old, above)
      <3>1. Len(old) < Len(above)
        BY <1>1, <1>2, <1>5, <2>1
      <3>2. \A k \in 1..Len(old) : old[k] = above[k]
        BY <1>1, <1>2, <1>5, <2>1, <3>1
      <3>3. QED
        BY <1>6, <3>1, <3>2
    <2>2. ASSUME IsDescendant(old, p), Len(old) = Len(above)
          PROVE  f = i
      <3>1. \A k \in 1..Len(old) : old[k] = above[k]
        BY <1>1, <1>2, <1>5, <2>2
      <3>2. old = above
        BY <1>1, <2>2, <3>1, SeqEqual
      <3>3. QED
        BY <1>3, <1>8, <3>2 DEF TreeFits, old
    <2>3. ASSUME f = i
          PROVE  IsDescendant(old, p)
      <3>1. above = old
        BY <1>3, <1>8, <2>3 DEF old
      <3>2. QED
        BY <1>1, <1>2, <1>5, <3>1
    <2>4. ASSUME IsDescendant(old, above)
          PROVE  IsDescendant(old, p)
      <3>1. Len(old) < Len(p)
        BY <1>1, <1>2, <1>6, <2>4
      <3>2. \A k \in 1..Len(old) : old[k] = p[k]
        BY <1>1, <1>2, <1>6, <2>4
      <3>3. QED
        BY <1>5, <3>1, <3>2
    <2>5. IsDescendant(old, p) <=> (f = i \/ IsDescendant(old, above))
      BY <2>1, <2>2, <2>3, <2>4
    <2>6. QED
      BY <1>3, <1>8, <2>5 DEF old, p, above
  <1>9. QED
    BY <1>7, <1>8

\* A directory is below another if its parent is that one or below it.
LEMMA BelowByParent ==
  ASSUME TreeFits, NEW i \in DOMAIN dirs, NEW j \in DOMAIN dirs
  PROVE  IsDescendant(dirs[i].path, dirs[j].path) <=>
           /\ dirs[j].parent \in DOMAIN dirs
           /\ dirs[j].parent = i \/ IsDescendant(dirs[i].path, dirs[dirs[j].parent].path)
  <1>1. /\ dirs[j].parent \in DOMAIN dirs \cup {Root} /\ dirs[j].name \in AllNames
        /\ dirs[j].path = Join(PathOf(dirs[j].parent), dirs[j].name)
    BY DEF TreeFits
  <1>2. QED
    BY <1>1, BelowByFolder

\* What ON DELETE CASCADE takes is a subtree.
LEMMA CascadeCloses ==
  ASSUME NEW i
  PROVE  /\ Cascade(i) \subseteq DOMAIN dirs \cup {i} /\ i \in Cascade(i)
         /\ \A j \in DOMAIN dirs : dirs[j].parent \in Cascade(i) => j \in Cascade(i)
  <1>1. Cascade(i) \subseteq DOMAIN dirs \cup {i} /\ i \in Cascade(i)
    BY DEF Cascade
  <1>2. ASSUME NEW j \in DOMAIN dirs, dirs[j].parent \in Cascade(i)
        PROVE  j \in Cascade(i)
    <2>1. SUFFICES ASSUME NEW S \in SUBSET (DOMAIN dirs \cup {i}), i \in S, ClosedBelow(S)
                   PROVE  j \in S
      BY DEF Cascade
    <2>2. dirs[j].parent \in S
      BY <1>2, <2>1 DEF Cascade
    <2>3. QED
      BY <2>1, <2>2 DEF ClosedBelow
  <1>3. QED
    BY <1>1, <1>2

\* It takes nothing else.
LEMMA CascadeLeast ==
  ASSUME NEW i, NEW S \in SUBSET (DOMAIN dirs \cup {i}), i \in S, ClosedBelow(S)
  PROVE  Cascade(i) \subseteq S
  BY DEF Cascade

\* It takes everything below.
LEMMA BelowIsTaken ==
  ASSUME TreeFits, NEW i \in DOMAIN dirs, NEW j \in DOMAIN dirs,
         IsDescendant(dirs[i].path, dirs[j].path)
  PROVE  j \in Cascade(i)
  <1> DEFINE Bad(x) == IsDescendant(dirs[i].path, dirs[x].path) /\ x \notin Cascade(i)
             T == {Len(dirs[x].path) : x \in {y \in DOMAIN dirs : Bad(y)}}
  <1>1. SUFFICES ASSUME T # {} PROVE FALSE
    OBVIOUS
  <1>2. T \subseteq Nat
    BY LenProperties DEF TreeFits
  <1>3. PICK n \in T : \A m \in T : n <= m
    BY <1>1, <1>2, LeastElement
  <1>4. PICK x \in DOMAIN dirs : Bad(x) /\ n = Len(dirs[x].path)
    BY <1>3
  <1> DEFINE q == dirs[x].parent
  <1>5. /\ q \in DOMAIN dirs
        /\ q = i \/ IsDescendant(dirs[i].path, dirs[q].path)
    BY <1>4, BelowByParent
  <1>6. q \notin Cascade(i)
    BY <1>4, CascadeCloses
  <1>7. Bad(q)
    BY <1>5, <1>6, CascadeCloses
  <1>8. Len(dirs[q].path) \in T
    BY <1>5, <1>7
  <1>9. n <= Len(dirs[q].path)
    <2> HIDE DEF T
    <2>1. QED
      BY <1>3, <1>8
  <1>10. n = Len(dirs[q].path) + 1 /\ Len(dirs[q].path) \in Nat
    <2>1. PathOf(q) = dirs[q].path
      BY <1>5 DEF TreeFits, PathOf
    <2>2. QED
      BY <1>4, <2>1, OneNameMore
  <1>11. QED
    BY <1>9, <1>10

\* What LIKE finds below a directory goes with it.
LEMMA SubtreeIsTaken ==
  ASSUME TreeFits, NoCaseTwins, NEW i \in DOMAIN dirs
  PROVE  SubtreeIds(i) \subseteq Cascade(i)
  BY LikeIsBelowRow, BelowIsTaken, CascadeCloses DEF SubtreeIds

-----------------------------------------------------------------------------
(***************************************************************************)
(* The two UPDATEs of a rename or a move.                                  *)
(***************************************************************************)
\* A sequence after another one replaced its beginning.
LEMMA NewBeginning ==
  ASSUME NEW S, NEW p \in Seq(S), NEW new \in Seq(S), NEW n \in S, NEW l \in 0..Len(p)
  PROVE  new \o SubSeq(Join(p, n), l + 1, Len(Join(p, n))) = Join(new \o SubSeq(p, l + 1, Len(p)), n)
  <1> DEFINE j == Join(p, n)
             a == SubSeq(j, l + 1, Len(j))
             b == SubSeq(p, l + 1, Len(p))
             c == new \o b
             left == new \o a
             right == Join(c, n)
  <1>1. /\ j \in Seq(S) /\ Len(j) = Len(p) + 1 /\ Len(p) \in Nat /\ Len(new) \in Nat /\ l \in Nat
        /\ \A k \in 1..Len(p) : j[k] = p[k]
        /\ j[Len(p) + 1] = n
    BY JoinGives, LenProperties
  <1> HIDE DEF j
  <1>2. /\ \A k \in l + 1..Len(j) : j[k] \in S
        /\ \A k \in l + 1..Len(p) : p[k] \in S
    BY <1>1, ElementOfSeq
  <1>3. /\ a \in Seq(S) /\ Len(a) = Len(p) + 1 - l
        /\ \A k \in 1..Len(p) + 1 - l : a[k] = j[l + k]
    <2>1. /\ a \in Seq(S) /\ Len(a) = IF l + 1 <= Len(j) THEN Len(j) - (l + 1) + 1 ELSE 0
          /\ \A k \in 1..(Len(j) - (l + 1) + 1) : a[k] = j[l + 1 + k - 1]
      <3>1. l + 1 \in Int /\ Len(j) \in Int
        BY <1>1
      <3>2. QED
        BY <1>2, <3>1, SubSeqProperties
    <2> HIDE DEF a
    <2>2. QED
      BY <1>1, <2>1
  <1>4. /\ b \in Seq(S) /\ Len(b) = Len(p) - l
        /\ \A k \in 1..Len(p) - l : b[k] = p[l + k]
    <2>1. /\ b \in Seq(S) /\ Len(b) = IF l + 1 <= Len(p) THEN Len(p) - (l + 1) + 1 ELSE 0
          /\ \A k \in 1..(Len(p) - (l + 1) + 1) : b[k] = p[l + 1 + k - 1]
      <3>1. l + 1 \in Int /\ Len(p) \in Int
        BY <1>1
      <3>2. QED
        BY <1>2, <3>1, SubSeqProperties
    <2> HIDE DEF b
    <2>2. QED
      BY <1>1, <2>1
  <1> HIDE DEF a, b
  <1>5. /\ left \in Seq(S) /\ Len(left) = Len(new) + Len(a)
        /\ \A k \in 1..Len(new) + Len(a) : left[k] = IF k <= Len(new) THEN new[k] ELSE a[k - Len(new)]
    <2>1. a \in Seq(S)
      BY <1>3
    <2>2. QED
      BY <2>1, ConcatProperties
  <1>6. /\ c \in Seq(S) /\ Len(c) = Len(new) + Len(b)
        /\ \A k \in 1..Len(new) + Len(b) : c[k] = IF k <= Len(new) THEN new[k] ELSE b[k - Len(new)]
    <2>1. b \in Seq(S)
      BY <1>4
    <2>2. QED
      BY <2>1, ConcatProperties
  <1> HIDE DEF left, c
  <1>7. /\ right \in Seq(S) /\ Len(right) = Len(c) + 1
        /\ \A k \in 1..Len(c) : right[k] = c[k]
        /\ right[Len(c) + 1] = n
    <2>1. ASSUME NEW x \in Seq(S)
          PROVE  /\ Join(x, n) \in Seq(S) /\ Len(Join(x, n)) = Len(x) + 1
                 /\ \A k \in 1..Len(x) : Join(x, n)[k] = x[k]
                 /\ Join(x, n)[Len(x) + 1] = n
      BY AppendProperties, LenProperties DEF Join
    <2>2. c \in Seq(S)
      BY <1>6
    <2>3. QED
      BY <2>1, <2>2, Zenon
  <1>N. /\ Len(p) \in Nat /\ Len(new) \in Nat /\ l \in 0..Len(p)
        /\ Len(a) = Len(p) + 1 - l /\ Len(b) = Len(p) - l
        /\ Len(left) = Len(new) + Len(a) /\ Len(c) = Len(new) + Len(b) /\ Len(right) = Len(c) + 1
    BY <1>1, <1>3, <1>4, <1>5, <1>6, <1>7
  <1> HIDE DEF right
  <1>8. Len(left) = Len(right)
    BY <1>N
  <1>9. \A k \in 1..Len(left) : left[k] = right[k]
    <2> TAKE k \in 1..Len(left)
    <2>1. CASE k <= Len(new)
      <3>1. k \in 1..Len(c) /\ k \in 1..Len(new) + Len(a) /\ k \in 1..Len(new) + Len(b)
        BY <1>N, <2>1
      <3>2. left[k] = new[k]
        BY <1>5, <2>1, <3>1
      <3>3. right[k] = c[k] /\ c[k] = new[k]
        BY <1>6, <1>7, <2>1, <3>1
      <3>4. QED
        BY <3>2, <3>3
    <2>2. CASE k > Len(new) /\ k <= Len(c)
      <3>1. /\ k \in 1..Len(c) /\ k \in 1..Len(new) + Len(a) /\ k \in 1..Len(new) + Len(b)
            /\ ~(k <= Len(new))
        BY <1>N, <2>2
      <3> DEFINE m == k - Len(new)
      <3>2. /\ m \in 1..Len(p) - l /\ m \in 1..Len(p) + 1 - l /\ l + m \in 1..Len(p)
        BY <1>N, <2>2
      <3>3. left[k] = a[m]
        BY <1>5, <3>1
      <3>4. right[k] = c[k] /\ c[k] = b[m]
        BY <1>6, <1>7, <3>1
      <3> HIDE DEF m
      <3>5. a[m] = j[l + m] /\ b[m] = p[l + m] /\ j[l + m] = p[l + m]
        BY <1>1, <1>3, <1>4, <3>2
      <3>6. QED
        BY <3>3, <3>4, <3>5
    <2>3. CASE k > Len(c)
      <3> DEFINE m == k - Len(new)
      <3>1. /\ k = Len(c) + 1 /\ m \in 1..Len(p) + 1 - l /\ l + m = Len(p) + 1
            /\ k \in 1..Len(new) + Len(a) /\ ~(k <= Len(new))
        BY <1>N, <2>3, SMTT(60)
      <3>2. left[k] = a[m]
        BY <1>5, <3>1
      <3> HIDE DEF m
      <3>3. a[m] = j[l + m]
        BY <1>3, <3>1
      <3>4. j[l + m] = n
        BY <1>1, <3>1
      <3>5. right[k] = n
        BY <1>7, <3>1
      <3>6. QED
        BY <3>2, <3>3, <3>4, <3>5
    <2>4. QED
      BY <1>N, <2>1, <2>2, <2>3
  <1>10. left = right
    BY <1>5, <1>7, <1>8, <1>9, SeqEqual
  <1>11. QED
    BY <1>10 DEF left, right, a, b, c, j

\* What a rename or a move writes: the row itself, and every path below it.
LEMMA UpdatedGives ==
  ASSUME TreeFits, NoCaseTwins, NEW o, UpdatingDir(o)
  PROVE  /\ DOMAIN Updated(o) = DOMAIN dirs
         /\ Updated(o)[o.id] = [dirs[o.id] EXCEPT !.parent = o.parent, !.name = o.name, !.path = o.path]
         /\ \A i \in DOMAIN dirs \ {o.id} :
              Updated(o)[i] =
                IF IsDescendant(dirs[o.id].path, dirs[i].path)
                THEN [dirs[i] EXCEPT !.path = o.path \o SubSeq(@, Len(dirs[o.id].path) + 1, Len(@))]
                ELSE dirs[i]
  <1> DEFINE old == dirs[o.id].path
             row == [dirs[o.id] EXCEPT !.parent = o.parent, !.name = o.name, !.path = o.path]
             first == [dirs EXCEPT ![o.id] = row]
             value(i) == IF Like(old, first[i].path)
                         THEN [first[i] EXCEPT !.path = o.path \o SubSeq(@, Len(old) + 1, Len(@))]
                         ELSE first[i]
  <1>1. Updated(o) = [i \in DOMAIN dirs |-> value(i)]
    BY DEF Updated
  <1>2. /\ o.id \in DOMAIN dirs /\ o.name \in AllNames /\ o.parent \in DOMAIN dirs \cup {Root}
        /\ o.path = Join(PathOf(o.parent), o.name)
        /\ PathOf(o.parent) # old /\ ~IsDescendant(old, PathOf(o.parent))
    BY DEF UpdatingDir
  <1>3. first[o.id] = row /\ \A i \in DOMAIN dirs \ {o.id} : first[i] = dirs[i]
    BY <1>2
  <1>4. ~Like(old, o.path)
    <2>1. ~IsDescendant(old, Join(PathOf(o.parent), o.name))
      <3>1. o.parent \in DOMAIN dirs => PathOf(o.parent) = dirs[o.parent].path
        BY DEF TreeFits, PathOf
      <3>2. QED
        BY <1>2, <3>1, BelowByFolder
    <2>2. QED
      BY <1>2, <2>1, LikeIsBelow
  <1>5. row.path = o.path
    BY <1>2 DEF TreeFits
  <1>6. value(o.id) = row
    BY <1>3, <1>4, <1>5
  <1>7. ASSUME NEW i \in DOMAIN dirs \ {o.id}
        PROVE  value(i) = IF IsDescendant(old, dirs[i].path)
                          THEN [dirs[i] EXCEPT !.path = o.path \o SubSeq(@, Len(old) + 1, Len(@))]
                          ELSE dirs[i]
    BY <1>2, <1>3, LikeIsBelowRow
  <1> HIDE DEF value, row
  <1>8. QED
    BY <1>1, <1>2, <1>6, <1>7 DEF row

\* After it every path is again that of the folder and the name.
LEMMA UpdatedKeepsPaths ==
  ASSUME TreeFits, NoCaseTwins, NEW o, UpdatingDir(o), NEW u, u = Updated(o), NEW i \in DOMAIN dirs
  PROVE  /\ u[i] \in [parent : Int, name : AllNames, path : Seq(AllNames), msg : Nat]
         /\ u[i].msg = dirs[i].msg
         /\ u[i].parent \in DOMAIN dirs \cup {Root}
         /\ u[i].path = Join(IF u[i].parent = Root THEN <<>> ELSE u[u[i].parent].path, u[i].name)
  <1> DEFINE old == dirs[o.id].path
             Below(j) == IsDescendant(old, dirs[j].path)
             Tail2(p) == o.path \o SubSeq(p, Len(old) + 1, Len(p))
  <1>1. /\ o.id \in DOMAIN dirs /\ o.name \in AllNames /\ o.parent \in DOMAIN dirs \cup {Root}
        /\ o.path = Join(PathOf(o.parent), o.name)
        /\ PathOf(o.parent) # old /\ ~IsDescendant(old, PathOf(o.parent))
    BY DEF UpdatingDir
  <1>2. /\ DOMAIN u = DOMAIN dirs
        /\ u[o.id] = [dirs[o.id] EXCEPT !.parent = o.parent, !.name = o.name, !.path = o.path]
        /\ \A j \in DOMAIN dirs \ {o.id} :
             u[j] = IF Below(j) THEN [dirs[j] EXCEPT !.path = Tail2(dirs[j].path)] ELSE dirs[j]
    BY UpdatedGives
  <1>3. o.path \in Seq(AllNames)
    <2> DEFINE above == PathOf(o.parent)
    <2>1. above \in Seq(AllNames)
      BY <1>1, PathsOfFolders
    <2> HIDE DEF above
    <2>2. QED
      BY <1>1, <2>1, JoinGives, SMTT(60) DEF above
  <1>4. old \in Seq(AllNames) /\ Len(old) \in Nat /\ Len(old) >= 1
    BY <1>1, OneNameMore
  <1>5. \A j \in DOMAIN dirs : /\ dirs[j] \in [parent : Int, name : AllNames, path : Seq(AllNames), msg : Nat]
                               /\ dirs[j].parent \in DOMAIN dirs \cup {Root}
                               /\ dirs[j].path = Join(PathOf(dirs[j].parent), dirs[j].name)
    BY DEF TreeFits
  <1>6. Root \notin DOMAIN dirs /\ DOMAIN dirs \subseteq Int
    BY DEF TreeFits
  <1>7. \A p \in Seq(AllNames) : Tail2(p) \in Seq(AllNames)
    <2> TAKE p \in Seq(AllNames)
    <2>1. Len(p) \in Nat /\ Len(old) + 1 \in Int /\ \A k \in Len(old) + 1..Len(p) : p[k] \in AllNames
      BY <1>4, LenProperties, ElementOfSeq
    <2>2. SubSeq(p, Len(old) + 1, Len(p)) \in Seq(AllNames)
      BY <2>1, SubSeqProperties
    <2>3. QED
      BY <1>3, <2>2, ConcatProperties
  <1> HIDE DEF old, Tail2
  <1>8. CASE i = o.id
    <2>1. /\ u[i].parent = o.parent /\ u[i].name = o.name /\ u[i].path = o.path /\ u[i].msg = dirs[i].msg
          /\ u[i] \in [parent : Int, name : AllNames, path : Seq(AllNames), msg : Nat]
      <3> DEFINE row == dirs[o.id]
      <3>1. row \in [parent : Int, name : AllNames, path : Seq(AllNames), msg : Nat]
        BY <1>1, <1>5
      <3>2. u[i] = [row EXCEPT !.parent = o.parent, !.name = o.name, !.path = o.path] /\ dirs[i] = row
        BY <1>2, <1>8
      <3>3. o.parent \in Int /\ o.name \in AllNames
        BY <1>1, <1>6 DEF Root
      <3> HIDE DEF row
      <3>4. QED
        BY <1>3, <3>1, <3>2, <3>3
    <2>2. ASSUME o.parent # Root PROVE u[o.parent].path = dirs[o.parent].path
      <3>1. o.parent \in DOMAIN dirs /\ PathOf(o.parent) = dirs[o.parent].path
        BY <1>1, <2>2 DEF PathOf
      <3>2. o.parent # o.id /\ ~Below(o.parent)
        BY <1>1, <3>1 DEF old
      <3>3. QED
        BY <1>2, <3>1, <3>2
    <2>3. o.path = Join(IF o.parent = Root THEN <<>> ELSE u[o.parent].path, o.name)
      BY <1>1, <2>2 DEF PathOf
    <2>4. QED
      BY <1>1, <2>1, <2>3
  <1>9. CASE i # o.id /\ ~Below(i)
    <2>1. u[i] = dirs[i]
      BY <1>2, <1>9
    <2> DEFINE q == dirs[i].parent
    <2>2. ASSUME q # Root PROVE u[q].path = dirs[q].path
      <3>1. q \in DOMAIN dirs /\ q # o.id /\ ~Below(q)
        BY <1>1, <1>5, <1>9, <2>2, BelowByParent DEF old
      <3>2. QED
        BY <1>2, <3>1
    <2>3. dirs[i].path = Join(IF q = Root THEN <<>> ELSE u[q].path, dirs[i].name)
      BY <1>5, <2>2 DEF PathOf
    <2>4. QED
      BY <1>5, <2>1, <2>3
  <1>10. CASE i # o.id /\ Below(i)
    <2> DEFINE q == dirs[i].parent
               p == dirs[q].path
               n == dirs[i].name
    <2>1. q \in DOMAIN dirs /\ (q = o.id \/ Below(q))
      BY <1>1, <1>10, BelowByParent DEF old
    <2>2. u[i] = [dirs[i] EXCEPT !.path = Tail2(dirs[i].path)]
      BY <1>2, <1>10
    <2>3. /\ u[i].parent = q /\ u[i].name = n /\ u[i].path = Tail2(dirs[i].path) /\ u[i].msg = dirs[i].msg
          /\ u[i] \in [parent : Int, name : AllNames, path : Seq(AllNames), msg : Nat]
      BY <1>5, <1>7, <2>2
    <2>4. dirs[i].path = Join(p, n) /\ p \in Seq(AllNames) /\ n \in AllNames
      BY <1>5, <1>6, <2>1 DEF PathOf
    <2>5. Len(old) \in 0..Len(p)
      <3>1. q = o.id => Len(p) = Len(old)
        BY DEF old
      <3>2. Below(q) => Len(old) < Len(p)
        BY <1>4, <2>4, DescendantMeans
      <3>3. Len(p) \in Nat
        BY <2>4, LenProperties
      <3>4. QED
        BY <1>4, <2>1, <3>1, <3>2, <3>3
    <2>6. Tail2(Join(p, n)) = Join(Tail2(p), n)
      <3> HIDE DEF p, n
      <3>1. QED
        BY <1>3, <2>4, <2>5, NewBeginning DEF Tail2
    <2>7. u[q].path = Tail2(p)
      <3>1. CASE q = o.id
        <4>1. p = old
          BY <3>1 DEF old
        <4>2. SubSeq(p, Len(old) + 1, Len(p)) = <<>>
          BY <1>4, <4>1, SubSeqEmpty
        <4>3. Tail2(p) = o.path
          BY <1>3, <4>2, ConcatEmptySeq DEF Tail2
        <4>4. u[q].path = o.path
          BY <1>1, <1>2, <1>5, <3>1
        <4>5. QED
          BY <4>3, <4>4
      <3>2. CASE q # o.id
        BY <1>2, <1>5, <2>1, <3>2
      <3>3. QED
        BY <3>1, <3>2
    <2>8. q # Root
      BY <1>6, <2>1
    <2>9. QED
      BY <2>1, <2>3, <2>4, <2>6, <2>7, <2>8
  <1>11. QED
    BY <1>8, <1>9, <1>10

-----------------------------------------------------------------------------
(***************************************************************************)
(* What a step finds.                                                      *)
(***************************************************************************)
\* The hypotheses of a step.
Ready == TreeIInv /\ OneCaller /\ ~Overlap /\ NoCaseTwins

\* The invariant gives the lemmas above their tree.
LEMMA InvTree ==
  ASSUME TreeIInv, ~drill
  PROVE  TreeFits
  <1>1. /\ Consistent(dirs) /\ \A i \in DOMAIN dirs : DirFits(i)
        /\ \A i \in DOMAIN dirs : dirs[i].path =
             Join(IF dirs[i].parent = Root THEN <<>> ELSE dirs[dirs[i].parent].path, dirs[i].name)
    BY DEF TreeIInv, Live, PathsMatch, TreeTypeOK
  <1>2. nextDir \in Nat
    BY BoundsAssumption DEF TreeIInv, Phases
  <1>3. \A i \in DOMAIN dirs : i \in Int /\ i # Root
    BY <1>1, <1>2 DEF DirFits, Recovered, Root
  <1>4. \A i \in DOMAIN dirs : dirs[i] \in [parent : Int, name : AllNames, path : Seq(AllNames), msg : Nat]
    BY <1>1 DEF DirFits
  <1>5. \A i \in DOMAIN dirs : dirs[i].parent \in DOMAIN dirs \cup {Root}
    BY <1>1 DEF Consistent
  <1>6. \A i, j \in DOMAIN dirs : dirs[i].path = dirs[j].path => i = j
    BY <1>1 DEF Consistent
  <1>7. \A i \in DOMAIN dirs : dirs[i].path = Join(PathOf(dirs[i].parent), dirs[i].name)
    BY <1>1 DEF PathOf
  <1>8. QED
    BY <1>3, <1>4, <1>5, <1>6, <1>7 DEF TreeFits

\* A caller at work: the index is not lost and no rebuild runs.
LEMMA AtWork ==
  ASSUME Ready, NEW c \in Callers, op[c].pc # "idle" \/ MayBegin(c)
  PROVE  /\ ~drill /\ rebuild = Idle /\ Live /\ TreeFits /\ OpFits(op[c])
         /\ DOMAIN op = Callers /\ \A e \in Callers : e = c
         /\ PathsMatch /\ Phases /\ nextDir \in Nat /\ nextFile \in Nat
  <1>1. TreeIInv /\ OneCaller /\ ~Overlap
    BY DEF Ready
  <1>2. ~drill /\ rebuild = Idle
    BY <1>1 DEF TreeIInv, Phases, Quiet, MayBegin, Idle
  <1>3. Live /\ PathsMatch /\ Phases
    BY <1>1, <1>2 DEF TreeIInv
  <1>4. OpFits(op[c]) /\ DOMAIN op = Callers /\ nextDir \in Nat /\ nextFile \in Nat
    BY <1>3, BoundsAssumption DEF Live, Phases
  <1>5. \A e \in Callers : e = c
    BY <1>1 DEF OneCaller
  <1>6. QED
    BY <1>1, <1>2, <1>3, <1>4, <1>5, InvTree

\* Outside a deletion every row that is not lost has its messages.
LEMMA PlainlyBacked ==
  ASSUME Live, NEW c \in Callers, \A e \in Callers : e = c, op[c].pc # "drop"
  PROVE  /\ \A i \in DOMAIN dirs : D(i) \in lost \/ dirs[i].msg \in DOMAIN channel
         /\ \A f \in DOMAIN files : F(f) \in lost \/ Range(files[f].segs) \subseteq DOMAIN channel
  BY DEF Live, Backed, Going

\* What is left to show of a step of a caller.
LEMMA CallerLeaves ==
  ASSUME NEW c \in Callers, \A e \in Callers : e = c,
         ~drill, rebuild = Idle, drill' = drill, rebuild' = rebuild, DOMAIN op' = Callers,
         nextDir' \in 1..MaxDirs + 1, nextFile' \in 1..MaxFiles + 1,
         PathsMatch', ChannelFits', (\A i \in DOMAIN dirs : DirFits(i))',
         (\A f \in DOMAIN files : FileRowFits(f))', OpFits(op[c])', Backed'
  PROVE  TreeIInv'
  <1>1. Phases'
    BY DEF Phases
  <1>2. Live'
    <2>1. (\A e \in Callers : OpFits(op[e]))'
      OBVIOUS
    <2>2. QED
      BY <2>1 DEF Live
  <1>3. QED
    BY <1>1, <1>2 DEF TreeIInv

\* A step that leaves the rows alone.
LEMMA RowsStay ==
  ASSUME Live, Phases, PathsMatch, UNCHANGED <<dirs, files>>,
         nextDir' \in nextDir..MaxDirs + 1, nextFile' = nextFile,
         Recovered \in DOMAIN dirs => D(Recovered) \in lost'
  PROVE  /\ (\A i \in DOMAIN dirs : DirFits(i))'
         /\ (\A f \in DOMAIN files : FileRowFits(f))'
         /\ nextDir' \in 1..MaxDirs + 1 /\ nextFile' \in 1..MaxFiles + 1
  <1>1. /\ nextDir \in Nat /\ nextDir' \in Nat /\ nextDir <= nextDir'
        /\ nextDir' \in 1..MaxDirs + 1 /\ nextFile' \in 1..MaxFiles + 1
    BY BoundsAssumption DEF Phases
  <1>2. ASSUME NEW i \in DOMAIN dirs PROVE DirFits(i)'
    <2>1. DirFits(i)
      BY <1>2 DEF Live
    <2>2. QED
      BY <1>1, <2>1 DEF DirFits, D
  <1>3. ASSUME NEW f \in DOMAIN files PROVE FileRowFits(f)'
    <2>1. FileRowFits(f)
      BY <1>3 DEF Live
    <2>2. QED
      BY <2>1 DEF FileRowFits, FileMsgs, FileMsg
  <1>4. QED
    BY <1>1, <1>2, <1>3

\* Nor do their paths change.
LEMMA PathsStay ==
  ASSUME PathsMatch, UNCHANGED <<dirs, files>>, faults' \in 0..MaxFaults,
         NEW c \in Callers, \A e \in Callers : e = c,
         op'[c].pc \in {"send", "insert", "unsend"} => mkdirMu' = c
  PROVE  PathsMatch'
  <1>1. TreeTypeOK'
    BY DEF PathsMatch, TreeTypeOK, Consistent
  <1>2. QED
    BY <1>1 DEF PathsMatch

\* Both: a step of a caller that leaves the rows alone.
LEMMA CallerKeepsRows ==
  ASSUME Ready, NEW c \in Callers, op[c].pc # "idle" \/ MayBegin(c),
         UNCHANGED <<dirs, files, nextFile, rebuild, drill>>, DOMAIN op' = Callers,
         op'[c].pc \in {"send", "insert", "unsend"} => mkdirMu' = c,
         nextDir' \in nextDir..MaxDirs + 1, faults' \in 0..MaxFaults,
         Recovered \in DOMAIN dirs => D(Recovered) \in lost',
         ChannelFits', OpFits(op[c])', Backed'
  PROVE  TreeIInv'
  <1>1. /\ ~drill /\ rebuild = Idle /\ Live /\ PathsMatch /\ Phases
        /\ \A e \in Callers : e = c
    BY AtWork
  <1>2. /\ (\A i \in DOMAIN dirs : DirFits(i))'
        /\ (\A f \in DOMAIN files : FileRowFits(f))'
        /\ nextDir' \in 1..MaxDirs + 1 /\ nextFile' \in 1..MaxFiles + 1
    BY <1>1, RowsStay
  <1>3. PathsMatch'
    BY <1>1, PathsStay
  <1>4. QED
    BY <1>1, <1>2, <1>3, CallerLeaves

\* A channel that stays still fits when numbers are handed out.
LEMMA ChannelStays ==
  ASSUME ChannelFits, UNCHANGED channel, nextDir \in Nat, nextFile \in Nat,
         nextDir' \in Nat, nextDir <= nextDir', nextFile' = nextFile
  PROVE  ChannelFits'
  <1>1. ASSUME NEW m \in DOMAIN channel, m \in 1..nextDir - 1
        PROVE  m \in 1..nextDir' - 1
    BY <1>1
  <1>2. QED
    BY <1>1 DEF ChannelFits, FileMsgs, FileMsg

\* A caller that only looks, or forgets what it was about to do.
LEMMA CallerLooks ==
  ASSUME Ready, NEW c \in Callers, op[c].pc # "idle" \/ MayBegin(c),
         op[c].pc # "drop",
         UNCHANGED <<dirs, files, channel, nextFile, rebuild, drill>>, lost \subseteq lost', DOMAIN op' = Callers,
         op'[c].pc \in {"send", "insert", "unsend"} => mkdirMu' = c,
         nextDir' \in nextDir..MaxDirs + 1, faults' \in 0..MaxFaults,
         OpFits(op[c])'
  PROVE  TreeIInv'
  <1>1. /\ Live /\ Phases /\ \A e \in Callers : e = c
        /\ nextDir \in Nat /\ nextFile \in Nat
    BY AtWork
  <1>2. nextDir' \in Nat /\ nextDir <= nextDir'
    BY <1>1, BoundsAssumption
  <1>3. ChannelFits'
    BY <1>1, <1>2, ChannelStays DEF Live
  <1>4. /\ \A i \in DOMAIN dirs : D(i) \in lost \/ dirs[i].msg \in DOMAIN channel
        /\ \A f \in DOMAIN files : F(f) \in lost \/ Range(files[f].segs) \subseteq DOMAIN channel
    BY <1>1, PlainlyBacked
  <1>5. Backed'
    BY <1>4 DEF Backed, D, F
  <1>6. Recovered \in DOMAIN dirs => D(Recovered) \in lost'
    <2>1. Recovered \in DOMAIN dirs => DirFits(Recovered)
      BY <1>1 DEF Live
    <2>2. QED
      BY <1>1, <2>1 DEF DirFits, Recovered
  <1>7. QED
    BY <1>3, <1>5, <1>6, CallerKeepsRows

\* The recovery folder is never taken for backed.
LEMMA RecoveredStays ==
  ASSUME Live, nextDir \in Nat, Recovered \in DOMAIN dirs
  PROVE  D(Recovered) \in lost /\ dirs[Recovered].msg = 0
  <1>1. DirFits(Recovered)
    BY DEF Live
  <1>2. QED
    BY <1>1 DEF DirFits, Recovered

-----------------------------------------------------------------------------
(***************************************************************************)
(* The steps of a caller.                                                  *)
(***************************************************************************)
LEMMA PathsAreTyped ==
  ASSUME NEW p \in Paths
  PROVE  p \in Seq(AllNames) /\ Len(p) \in Nat
  <1>1. PICK n \in 1..MaxDepth : p \in [1..n -> Names]
    BY DEF Paths
  <1>2. p \in [1..n -> AllNames] /\ n \in Nat
    BY <1>1, NamesAssumption, BoundsAssumption
  <1>3. p \in Seq(AllNames)
    BY <1>2, SeqDef
  <1>4. QED
    BY <1>3, LenProperties

\* A caller between two operations holds nothing.
LEMMA IdleFits ==
  ASSUME NEW c \in Callers, op'[c] = Idle
  PROVE  OpFits(op[c])' /\ op'[c].pc = "idle"
  BY DEF OpFits, Idle

\* Mkdir begins at the root, which is there.
LEMMA MkdirKeeps ==
  ASSUME Ready, NEW c \in Callers, NEW p \in Paths, NEW src \in Paths \cup {<<>>}, Mkdir(c, p, src)
  PROVE  TreeIInv'
  <1>1. /\ MayBegin(c)
        /\ src # <<>> => src # p /\ ~IsDescendant(src, p)
        /\ op' = [op EXCEPT ![c] = [pc |-> "walk", path |-> p, done |-> 0, parent |-> Root, src |-> src]]
        /\ UNCHANGED <<dirs, files, channel, nextDir, nextFile, mkdirMu, refresh, rebuild, drill, faults, lost>>
    BY DEF Mkdir, Step, index, ids
  <1>2. /\ DOMAIN op = Callers /\ Phases /\ PathsMatch /\ nextDir \in Nat
    BY <1>1, AtWork
  <1>3. op'[c] = [pc |-> "walk", path |-> p, done |-> 0, parent |-> Root, src |-> src]
    BY <1>1, <1>2
  <1>4. p \in Seq(AllNames) /\ Len(p) \in Nat /\ src \in Seq(AllNames)
    BY PathsAreTyped, EmptySeq
  <1>5. SubSeq(p, 1, 0) = <<>>
    BY SubSeqEmpty
  <1>6. Walking(op[c])'
    BY <1>1, <1>3, <1>4, <1>5 DEF Walking, SrcFits, AtPath, PathOf, IsDescendant, IsStrictPrefix, IsPrefix
  <1>7. op[c].pc = "idle" /\ op'[c].pc = "walk" /\ OpFits(op[c])'
    BY <1>1, <1>3, <1>6 DEF MayBegin, Idle, OpFits
  <1>8. nextDir' \in nextDir..MaxDirs + 1 /\ faults' \in 0..MaxFaults /\ DOMAIN op' = Callers
    BY <1>1, <1>2, BoundsAssumption DEF Phases, PathsMatch, TreeTypeOK
  <1>9. QED
    BY <1>1, <1>7, <1>8, CallerLooks

\* The folder that a path leads to.
LEMMA Resolves ==
  ASSUME NEW p, DirPath(p), Root \notin DOMAIN dirs
  PROVE  AtPath(ResolveDir(p), p)
  <1>1. CASE p = <<>>
    BY <1>1 DEF AtPath, ResolveDir, PathOf
  <1>2. CASE p # <<>>
    <2>1. \E i \in DOMAIN dirs : dirs[i].path = p
      BY <1>2 DEF DirPath
    <2>2. QED
      BY <1>2, <2>1 DEF AtPath, ResolveDir, PathOf
  <1>3. QED
    BY <1>1, <1>2

\* What is known at each step.
LEMMA FitAt ==
  ASSUME NEW o, OpFits(o)
  PROVE  /\ o.pc = "walk" => Walking(o)
         /\ o.pc \in {"send", "insert", "unsend"} => Making(o)
         /\ o.pc = "place" => Placing(o)
         /\ o.pc = "updateDir" => UpdatingDir(o)
         /\ o.pc = "dirCaption" => CaptioningDir(o)
         /\ o.pc = "updateFile" => UpdatingFile(o)
         /\ o.pc = "fileCaption" => CaptioningFile(o)
         /\ o.pc = "purge" => Purging(o)
         /\ o.pc = "drop" => Dropping(o)
  BY DEF OpFits, Walking, Idle, Making, Placing, UpdatingDir, CaptioningDir,
         UpdatingFile, CaptioningFile, Purging, Dropping

\* Messages of files come after those of directories, each file has its own.
LEMMA MessagesApart ==
  ASSUME NEW f \in Nat \ {0}, NEW g \in Nat \ {0}, NEW m \in FileMsgs(f)
  PROVE  m \in Int /\ m > MaxDirs /\ (m \in FileMsgs(g) => f = g)
  <1>1. PICK k \in 1..Segs : m = FileMsg(f, k)
    BY DEF FileMsgs
  <1>2. Segs \in Nat /\ MaxDirs \in Nat /\ k \in 1..Segs
    BY SegsAssumption, BoundsAssumption
  <1>3. (f - 1) * Segs \in Nat /\ m = MaxDirs + (f - 1) * Segs + k
    <2>1. f - 1 \in Nat
      OBVIOUS
    <2>2. (f - 1) * Segs \in Nat
      BY <1>2, <2>1
    <2>3. QED
      BY <1>1, <2>2 DEF FileMsg
  <1>4. m \in Int /\ m > MaxDirs
    BY <1>2, <1>3
  <1>5. ASSUME m \in FileMsgs(g) PROVE f = g
    <2>1. PICK l \in 1..Segs : m = FileMsg(g, l)
      BY <1>5 DEF FileMsgs
    <2>2. (g - 1) * Segs \in Nat /\ m = MaxDirs + (g - 1) * Segs + l
      <3>1. g - 1 \in Nat
        OBVIOUS
      <3>2. (g - 1) * Segs \in Nat
        BY <1>2, <3>1
      <3>3. QED
        BY <2>1, <3>2 DEF FileMsg
    <2>3. \A x, y \in Nat : x < y => (y * Segs \in Nat /\ x * Segs \in Nat /\ x * Segs + Segs <= y * Segs)
      <3> TAKE x, y \in Nat
      <3> HAVE x < y
      <3>1. y - (x + 1) \in Nat /\ x * Segs \in Nat /\ y * Segs \in Nat /\ (y - (x + 1)) * Segs \in Nat
        BY <1>2
      <3>2. y * Segs = x * Segs + Segs + (y - (x + 1)) * Segs
        BY <1>2
      <3>3. QED
        BY <1>2, <3>1, <3>2
    <2>4. ~(f - 1 < g - 1)
      BY <1>2, <1>3, <2>2, <2>3
    <2>5. ~(g - 1 < f - 1)
      BY <1>2, <1>3, <2>2, <2>3
    <2>6. QED
      BY <2>4, <2>5
  <1>6. QED
    BY <1>4, <1>5

\* The first element that Min finds.
LEMMA MinOfNumbers ==
  ASSUME NEW T \in SUBSET Nat, T # {}
  PROVE  Min(T) \in T /\ \A y \in T : Min(T) <= y
  BY LeastElement DEF Min

\* The first missing directory has its parent, and all before it are there.
LEMMA MkdirWalkKeeps ==
  ASSUME Ready, NEW c \in Callers, MkdirWalk(c)
  PROVE  TreeIInv'
  <1> DEFINE o       == op[c]
             missing == {k \in o.done + 1..Len(o.path) : DirByPath(SubSeq(o.path, 1, k)) = {}}
             k       == Min(missing)
             parent  == IF k = o.done + 1 THEN o.parent ELSE ResolveDir(SubSeq(o.path, 1, k - 1))
             made    == IF o.done = Len(o.path) THEN o.parent ELSE ResolveDir(o.path)
  <1>1. /\ o.pc = "walk"
        /\ UNCHANGED <<dirs, files, channel, nextFile, refresh, rebuild, drill, faults, lost>>
        /\ \/ missing = {} /\ Made(c, made)
           \/ /\ missing # {}
              /\ nextDir <= MaxDirs
              /\ mkdirMu' = c /\ nextDir' = nextDir + 1
              /\ op' = [op EXCEPT ![c] = [pc |-> "send", path |-> o.path, src |-> o.src,
                                          done |-> k, parent |-> parent, id |-> nextDir]]
           \/ op' = [op EXCEPT ![c] = Idle] /\ UNCHANGED nextDir
    BY DEF MkdirWalk, Step, index
  <1>2. /\ DOMAIN op = Callers /\ Phases /\ PathsMatch /\ nextDir \in Nat /\ TreeFits /\ OpFits(o)
        /\ \A i \in DOMAIN dirs : DirFits(i)
    BY <1>1, AtWork DEF Live
  <1>3. /\ SrcFits(o) /\ o.done \in 0..Len(o.path) /\ AtPath(o.parent, SubSeq(o.path, 1, o.done))
    BY <1>1, <1>2 DEF OpFits, Walking, Idle, Making, Placing, UpdatingDir, CaptioningDir,
                      UpdatingFile, CaptioningFile, Purging, Dropping
  <1>4. o.path \in Seq(AllNames) /\ Len(o.path) \in Nat /\ o.done \in Nat
    BY <1>3, LenProperties DEF SrcFits
  <1>5. Root \notin DOMAIN dirs
    BY <1>2 DEF TreeFits
  <1>6. \A l \in o.done + 1..Len(o.path) : l \notin missing => AtPath(ResolveDir(SubSeq(o.path, 1, l)), SubSeq(o.path, 1, l))
    <2> TAKE l \in o.done + 1..Len(o.path)
    <2> HAVE l \notin missing
    <2>1. DirPath(SubSeq(o.path, 1, l))
      BY DEF DirPath, DirByPath
    <2>2. QED
      BY <1>5, <2>1, Resolves
  <1>7. faults' \in 0..MaxFaults /\ nextDir \in 1..MaxDirs + 1
    BY <1>1, <1>2 DEF Phases, PathsMatch, TreeTypeOK
  <1>8. CASE missing = {} /\ Made(c, made)
    <2>1. AtPath(made, o.path)
      <3>1. CASE o.done = Len(o.path)
        <4>1. SubSeq(o.path, 1, o.done) = o.path
          BY <1>3, <1>4, <3>1, FirstNames
        <4>2. QED
          BY <1>3, <3>1, <4>1
      <3>2. CASE o.done # Len(o.path)
        <4>1. Len(o.path) \in o.done + 1..Len(o.path)
          BY <1>3, <1>4, <3>2
        <4>2. SubSeq(o.path, 1, Len(o.path)) = o.path
          BY <1>4, FirstNames
        <4>3. QED
          BY <1>6, <1>8, <3>2, <4>1, <4>2
      <3>3. QED
        BY <3>1, <3>2
    <2> HIDE DEF made, missing, k, parent
    <2>2. /\ UNCHANGED nextDir
          /\ op' = [op EXCEPT ![c] = IF o.src = <<>> THEN Idle
                     ELSE [pc |-> "place", src |-> o.src, target |-> made, path |-> o.path]]
      BY <1>8 DEF Made, Step
    <2>3. OpFits(op[c])' /\ op'[c].pc \in {"idle", "place"}
      <3>1. CASE o.src = <<>>
        <4>1. op'[c] = Idle
          BY <1>2, <2>2, <3>1
        <4>2. QED
          BY <4>1, IdleFits
      <3>2. CASE o.src # <<>>
        <4>1. op'[c] = [pc |-> "place", src |-> o.src, target |-> made, path |-> o.path]
          BY <1>2, <2>2, <3>2
        <4>2. SrcFits(op'[c])
          BY <1>3, <4>1 DEF SrcFits
        <4>3. AtPath(op[c].target, op[c].path)'
          BY <1>1, <2>1, <4>1 DEF AtPath, PathOf
        <4>4. Placing(op[c])'
          BY <3>2, <4>1, <4>2, <4>3 DEF Placing, SrcFits
        <4>5. QED
          BY <4>1, <4>4 DEF OpFits
      <3>3. QED
        BY <3>1, <3>2
    <2>4. DOMAIN op' = Callers /\ nextDir' \in nextDir..MaxDirs + 1
      BY <1>2, <1>7, <2>2, BoundsAssumption
    <2>5. QED
      BY <1>1, <1>7, <2>2, <2>3, <2>4, CallerLooks
  <1>9. CASE /\ missing # {} /\ nextDir <= MaxDirs
             /\ mkdirMu' = c /\ nextDir' = nextDir + 1
             /\ op' = [op EXCEPT ![c] = [pc |-> "send", path |-> o.path, src |-> o.src,
                                          done |-> k, parent |-> parent, id |-> nextDir]]
    <2>1. k \in missing /\ \A l \in missing : k <= l
      <3>1. missing \subseteq Nat
        BY <1>4
      <3>2. QED
        BY <1>9, <3>1, MinOfNumbers
    <2>2. k \in o.done + 1..Len(o.path) /\ k \in 1..Len(o.path)
      BY <1>4, <2>1
    <2>3. AtPath(parent, SubSeq(o.path, 1, k - 1))
      <3>1. CASE k = o.done + 1
        BY <1>3, <1>4, <3>1
      <3>2. CASE k # o.done + 1
        <4>1. k - 1 \in o.done + 1..Len(o.path) /\ ~(k <= k - 1)
          BY <1>4, <2>2, <3>2
        <4>2. k - 1 \notin missing
          BY <2>1, <4>1
        <4>3. QED
          BY <1>6, <3>2, <4>1, <4>2
      <3>3. QED
        BY <3>1, <3>2
    <2> HIDE DEF missing, k, parent
    <2>4. op'[c] = [pc |-> "send", path |-> o.path, src |-> o.src, done |-> k, parent |-> parent, id |-> nextDir]
      BY <1>2, <1>9
    <2>5. nextDir \notin DOMAIN dirs
      BY <1>2 DEF DirFits, Recovered
    <2>6. Making(op[c])'
      <3>1. SrcFits(op[c])'
        BY <1>3, <2>4 DEF SrcFits
      <3>2. AtPath(op[c].parent, SubSeq(op[c].path, 1, op[c].done - 1))'
        BY <1>1, <2>3, <2>4 DEF AtPath, PathOf
      <3>3. /\ nextDir = nextDir' - 1 /\ nextDir \in 1..MaxDirs /\ nextDir \notin DOMAIN dirs'
        BY <1>1, <1>2, <1>7, <1>9, <2>5, BoundsAssumption
      <3>4. QED
        BY <2>2, <2>4, <3>1, <3>2, <3>3 DEF Making
    <2>7. OpFits(op[c])'
      BY <2>6 DEF OpFits
    <2>8. DOMAIN op' = Callers /\ nextDir' \in nextDir..MaxDirs + 1
      BY <1>2, <1>7, <1>9, BoundsAssumption
    <2>9. QED
      BY <1>1, <1>7, <1>9, <2>7, <2>8, CallerLooks
  <1>10. CASE op' = [op EXCEPT ![c] = Idle] /\ UNCHANGED nextDir
    <2>1. OpFits(op[c])' /\ op'[c].pc = "idle"
      <3>1. op'[c] = Idle
        BY <1>2, <1>10
      <3>2. QED
        BY <3>1, IdleFits
    <2>2. DOMAIN op' = Callers /\ nextDir' \in nextDir..MaxDirs + 1
      BY <1>2, <1>7, <1>10, BoundsAssumption
    <2>3. QED
      BY <1>1, <1>7, <1>10, <2>1, <2>2, CallerLooks
  <1>11. QED
    BY <1>1, <1>8, <1>9, <1>10

\* The record goes to the channel under a number of its own.
LEMMA CreateDirSendKeeps ==
  ASSUME Ready, NEW c \in Callers, CreateDirSend(c)
  PROVE  TreeIInv'
  <1> DEFINE o == op[c]
             rec == DirRecord(o.id, o.parent, o.path[o.done])
             sent == With(channel, o.id, rec)
  <1>1. /\ o.pc = "send"
        /\ UNCHANGED <<dirs, files, nextDir, nextFile, refresh, rebuild, drill>>
        /\ \/ /\ op' = [op EXCEPT ![c] = [o EXCEPT !.pc = "insert"]]
              /\ channel' = sent /\ UNCHANGED <<mkdirMu, faults, lost>>
           \/ /\ Fault /\ op' = [op EXCEPT ![c] = Idle]
              /\ \/ UNCHANGED <<channel, lost>>
                 \/ channel' = sent /\ lost' = lost \cup {D(o.id)}
    BY DEF CreateDirSend, Step, index, ids
  <1>2. /\ DOMAIN op = Callers /\ Phases /\ PathsMatch /\ nextDir \in Nat /\ nextFile \in Nat
        /\ Making(o) /\ Live /\ \A e \in Callers : e = c
    BY <1>1, AtWork, FitAt
  <1>3. channel' \in {channel, sent} /\ lost \subseteq lost' /\ lost' \subseteq lost \cup {D(o.id)}
    BY <1>1
  <1>4. o.id \in 1..nextDir - 1 /\ o.id \in 1..MaxDirs
    BY <1>2 DEF Making
  <1>5. ChannelFits'
    <2>1. ChannelFits
      BY <1>2 DEF Live
    <2> HIDE DEF o
    <2>2. QED
      BY <1>1, <1>3, <1>4, <2>1 DEF ChannelFits, With, DirRecord, FileMsgs, FileMsg
  <1>6. DOMAIN channel \subseteq DOMAIN channel' /\ (channel' = sent => o.id \in DOMAIN channel')
    BY <1>3 DEF With
  <1>7. Backed'
    <2>1. /\ \A i \in DOMAIN dirs : D(i) \in lost \/ dirs[i].msg \in DOMAIN channel
          /\ \A f \in DOMAIN files : F(f) \in lost \/ Range(files[f].segs) \subseteq DOMAIN channel
      BY <1>1, <1>2, PlainlyBacked
    <2>2. QED
      BY <1>1, <1>3, <1>6, <2>1 DEF Backed, D, F
  <1>8. /\ nextDir' \in nextDir..MaxDirs + 1 /\ faults' \in 0..MaxFaults /\ DOMAIN op' = Callers
    BY <1>1, <1>2, BoundsAssumption DEF Phases, PathsMatch, TreeTypeOK, Fault
  <1>9. Recovered \in DOMAIN dirs => D(Recovered) \in lost'
    BY <1>2, <1>3, RecoveredStays
  <1>10. CASE op' = [op EXCEPT ![c] = Idle]
    <2>1. OpFits(op[c])' /\ op'[c].pc = "idle"
      <3>1. op'[c] = Idle
        BY <1>2, <1>10
      <3>2. QED
        BY <3>1, IdleFits
    <2>2. QED
      BY <1>1, <1>5, <1>7, <1>8, <1>9, <2>1, CallerKeepsRows
  <1>11. CASE /\ op' = [op EXCEPT ![c] = [o EXCEPT !.pc = "insert"]]
              /\ channel' = sent /\ UNCHANGED <<mkdirMu, faults, lost>>
    <2>1. op'[c] = [o EXCEPT !.pc = "insert"]
      BY <1>2, <1>11
    <2>2. Making(op[c])' /\ op'[c].pc = "insert"
      <3>1. /\ op'[c].pc = "insert" /\ DOMAIN op'[c] = DOMAIN o
            /\ op'[c].path = o.path /\ op'[c].src = o.src /\ op'[c].done = o.done
            /\ op'[c].parent = o.parent /\ op'[c].id = o.id
        BY <1>2, <2>1 DEF Making
      <3>2. SrcFits(op[c])'
        BY <1>2, <3>1 DEF Making, SrcFits
      <3>3. AtPath(op[c].parent, SubSeq(op[c].path, 1, op[c].done - 1))'
        BY <1>1, <1>2, <3>1 DEF Making, AtPath, PathOf
      <3>4. QED
        BY <1>1, <1>2, <1>6, <1>11, <3>1, <3>2, <3>3 DEF Making
    <2>3. OpFits(op[c])'
      BY <2>2 DEF OpFits
    <2>4. mkdirMu' = c
      BY <1>1, <1>2, <1>11 DEF PathsMatch, TreeTypeOK
    <2>5. QED
      BY <1>1, <1>5, <1>7, <1>8, <1>9, <2>3, <2>4, CallerKeepsRows
  <1>12. QED
    BY <1>1, <1>10, <1>11

\* The row is inserted under a parent that is still there, its message sent.
LEMMA CreateDirInsertKeeps ==
  ASSUME Ready, NEW c \in Callers, CreateDirInsert(c)
  PROVE  TreeIInv'
  <1> DEFINE o == op[c]
             inserted == With(dirs, o.id, NewRow(o))
  <1>1. /\ o.pc = "insert"
        /\ UNCHANGED <<files, channel, nextDir, nextFile, mkdirMu, refresh, rebuild, drill, lost>>
        /\ \/ /\ Consistent(inserted) /\ dirs' = inserted /\ UNCHANGED faults
              /\ op' = [op EXCEPT ![c] = [pc |-> "walk", path |-> o.path, done |-> o.done,
                                          parent |-> o.id, src |-> o.src]]
           \/ /\ IF Consistent(inserted) THEN Fault ELSE UNCHANGED faults
              /\ op' = [op EXCEPT ![c] = [o EXCEPT !.pc = "unsend"]] /\ UNCHANGED dirs
    BY DEF CreateDirInsert, Step, ids
  <1>2. /\ DOMAIN op = Callers /\ Phases /\ PathsMatch /\ nextDir \in Nat /\ nextFile \in Nat
        /\ Making(o) /\ Live /\ TreeFits /\ ~drill /\ rebuild = Idle /\ \A e \in Callers : e = c
    BY <1>1, AtWork, FitAt
  <1>3. faults' \in 0..MaxFaults /\ nextDir' \in nextDir..MaxDirs + 1 /\ DOMAIN op' = Callers
    BY <1>1, <1>2, BoundsAssumption DEF Phases, PathsMatch, TreeTypeOK, Fault
  <1>4. CASE /\ op' = [op EXCEPT ![c] = [o EXCEPT !.pc = "unsend"]] /\ UNCHANGED dirs
    <2>1. op'[c] = [o EXCEPT !.pc = "unsend"]
      BY <1>2, <1>4
    <2>2. Making(op[c])'
      <3>1. /\ op'[c].pc = "unsend" /\ DOMAIN op'[c] = DOMAIN o
            /\ op'[c].path = o.path /\ op'[c].src = o.src /\ op'[c].done = o.done
            /\ op'[c].parent = o.parent /\ op'[c].id = o.id
        BY <1>2, <2>1 DEF Making
      <3>2. SrcFits(op[c])'
        BY <1>2, <3>1 DEF Making, SrcFits
      <3>3. AtPath(op[c].parent, SubSeq(op[c].path, 1, op[c].done - 1))'
        BY <1>2, <1>4, <3>1 DEF Making, AtPath, PathOf
      <3>4. QED
        BY <1>1, <1>2, <1>4, <3>1, <3>2, <3>3 DEF Making
    <2>3. OpFits(op[c])'
      BY <2>2 DEF OpFits
    <2>4. mkdirMu' = c
      BY <1>1, <1>2 DEF PathsMatch, TreeTypeOK
    <2>5. QED
      BY <1>1, <1>3, <1>4, <2>3, <2>4, CallerLooks
  <1>5. CASE /\ Consistent(inserted) /\ dirs' = inserted
             /\ op' = [op EXCEPT ![c] = [pc |-> "walk", path |-> o.path, done |-> o.done,
                                          parent |-> o.id, src |-> o.src]]
    <2> DEFINE row == NewRow(o)
               above == SubSeq(o.path, 1, o.done - 1)
    <2>1. /\ o.id = nextDir - 1 /\ o.id \in 1..nextDir - 1 /\ o.id \notin DOMAIN dirs /\ o.id \in Nat /\ o.id # Root
          /\ o.id \in DOMAIN channel /\ SrcFits(o) /\ AtPath(o.parent, above)
          /\ o.path \in Seq(AllNames) /\ o.done \in 1..Len(o.path)
      BY <1>1, <1>2 DEF Making, SrcFits, Root
    <2>2. /\ DOMAIN dirs' = DOMAIN dirs \cup {o.id} /\ dirs'[o.id] = row
          /\ \A i \in DOMAIN dirs : dirs'[i] = dirs[i]
      BY <1>5, <2>1 DEF With
    <2>3. o.parent \in DOMAIN dirs \cup {Root} /\ PathOf(o.parent) = above /\ o.parent \in Int
      BY <1>2, <2>1 DEF AtPath, TreeFits, Root
    <2>4. /\ row.parent = o.parent /\ row.name = o.path[o.done] /\ row.msg = o.id
          /\ row.path = SubSeq(o.path, 1, o.done)
      BY DEF NewRow
    <2>5. row.path = Join(above, row.name)
      BY <2>1, <2>4, JoinOfParts
    <2>6. row \in [parent : Int, name : AllNames, path : Seq(AllNames), msg : Nat]
      <3>1. o.path[o.done] \in AllNames
        BY <2>1, ElementOfSeq
      <3>2. SubSeq(o.path, 1, o.done) \in Seq(AllNames)
        <4>1. o.done \in 0..Len(o.path)
          BY <2>1, LenProperties
        <4>2. QED
          BY <2>1, <4>1, FirstNames
      <3>3. QED
        BY <2>1, <2>3, <3>1, <3>2 DEF NewRow
    <2> HIDE DEF row, above
    <2>7. PathsMatch'
      <3>1. Consistent(dirs)'
        BY <1>5 DEF Consistent
      <3>2. \A i \in DOMAIN dirs' : dirs'[i].path =
               Join(IF dirs'[i].parent = Root THEN <<>> ELSE dirs'[dirs'[i].parent].path, dirs'[i].name)
        <4> TAKE i \in DOMAIN dirs'
        <4>1. CASE i = o.id
          <5>1. PathOf(o.parent) = IF o.parent = Root THEN <<>> ELSE dirs'[o.parent].path
            BY <2>2, <2>3 DEF PathOf
          <5>2. QED
            BY <2>2, <2>3, <2>4, <2>5, <4>1, <5>1
        <4>2. CASE i # o.id
          <5>1. /\ i \in DOMAIN dirs /\ dirs[i].parent \in DOMAIN dirs \cup {Root}
                /\ dirs[i].path = Join(PathOf(dirs[i].parent), dirs[i].name)
            BY <1>2, <2>2, <4>2 DEF TreeFits
          <5>2. QED
            BY <2>2, <5>1 DEF PathOf
        <4>3. QED
          BY <4>1, <4>2
      <3>3. op'[c].pc = "walk"
        BY <1>2, <1>5
      <3>4. TreeTypeOK'
        BY <1>1, <1>2, <1>3, <2>2, <3>1, <3>3 DEF PathsMatch, TreeTypeOK
      <3>5. QED
        BY <3>2, <3>4 DEF PathsMatch
    <2>8. ASSUME NEW i \in DOMAIN dirs' PROVE DirFits(i)'
      <3>1. CASE i = o.id
        BY <1>1, <2>1, <2>2, <2>4, <2>6, <3>1 DEF DirFits
      <3>2. CASE i # o.id
        <4>1. DirFits(i) /\ dirs'[i] = dirs[i]
          BY <1>2, <2>2, <3>2 DEF Live
        <4>2. QED
          BY <1>1, <4>1 DEF DirFits, D
      <3>3. QED
        BY <3>1, <3>2
    <2>9. ChannelFits' /\ (\A f \in DOMAIN files : FileRowFits(f))'
      BY <1>1, <1>2 DEF Live, ChannelFits, FileRowFits, FileMsgs, FileMsg
    <2>10. OpFits(op[c])'
      <3>1. op'[c] = [pc |-> "walk", path |-> o.path, done |-> o.done, parent |-> o.id, src |-> o.src]
        BY <1>2, <1>5
      <3>2. SrcFits(op[c])'
        BY <2>1, <3>1 DEF SrcFits
      <3>3. AtPath(op[c].parent, SubSeq(op[c].path, 1, op[c].done))'
        BY <2>1, <2>2, <2>4, <3>1 DEF AtPath, PathOf
      <3>4. op'[c].done \in 0..Len(op'[c].path)
        BY <2>1, <3>1, LenProperties
      <3>5. Walking(op[c])'
        BY <3>1, <3>2, <3>3, <3>4 DEF Walking
      <3>6. QED
        BY <3>5 DEF OpFits
    <2>11. Backed'
      <3>1. /\ \A i \in DOMAIN dirs : D(i) \in lost \/ dirs[i].msg \in DOMAIN channel
            /\ \A f \in DOMAIN files : F(f) \in lost \/ Range(files[f].segs) \subseteq DOMAIN channel
        BY <1>1, <1>2, PlainlyBacked
      <3>2. QED
        BY <1>1, <2>1, <2>2, <2>4, <3>1 DEF Backed, D, F
    <2>12. nextDir' \in 1..MaxDirs + 1 /\ nextFile' \in 1..MaxFiles + 1
      BY <1>1, <1>2 DEF Phases
    <2>13. QED
      BY <1>1, <1>2, <1>3, <2>7, <2>8, <2>9, <2>10, <2>11, <2>12, CallerLeaves
  <1>6. QED
    BY <1>1, <1>4, <1>5

\* The record that is taken back, or left behind, has no row.
LEMMA CreateDirRollbackKeeps ==
  ASSUME Ready, NEW c \in Callers, CreateDirRollback(c)
  PROVE  TreeIInv'
  <1> DEFINE o == op[c]
  <1>1. /\ o.pc = "unsend" /\ op' = [op EXCEPT ![c] = Idle]
        /\ UNCHANGED <<dirs, files, nextDir, nextFile, refresh, rebuild, drill, faults>>
        /\ \/ channel' = Without(channel, {o.id}) /\ UNCHANGED lost
           \/ lost' = lost \cup {D(o.id)} /\ UNCHANGED channel
    BY DEF CreateDirRollback, Step, index, ids
  <1>2. /\ DOMAIN op = Callers /\ Phases /\ PathsMatch /\ nextDir \in Nat /\ nextFile \in Nat
        /\ Making(o) /\ Live /\ \A e \in Callers : e = c
    BY <1>1, AtWork, FitAt
  <1>3. /\ o.id \notin DOMAIN dirs /\ o.id \in 1..MaxDirs
    BY <1>2 DEF Making
  <1>4. op'[c] = Idle /\ DOMAIN op' = Callers
    BY <1>1, <1>2
  <1>5. OpFits(op[c])' /\ op'[c].pc = "idle"
    BY <1>4, IdleFits
  <1>6. ChannelFits'
    <2>1. ChannelFits
      BY <1>2 DEF Live
    <2>2. QED
      BY <1>1, <2>1 DEF ChannelFits, Without, FileMsgs, FileMsg
  <1>7. Backed'
    <2>1. /\ \A i \in DOMAIN dirs : D(i) \in lost \/ dirs[i].msg \in DOMAIN channel
          /\ \A f \in DOMAIN files : F(f) \in lost \/ Range(files[f].segs) \subseteq DOMAIN channel
      BY <1>1, <1>2, PlainlyBacked
    <2>2. \A m \in DOMAIN channel : m # o.id => m \in DOMAIN channel'
      BY <1>1 DEF Without
    <2>3. ASSUME NEW i \in DOMAIN dirs PROVE dirs[i].msg # o.id
      <3>1. DirFits(i)
        BY <1>2, <2>3 DEF Live
      <3>2. QED
        BY <1>3, <2>3, <3>1 DEF DirFits
    <2>4. ASSUME NEW f \in DOMAIN files PROVE o.id \notin Range(files[f].segs)
      <3>1. FileRowFits(f)
        BY <1>2, <2>4 DEF Live
      <3>2. f \in Nat \ {0} /\ MaxDirs \in Nat
        BY <1>2, <3>1, BoundsAssumption DEF FileRowFits
      <3>3. \A m \in Range(files[f].segs) : m \in Int /\ m > MaxDirs
        BY <3>1, <3>2, MessagesApart DEF FileRowFits, Range
      <3>4. QED
        BY <1>3, <3>2, <3>3
    <2>5. lost \subseteq lost'
      BY <1>1
    <2>6. QED
      BY <1>1, <2>1, <2>2, <2>3, <2>4, <2>5 DEF Backed, D, F
  <1>8. /\ nextDir' \in nextDir..MaxDirs + 1 /\ faults' \in 0..MaxFaults
    BY <1>1, <1>2, BoundsAssumption DEF Phases, PathsMatch, TreeTypeOK
  <1>9. Recovered \in DOMAIN dirs => D(Recovered) \in lost'
    BY <1>1, <1>2, RecoveredStays
  <1>10. QED
    BY <1>1, <1>4, <1>5, <1>6, <1>7, <1>8, <1>9, CallerKeepsRows

\* A file is stored with messages that no other record has.
LEMMA StoreFileKeeps ==
  ASSUME Ready, NEW c \in Callers, NEW d \in DOMAIN dirs \cup {Root}, NEW n \in Names, StoreFile(c, d, n)
  PROVE  TreeIInv'
  <1> DEFINE f == nextFile
             segs(order) == [s \in 1..Segs |-> FileMsg(f, order[s])]
             row(order) == [dir |-> d, name |-> n, status |-> "complete", count |-> Segs, segs |-> segs(order)]
  <1>1. /\ MayBegin(c) /\ f <= MaxFiles /\ CheckFree(d, n)
        /\ nextFile' = f + 1
        /\ UNCHANGED <<dirs, nextDir, op, mkdirMu, refresh, rebuild, drill, faults, lost>>
    BY DEF StoreFile
  <1>2. PICK order \in Bijection(1..Segs, 1..Segs) :
               /\ files' = With(files, f, row(order))
               /\ channel' = [m \in DOMAIN channel \cup Range(row(order).segs) |->
                                IF m \in DOMAIN channel THEN channel[m]
                                ELSE FileRecord(f, row(order), CHOOSE s \in 1..Segs : row(order).segs[s] = m)]
    BY Zenon DEF StoreFile
  <1> DEFINE new == row(order)
             ss == segs(order)
  <1>3. /\ DOMAIN op = Callers /\ Phases /\ PathsMatch /\ nextDir \in Nat /\ nextFile \in Nat
        /\ Live /\ TreeFits /\ ~drill /\ rebuild = Idle /\ \A e \in Callers : e = c
    BY <1>1, AtWork
  <1>4. op[c] = Idle /\ op[c].pc = "idle" /\ op'[c] = Idle
    BY <1>1 DEF MayBegin, Idle
  <1>5. \A s \in 1..Segs : order[s] \in 1..Segs
    BY <1>2 DEF Bijection, Injection
  <1>6. /\ DOMAIN ss = 1..Segs /\ \A s \in 1..Segs : ss[s] \in FileMsgs(f)
    BY <1>5 DEF FileMsgs
  <1>7. /\ new.dir = d /\ new.name = n /\ new.segs = ss
        /\ DOMAIN new = {"dir", "name", "status", "count", "segs"}
    OBVIOUS
  <1> HIDE DEF new, ss
  <1>8. /\ files' = With(files, f, new)
        /\ channel' = [m \in DOMAIN channel \cup Range(ss) |->
                         IF m \in DOMAIN channel THEN channel[m]
                         ELSE FileRecord(f, new, CHOOSE s \in 1..Segs : ss[s] = m)]
    <2>1. /\ files' = With(files, f, new)
          /\ channel' = [m \in DOMAIN channel \cup Range(new.segs) |->
                           IF m \in DOMAIN channel THEN channel[m]
                           ELSE FileRecord(f, new, CHOOSE s \in 1..Segs : new.segs[s] = m)]
      BY <1>2, Zenon DEF new
    <2>2. QED
      BY <1>7, <2>1
  <1>9. f \notin DOMAIN files /\ f \in Nat
    <2>1. \A g \in DOMAIN files : g \in 1..f - 1
      BY <1>3 DEF Live, FileRowFits
    <2>2. QED
      BY <1>3, <2>1
  <1>10. /\ DOMAIN files' = DOMAIN files \cup {f} /\ files'[f] = new
         /\ \A g \in DOMAIN files : files'[g] = files[g]
    BY <1>8, <1>9 DEF With
  <1>11. /\ DOMAIN channel' = DOMAIN channel \cup Range(ss)
         /\ \A m \in DOMAIN channel : channel'[m] = channel[m]
    BY <1>8
  <1>12. ASSUME NEW m \in Range(ss), m \notin DOMAIN channel
         PROVE  /\ channel'[m].kind = "file" /\ channel'[m].id = f
                /\ channel'[m].seg \in 1..Segs /\ m \in FileMsgs(f)
    <2>1. PICK s \in 1..Segs : ss[s] = m
      BY <1>6, <1>12 DEF Range
    <2> DEFINE t == CHOOSE x \in 1..Segs : ss[x] = m
    <2>2. t \in 1..Segs
      BY <2>1
    <2>3. channel'[m] = FileRecord(f, new, t)
      BY <1>8, <1>12
    <2> HIDE DEF t
    <2>4. QED
      BY <1>6, <2>1, <2>2, <2>3 DEF FileRecord
  <1>13. f \in 1..nextFile' - 1 /\ \A g : g \in 1..nextFile - 1 => g \in 1..nextFile' - 1
    <2>1. nextFile \in 1..MaxFiles + 1
      BY <1>3 DEF Phases
    <2>2. QED
      BY <1>1, <1>3, <2>1
  <1>14. ChannelFits'
    <2>1. ChannelFits
      BY <1>3 DEF Live
    <2>2. ASSUME NEW m \in DOMAIN channel, channel[m].kind = "file", channel[m].id \in 1..nextFile - 1,
                 channel[m].seg \in 1..Segs, m \in FileMsgs(channel[m].id)
          PROVE  /\ channel'[m].kind = "file" /\ channel'[m].id \in 1..nextFile' - 1
                 /\ channel'[m].seg \in 1..Segs /\ m \in FileMsgs(channel'[m].id)
      BY <1>11, <1>13, <2>2
    <2>3. ASSUME NEW m \in DOMAIN channel, channel[m].kind = "dir", channel[m].id = m, m \in 1..nextDir - 1
          PROVE  channel'[m].kind = "dir" /\ channel'[m].id = m /\ m \in 1..nextDir' - 1
      BY <1>1, <1>11, <2>3
    <2>4. \A m : FileMsgs(m)' = FileMsgs(m)
      BY DEF FileMsgs, FileMsg
    <2>5. QED
      BY <1>11, <1>12, <1>13, <2>1, <2>2, <2>3, <2>4 DEF ChannelFits
  <1>15. (\A i \in DOMAIN dirs : DirFits(i))'
    BY <1>1, <1>3 DEF Live, DirFits, D
  <1>16. (\A g \in DOMAIN files : FileRowFits(g))'
    <2>1. ASSUME NEW g \in DOMAIN files' PROVE FileRowFits(g)'
      <3>1. CASE g = f
        BY <1>6, <1>7, <1>10, <1>13, <3>1 DEF FileRowFits, FileMsgs, FileMsg
      <3>2. CASE g # f
        <4>1. FileRowFits(g) /\ files'[g] = files[g]
          BY <1>3, <1>10, <2>1, <3>2 DEF Live
        <4>2. QED
          BY <1>13, <4>1 DEF FileRowFits, FileMsgs, FileMsg
      <3>3. QED
        BY <3>1, <3>2
    <2>2. QED
      BY <2>1
  <1>17. PathsMatch'
    <2>1. \A g \in DOMAIN files : ~(files[g].dir = d /\ files[g].name = n)
      BY <1>1 DEF CheckFree, FileInDir
    <2>2. \A g, h \in DOMAIN files' :
            g # h => <<files'[g].dir, files'[g].name>> # <<files'[h].dir, files'[h].name>>
      <3>1. \A g, h \in DOMAIN files : g # h => <<files[g].dir, files[g].name>> # <<files[h].dir, files[h].name>>
        BY <1>3 DEF PathsMatch, TreeTypeOK
      <3>2. QED
        BY <1>7, <1>10, <2>1, <3>1
    <2>3. \A g \in DOMAIN files' : files'[g].dir \in DOMAIN dirs \cup {Root}
      BY <1>3, <1>7, <1>10 DEF PathsMatch, TreeTypeOK
    <2>4. Consistent(dirs)'
      BY <1>1, <1>3 DEF PathsMatch, TreeTypeOK, Consistent
    <2>5. TreeTypeOK'
      BY <1>1, <1>3, <2>2, <2>3, <2>4 DEF PathsMatch, TreeTypeOK
    <2>6. QED
      BY <1>1, <1>3, <2>5 DEF PathsMatch
  <1>18. OpFits(op[c])'
    BY <1>4, IdleFits
  <1>19. Backed'
    <2>1. /\ \A i \in DOMAIN dirs : D(i) \in lost \/ dirs[i].msg \in DOMAIN channel
          /\ \A g \in DOMAIN files : F(g) \in lost \/ Range(files[g].segs) \subseteq DOMAIN channel
      BY <1>3, <1>4, PlainlyBacked
    <2>2. Range(files'[f].segs) \subseteq DOMAIN channel'
      BY <1>7, <1>10, <1>11
    <2>3. \A g \in DOMAIN files' : F(g) \in lost' \/ Range(files'[g].segs) \subseteq DOMAIN channel'
      BY <1>1, <1>10, <1>11, <2>1, <2>2
    <2>4. \A i \in DOMAIN dirs' : D(i) \in lost' \/ dirs'[i].msg \in DOMAIN channel'
      BY <1>1, <1>11, <2>1
    <2>5. QED
      BY <2>3, <2>4 DEF Backed, D, F
  <1>20. nextDir' \in 1..MaxDirs + 1 /\ nextFile' \in 1..MaxFiles + 1 /\ DOMAIN op' = Callers
    BY <1>1, <1>3, BoundsAssumption DEF Phases
  <1>21. QED
    BY <1>1, <1>3, <1>14, <1>15, <1>16, <1>17, <1>18, <1>19, <1>20, CallerLeaves

\* The new path of a rename is not below the old one: it is no longer.
LEMMA RenameKeeps ==
  ASSUME Ready, NEW c \in Callers, NEW p \in Paths, NEW n \in Names, Rename(c, p, n)
  PROVE  TreeIInv'
  <1> DEFINE above == SubSeq(p, 1, Len(p) - 1)
             d     == ResolveDir(above)
  <1>1. /\ MayBegin(c) /\ DirPath(above)
        /\ UNCHANGED <<dirs, files, channel, nextDir, nextFile, mkdirMu, refresh, rebuild, drill, faults, lost>>
        /\ \/ \E i \in DirByPath(p) :
                op' = [op EXCEPT ![c] = [pc |-> "updateDir", id |-> i, parent |-> d, name |-> n, path |-> Join(above, n)]]
           \/ \E f \in FileInDir(d, Last(p)) :
                op' = [op EXCEPT ![c] = [pc |-> "updateFile", id |-> f, dir |-> d, name |-> n]]
    BY DEF Rename, Step, index, ids
  <1>2. /\ DOMAIN op = Callers /\ Phases /\ PathsMatch /\ nextDir \in Nat /\ TreeFits
    BY <1>1, AtWork
  <1>3. op[c].pc = "idle"
    BY <1>1 DEF MayBegin, Idle
  <1>4. AtPath(d, above)
    BY <1>1, <1>2, Resolves DEF TreeFits
  <1>5. p \in Seq(AllNames) /\ Len(p) \in Nat /\ n \in AllNames
    BY PathsAreTyped, NamesAssumption
  <1>6. nextDir' \in nextDir..MaxDirs + 1 /\ faults' \in 0..MaxFaults /\ DOMAIN op' = Callers
    BY <1>1, <1>2, BoundsAssumption DEF Phases, PathsMatch, TreeTypeOK
  <1>7. ASSUME NEW i \in DirByPath(p),
               op' = [op EXCEPT ![c] = [pc |-> "updateDir", id |-> i, parent |-> d, name |-> n, path |-> Join(above, n)]]
        PROVE  OpFits(op[c])' /\ op'[c].pc = "updateDir"
    <2>1. i \in DOMAIN dirs /\ dirs[i].path = p
      BY DEF DirByPath
    <2>2. Len(p) - 1 \in 0..Len(p)
      <3>1. Len(dirs[i].path) = Len(PathOf(dirs[i].parent)) + 1 /\ Len(PathOf(dirs[i].parent)) \in Nat
        BY <1>2, <2>1, OneNameMore
      <3>2. QED
        BY <2>1, <3>1
    <2>3. above \in Seq(AllNames) /\ Len(above) = Len(p) - 1
      BY <1>5, <2>2, FirstNames
    <2> HIDE DEF above, d
    <2>4. p # above /\ ~IsDescendant(p, above)
      <3>1. ~(Len(p) < Len(above)) /\ Len(p) # Len(above)
        BY <1>5, <2>3
      <3>2. QED
        BY <1>5, <2>3, <3>1, DescendantMeans
    <2>5. op'[c] = [pc |-> "updateDir", id |-> i, parent |-> d, name |-> n, path |-> Join(above, n)]
      BY <1>2, <1>7
    <2>6. UpdatingDir(op[c])'
      BY <1>1, <1>4, <1>5, <2>1, <2>4, <2>5 DEF UpdatingDir, AtPath, PathOf
    <2>7. QED
      BY <2>5, <2>6 DEF OpFits
  <1>8. ASSUME NEW f \in FileInDir(d, Last(p)),
               op' = [op EXCEPT ![c] = [pc |-> "updateFile", id |-> f, dir |-> d, name |-> n]]
        PROVE  OpFits(op[c])' /\ op'[c].pc = "updateFile"
    <2>1. f \in DOMAIN files
      BY DEF FileInDir
    <2> HIDE DEF d
    <2>2. op'[c] = [pc |-> "updateFile", id |-> f, dir |-> d, name |-> n]
      BY <1>2, <1>8
    <2>3. UpdatingFile(op[c])'
      BY <1>1, <2>1, <2>2 DEF UpdatingFile
    <2>4. QED
      BY <2>2, <2>3 DEF OpFits
  <1>9. OpFits(op[c])' /\ op'[c].pc \in {"updateDir", "updateFile"}
    BY <1>1, <1>7, <1>8
  <1>10. QED
    BY <1>1, <1>3, <1>6, <1>9, CallerLooks

\* The target of a move is not below its source, as Mkdir checked.
LEMMA MoveLookupKeeps ==
  ASSUME Ready, NEW c \in Callers, MoveLookup(c)
  PROVE  TreeIInv'
  <1> DEFINE o     == op[c]
             n     == Last(o.src)
             dir(i) == [pc |-> "updateDir", id |-> i, parent |-> o.target, name |-> n, path |-> Join(o.path, n)]
             moved(f) == [pc |-> "updateFile", id |-> f, dir |-> o.target, name |-> n]
  <1>1. /\ o.pc = "place"
        /\ UNCHANGED <<dirs, files, channel, nextDir, nextFile, mkdirMu, refresh, rebuild, drill, faults, lost>>
        /\ \/ op' = [op EXCEPT ![c] = Idle]
           \/ \E i \in DirByPath(o.src) : op' = [op EXCEPT ![c] = dir(i)]
           \/ \E f \in DOMAIN files : op' = [op EXCEPT ![c] = moved(f)]
    BY DEF MoveLookup, Step, index, ids, FileInDir
  <1>2. /\ DOMAIN op = Callers /\ Phases /\ PathsMatch /\ nextDir \in Nat /\ TreeFits /\ Placing(o)
    BY <1>1, AtWork, FitAt
  <1>3. nextDir' \in nextDir..MaxDirs + 1 /\ faults' \in 0..MaxFaults /\ DOMAIN op' = Callers
    BY <1>1, <1>2, BoundsAssumption DEF Phases, PathsMatch, TreeTypeOK
  <1>4. /\ o.src \in Seq(AllNames) /\ o.src # <<>> /\ o.src # o.path /\ ~IsDescendant(o.src, o.path)
        /\ AtPath(o.target, o.path)
    BY <1>2 DEF Placing, SrcFits
  <1>5. n \in AllNames
    <2>1. Len(o.src) \in 1..Len(o.src)
      BY <1>4, EmptySeq
    <2>2. QED
      BY <1>4, <2>1, ElementOfSeq DEF Last
  <1>6. CASE op' = [op EXCEPT ![c] = Idle]
    <2>1. op'[c] = Idle
      BY <1>2, <1>6
    <2>2. OpFits(op[c])' /\ op'[c].pc = "idle"
      BY <2>1, IdleFits
    <2>3. QED
      BY <1>1, <1>3, <2>2, CallerLooks
  <1>7. ASSUME NEW i \in DirByPath(o.src), op' = [op EXCEPT ![c] = dir(i)]
        PROVE  TreeIInv'
    <2>1. i \in DOMAIN dirs /\ dirs[i].path = o.src
      BY DEF DirByPath
    <2>2. op'[c] = dir(i)
      BY <1>2, <1>7
    <2> HIDE DEF n
    <2>3. UpdatingDir(op[c])'
      BY <1>1, <1>4, <1>5, <2>1, <2>2 DEF UpdatingDir, AtPath, PathOf
    <2>4. OpFits(op[c])' /\ op'[c].pc = "updateDir"
      BY <2>2, <2>3 DEF OpFits
    <2>5. QED
      BY <1>1, <1>3, <2>4, CallerLooks
  <1>8. ASSUME NEW f \in DOMAIN files, op' = [op EXCEPT ![c] = moved(f)]
        PROVE  TreeIInv'
    <2>1. op'[c] = moved(f)
      BY <1>2, <1>8
    <2> HIDE DEF n
    <2>2. UpdatingFile(op[c])'
      BY <1>1, <2>1 DEF UpdatingFile
    <2>3. OpFits(op[c])' /\ op'[c].pc = "updateFile"
      BY <2>1, <2>2 DEF OpFits
    <2>4. QED
      BY <1>1, <1>3, <2>3, CallerLooks
  <1>9. QED
    BY <1>1, <1>6, <1>7, <1>8

\* RenameDir and MoveDir: every path is again that of its parent and its name.
LEMMA UpdateDirKeeps ==
  ASSUME Ready, NEW c \in Callers, UpdateDir(c)
  PROVE  TreeIInv'
  <1> DEFINE o == op[c]
             u == Updated(o)
  <1>1. /\ o.pc = "updateDir"
        /\ UNCHANGED <<files, channel, nextDir, nextFile, mkdirMu, refresh, rebuild, drill, faults, lost>>
        /\ \/ /\ o.id \in DOMAIN dirs /\ Consistent(u) /\ dirs' = u
              /\ op' = [op EXCEPT ![c] = [pc |-> "dirCaption", id |-> o.id, row |-> u[o.id]]]
           \/ UNCHANGED dirs /\ op' = [op EXCEPT ![c] = Idle]
    BY DEF UpdateDir, Step, ids
  <1>2. /\ DOMAIN op = Callers /\ Phases /\ PathsMatch /\ nextDir \in Nat /\ nextFile \in Nat
        /\ UpdatingDir(o) /\ Live /\ TreeFits /\ ~drill /\ rebuild = Idle /\ \A e \in Callers : e = c
        /\ NoCaseTwins
    BY <1>1, AtWork, FitAt DEF Ready
  <1>3. nextDir' \in nextDir..MaxDirs + 1 /\ faults' \in 0..MaxFaults /\ DOMAIN op' = Callers
    BY <1>1, <1>2, BoundsAssumption DEF Phases, PathsMatch, TreeTypeOK
  <1>4. CASE UNCHANGED dirs /\ op' = [op EXCEPT ![c] = Idle]
    <2>1. op'[c] = Idle
      BY <1>2, <1>4
    <2>2. OpFits(op[c])' /\ op'[c].pc = "idle"
      BY <2>1, IdleFits
    <2>3. QED
      BY <1>1, <1>3, <1>4, <2>2, CallerLooks
  <1>5. CASE /\ o.id \in DOMAIN dirs /\ Consistent(u) /\ dirs' = u
             /\ op' = [op EXCEPT ![c] = [pc |-> "dirCaption", id |-> o.id, row |-> u[o.id]]]
    <2>1. DOMAIN u = DOMAIN dirs
      <3>1. TreeFits /\ NoCaseTwins /\ UpdatingDir(o)
        BY <1>2
      <3>2. QED
        BY <3>1, UpdatedGives, Zenon
    <2>2. \A i \in DOMAIN dirs :
            /\ u[i] \in [parent : Int, name : AllNames, path : Seq(AllNames), msg : Nat]
            /\ u[i].msg = dirs[i].msg
            /\ u[i].path = Join(IF u[i].parent = Root THEN <<>> ELSE u[u[i].parent].path, u[i].name)
      BY <1>2, UpdatedKeepsPaths
    <2>3. op'[c] = [pc |-> "dirCaption", id |-> o.id, row |-> u[o.id]]
      BY <1>2, <1>5
    <2> HIDE DEF u, o
    <2>4. DOMAIN dirs' = DOMAIN dirs
      BY <1>5, <2>1
    <2>5. PathsMatch'
      <3>1. Consistent(dirs)'
        BY <1>5 DEF Consistent
      <3>2. TreeTypeOK'
        BY <1>1, <1>2, <1>3, <2>3, <2>4, <3>1 DEF PathsMatch, TreeTypeOK
      <3>3. QED
        BY <1>5, <2>2, <2>4, <3>2 DEF PathsMatch
    <2>6. ASSUME NEW i \in DOMAIN dirs' PROVE DirFits(i)'
      <3>1. DirFits(i)
        BY <1>2, <2>4 DEF Live
      <3>2. QED
        BY <1>1, <1>5, <2>2, <2>4, <3>1 DEF DirFits, D
    <2>7. ChannelFits' /\ (\A f \in DOMAIN files : FileRowFits(f))'
      BY <1>1, <1>2 DEF Live, ChannelFits, FileRowFits, FileMsgs, FileMsg
    <2>8. OpFits(op[c])'
      <3>1. CaptioningDir(op[c])'
        BY <1>5, <2>3, <2>4 DEF CaptioningDir
      <3>2. QED
        BY <3>1 DEF OpFits
    <2>9. Backed'
      <3>1. /\ \A i \in DOMAIN dirs : D(i) \in lost \/ dirs[i].msg \in DOMAIN channel
            /\ \A f \in DOMAIN files : F(f) \in lost \/ Range(files[f].segs) \subseteq DOMAIN channel
        BY <1>1, <1>2, PlainlyBacked DEF o
      <3>2. QED
        BY <1>1, <1>5, <2>2, <2>4, <3>1 DEF Backed, D, F
    <2>10. nextDir' \in 1..MaxDirs + 1 /\ nextFile' \in 1..MaxFiles + 1
      BY <1>1, <1>2 DEF Phases
    <2>11. QED
      BY <1>1, <1>2, <1>3, <2>5, <2>6, <2>7, <2>8, <2>9, <2>10, CallerLeaves
  <1>6. QED
    BY <1>1, <1>4, <1>5

\* A directory whose caption is rewritten has its message, lost before or not.
LEMMA DirCaptionKeeps ==
  ASSUME Ready, NEW c \in Callers, DirCaption(c)
  PROVE  TreeIInv'
  <1> DEFINE o == op[c]
             rec == DirRecord(o.id, o.row.parent, o.row.name)
  <1>1. /\ o.pc = "dirCaption"
        /\ UNCHANGED <<dirs, files, nextDir, nextFile, mkdirMu, rebuild, drill>>
        /\ op' = [op EXCEPT ![c] = Idle]
        /\ \/ /\ o.row.msg \in DOMAIN channel /\ UNCHANGED faults
              /\ channel' = [channel EXCEPT ![o.row.msg] = rec]
              /\ lost' = lost \ {D(o.id)}
           \/ UNCHANGED <<channel, faults, lost>>
           \/ Fault /\ lost' = lost \cup {D(o.id)} /\ UNCHANGED channel
    BY DEF DirCaption, Step, index, ids
  <1>2. /\ DOMAIN op = Callers /\ Phases /\ PathsMatch /\ nextDir \in Nat /\ nextFile \in Nat
        /\ CaptioningDir(o) /\ Live /\ \A e \in Callers : e = c
    BY <1>1, AtWork, FitAt
  <1>3. /\ nextDir' \in nextDir..MaxDirs + 1 /\ faults' \in 0..MaxFaults /\ DOMAIN op' = Callers
    BY <1>1, <1>2, BoundsAssumption DEF Phases, PathsMatch, TreeTypeOK, Fault
  <1>4. OpFits(op[c])' /\ op'[c].pc = "idle"
    <2>1. op'[c] = Idle
      BY <1>1, <1>2
    <2>2. QED
      BY <2>1, IdleFits
  <1>5. CASE UNCHANGED channel /\ lost \subseteq lost'
    BY <1>1, <1>3, <1>4, <1>5, CallerLooks
  <1>6. CASE /\ o.row.msg \in DOMAIN channel
             /\ channel' = [channel EXCEPT ![o.row.msg] = rec]
             /\ lost' = lost \ {D(o.id)}
    <2>1. o.id \in DOMAIN dirs /\ o.row = dirs[o.id] /\ DirFits(o.id) /\ ChannelFits
      BY <1>2 DEF CaptioningDir, Live
    <2>2. o.row.msg = o.id /\ o.id \in 1..nextDir - 1
      <3>1. 0 \notin DOMAIN channel
        <4>1. \A f \in 1..nextFile - 1 : 0 \notin FileMsgs(f)
          <5>1. ASSUME NEW f \in 1..nextFile - 1, 0 \in FileMsgs(f) PROVE FALSE
            <6>1. f \in Nat \ {0}
              BY <1>2, <5>1
            <6>2. 0 > MaxDirs
              BY <5>1, <6>1, MessagesApart
            <6>3. QED
              BY <6>2, BoundsAssumption
          <5>2. QED
            BY <5>1
        <4>2. QED
          BY <1>2, <2>1, <4>1 DEF ChannelFits
      <3>2. QED
        BY <1>6, <2>1, <3>1 DEF DirFits
    <2>3. ChannelFits'
      <3>1. /\ DOMAIN channel' = DOMAIN channel /\ channel'[o.id] = rec
            /\ \A m \in DOMAIN channel : m # o.id => channel'[m] = channel[m]
        BY <1>6, <2>2
      <3>2. rec.kind = "dir" /\ rec.id = o.id
        BY DEF DirRecord
      <3> HIDE DEF rec, o
      <3>3. QED
        BY <1>1, <2>1, <2>2, <3>1, <3>2 DEF ChannelFits, FileMsgs, FileMsg
    <2>4. DOMAIN channel' = DOMAIN channel
      BY <1>6
    <2>5. Backed'
      <3>1. /\ \A i \in DOMAIN dirs : D(i) \in lost \/ dirs[i].msg \in DOMAIN channel
            /\ \A f \in DOMAIN files : F(f) \in lost \/ Range(files[f].segs) \subseteq DOMAIN channel
        BY <1>1, <1>2, PlainlyBacked
      <3> HIDE DEF o
      <3>2. ASSUME NEW i \in DOMAIN dirs PROVE D(i) \in lost' \/ dirs[i].msg \in DOMAIN channel
        <4>1. CASE i = o.id
          BY <1>6, <2>1, <4>1
        <4>2. CASE i # o.id
          <5>1. D(i) # D(o.id)
            BY <4>2 DEF D
          <5>2. QED
            BY <1>6, <3>1, <5>1
        <4>3. QED
          BY <4>1, <4>2
      <3>3. ASSUME NEW f \in DOMAIN files
            PROVE  F(f) \in lost' \/ Range(files[f].segs) \subseteq DOMAIN channel
        <4>1. F(f) # D(o.id)
          BY DEF D, F
        <4>2. QED
          BY <1>6, <3>1, <4>1
      <3>4. QED
        BY <1>1, <2>4, <3>2, <3>3 DEF Backed, D, F
    <2>6. Recovered \in DOMAIN dirs => D(Recovered) \in lost'
      <3>1. Recovered # o.id
        BY <1>2, <2>2 DEF Recovered
      <3>2. QED
        BY <1>2, <1>6, <3>1, RecoveredStays DEF D
    <2>7. QED
      BY <1>1, <1>3, <1>4, <2>3, <2>5, <2>6, CallerKeepsRows
  <1>7. QED
    BY <1>1, <1>5, <1>6

\* A file that changes its folder or name keeps its messages.
LEMMA UpdateFileKeeps ==
  ASSUME Ready, NEW c \in Callers, UpdateFile(c)
  PROVE  TreeIInv'
  <1> DEFINE o   == op[c]
             row == [files[o.id] EXCEPT !.dir = o.dir, !.name = o.name]
             next == [pc |-> "fileCaption", id |-> o.id, row |-> row, seg |-> 1,
                      overtaken |-> Held(o.id) # {}]
  <1>1. /\ o.pc = "updateFile"
        /\ UNCHANGED <<dirs, channel, nextDir, nextFile, mkdirMu, refresh, rebuild, drill, faults>>
        /\ \/ /\ o.id \in DOMAIN files /\ o.dir \in DOMAIN dirs \cup {Root}
              /\ FileInDir(o.dir, o.name) \subseteq {o.id}
              /\ files' = [files EXCEPT ![o.id] = row]
              /\ lost \subseteq lost'
              /\ op' = [op EXCEPT ![c] = next]
           \/ UNCHANGED <<files, lost>> /\ op' = [op EXCEPT ![c] = Idle]
    BY DEF UpdateFile, Step, ids
  <1>2. /\ DOMAIN op = Callers /\ Phases /\ PathsMatch /\ nextDir \in Nat /\ nextFile \in Nat
        /\ UpdatingFile(o) /\ Live /\ ~drill /\ rebuild = Idle /\ \A e \in Callers : e = c
    BY <1>1, AtWork, FitAt
  <1>3. nextDir' \in nextDir..MaxDirs + 1 /\ faults' \in 0..MaxFaults /\ DOMAIN op' = Callers
    BY <1>1, <1>2, BoundsAssumption DEF Phases, PathsMatch, TreeTypeOK
  <1>4. CASE UNCHANGED <<files, lost>> /\ op' = [op EXCEPT ![c] = Idle]
    <2>1. op'[c] = Idle
      BY <1>2, <1>4
    <2>2. OpFits(op[c])' /\ op'[c].pc = "idle"
      BY <2>1, IdleFits
    <2>3. QED
      BY <1>1, <1>3, <1>4, <2>2, CallerLooks
  <1>5. CASE /\ o.id \in DOMAIN files /\ o.dir \in DOMAIN dirs \cup {Root}
             /\ FileInDir(o.dir, o.name) \subseteq {o.id}
             /\ files' = [files EXCEPT ![o.id] = row]
             /\ lost \subseteq lost'
             /\ op' = [op EXCEPT ![c] = next]
    <2>1. op'[c] = next
      BY <1>2, <1>5
    <2>2. \A f \in DOMAIN files : FileRowFits(f)
      BY <1>2 DEF Live
    <2>3. /\ DOMAIN row = {"dir", "name", "status", "count", "segs"} /\ row.segs = files[o.id].segs
          /\ row.dir = o.dir /\ row.name = o.name
      BY <1>5, <2>2 DEF FileRowFits
    <2>4. DOMAIN next = {"pc", "id", "row", "seg", "overtaken"} /\ next.pc = "fileCaption" /\ next.id = o.id /\ next.seg = 1
      OBVIOUS
    <2> HIDE DEF row, next, o
    <2>5. /\ DOMAIN files' = DOMAIN files /\ files'[o.id] = row
          /\ \A f \in DOMAIN files : f # o.id => files'[f] = files[f]
      BY <1>5
    <2>6. \A f \in DOMAIN files : files'[f].segs = files[f].segs /\ DOMAIN files'[f] = {"dir", "name", "status", "count", "segs"}
      BY <2>2, <2>3, <2>5 DEF FileRowFits
    <2>7. (\A f \in DOMAIN files : FileRowFits(f))'
      BY <1>1, <2>2, <2>5, <2>6 DEF FileRowFits, FileMsgs, FileMsg
    <2>8. PathsMatch'
      <3>1. \A f, g \in DOMAIN files :
              f # g => <<files[f].dir, files[f].name>> # <<files[g].dir, files[g].name>>
        BY <1>2 DEF PathsMatch, TreeTypeOK
      <3>2. \A f \in DOMAIN files : f # o.id => ~(files[f].dir = o.dir /\ files[f].name = o.name)
        BY <1>5 DEF FileInDir
      <3>3. \A f, g \in DOMAIN files' :
              f # g => <<files'[f].dir, files'[f].name>> # <<files'[g].dir, files'[g].name>>
        BY <2>3, <2>5, <3>1, <3>2
      <3>4. \A f \in DOMAIN files' : files'[f].dir \in DOMAIN dirs \cup {Root}
        BY <1>2, <1>5, <2>3, <2>5 DEF PathsMatch, TreeTypeOK
      <3>5. Consistent(dirs)'
        BY <1>1, <1>2 DEF PathsMatch, TreeTypeOK, Consistent
      <3>6. op'[c].pc = "fileCaption"
        BY <2>1, <2>4
      <3>7. TreeTypeOK'
        BY <1>1, <1>2, <1>3, <3>3, <3>4, <3>5, <3>6 DEF TreeTypeOK
      <3>8. QED
        BY <1>1, <1>2, <3>7 DEF PathsMatch
    <2>9. OpFits(op[c])'
      <3>1. 1 \in 1..Segs /\ \A s \in DOMAIN files[o.id].segs : ~(s < 1)
        BY <1>5, <2>2, SegsAssumption DEF FileRowFits
      <3>2. CaptioningFile(op[c])'
        BY <1>1, <1>5, <2>1, <2>4, <2>5, <2>6, <3>1 DEF CaptioningFile
      <3>3. QED
        BY <3>2 DEF OpFits
    <2>10. Backed'
      <3>1. /\ \A i \in DOMAIN dirs : D(i) \in lost \/ dirs[i].msg \in DOMAIN channel
            /\ \A f \in DOMAIN files : F(f) \in lost \/ Range(files[f].segs) \subseteq DOMAIN channel
        BY <1>1, <1>2, PlainlyBacked DEF o
      <3>2. QED
        BY <1>1, <1>5, <2>5, <2>6, <3>1 DEF Backed, D, F
    <2>11. ChannelFits'
      <3>1. ChannelFits /\ nextDir' = nextDir /\ nextFile' = nextFile /\ UNCHANGED channel
        BY <1>1, <1>2 DEF Live
      <3>2. QED
        BY <1>2, <3>1, ChannelStays
    <2>12. (\A i \in DOMAIN dirs : DirFits(i))'
      <3>1. ASSUME NEW i \in DOMAIN dirs PROVE DirFits(i)'
        <4>1. DirFits(i)
          BY <1>2 DEF Live
        <4>2. QED
          BY <1>1, <1>5, <4>1 DEF DirFits, D
      <3>2. QED
        BY <1>1, <3>1
    <2>13. nextDir' \in 1..MaxDirs + 1 /\ nextFile' \in 1..MaxFiles + 1
      BY <1>1, <1>2 DEF Phases
    <2>14. QED
      BY <1>1, <1>2, <1>3, <2>7, <2>8, <2>9, <2>10, <2>11, <2>12, <2>13, CallerLeaves
  <1>6. QED
    BY <1>1, <1>4, <1>5

\* An edit of one segment leaves its record that of the same segment.
LEMMA EditKeepsChannel ==
  ASSUME ChannelFits, NEW f \in DOMAIN files, FileRowFits(f), NEW row, NEW s \in DOMAIN files[f].segs,
         files[f].segs[s] \in DOMAIN channel,
         channel' = Edited(f, row, s), UNCHANGED <<nextDir, nextFile>>
  PROVE  ChannelFits' /\ DOMAIN channel' = DOMAIN channel
  <1> DEFINE m   == files[f].segs[s]
             rec == FileRecord(f, row, s)
  <1>1. m \in FileMsgs(f) /\ s \in 1..Segs /\ f \in 1..nextFile - 1
    BY DEF FileRowFits
  <1>2. rec.kind = "file" /\ rec.id = f /\ rec.seg = s
    BY DEF FileRecord
  <1> HIDE DEF rec
  <1>3. /\ DOMAIN channel' = DOMAIN channel /\ channel'[m] = rec
        /\ \A x \in DOMAIN channel : x # m => channel'[x] = channel[x]
    BY DEF Edited, rec
  <1> HIDE DEF m
  <1>4. QED
    BY <1>1, <1>2, <1>3 DEF ChannelFits, FileMsgs, FileMsg

\* A file counts as sound again once each segment was edited in its turn.
LEMMA FileCaptionKeeps ==
  ASSUME Ready, NEW c \in Callers, FileCaption(c)
  PROVE  TreeIInv'
  <1> DEFINE o == op[c]
             more == [o EXCEPT !.seg = @ + 1]
  <1>1. /\ o.pc = "fileCaption"
        /\ UNCHANGED <<dirs, files, nextDir, nextFile, mkdirMu, refresh, rebuild, drill>>
        /\ \/ /\ Editable(o.id, o.row, o.seg) /\ channel' = Edited(o.id, o.row, o.seg) /\ UNCHANGED faults
              /\ \/ o.seg < Segs /\ op' = [op EXCEPT ![c] = more] /\ UNCHANGED lost
                 \/ /\ ~(o.seg < Segs) /\ op' = [op EXCEPT ![c] = Idle]
                    /\ lost \ {F(o.id), Overtaken(o.id)} \subseteq lost'
           \/ /\ op' = [op EXCEPT ![c] = Idle] /\ lost \subseteq lost' /\ UNCHANGED channel
              /\ Fault \/ UNCHANGED faults
    BY DEF FileCaption, Step, index, ids
  <1>2. /\ DOMAIN op = Callers /\ Phases /\ PathsMatch /\ nextDir \in Nat /\ nextFile \in Nat
        /\ CaptioningFile(o) /\ Live /\ \A e \in Callers : e = c
    BY <1>1, AtWork, FitAt
  <1>3. nextDir' \in nextDir..MaxDirs + 1 /\ faults' \in 0..MaxFaults /\ DOMAIN op' = Callers
    BY <1>1, <1>2, BoundsAssumption DEF Phases, PathsMatch, TreeTypeOK, Fault
  <1>4. op' = [op EXCEPT ![c] = Idle] => OpFits(op[c])' /\ op'[c].pc = "idle"
    <2>1. op' = [op EXCEPT ![c] = Idle] => op'[c] = Idle
      BY <1>2
    <2>2. QED
      BY <2>1, IdleFits
  <1>5. CASE op' = [op EXCEPT ![c] = Idle] /\ lost \subseteq lost' /\ UNCHANGED channel
    BY <1>1, <1>3, <1>4, <1>5, CallerLooks
  <1>6. ASSUME Editable(o.id, o.row, o.seg), channel' = Edited(o.id, o.row, o.seg)
        PROVE  /\ ChannelFits' /\ DOMAIN channel' = DOMAIN channel
               /\ o.id \in DOMAIN files /\ files[o.id].segs[o.seg] \in DOMAIN channel
    <2>1. /\ o.id \in DOMAIN files /\ o.seg \in DOMAIN files[o.id].segs /\ files[o.id].segs[o.seg] \in DOMAIN channel
      BY <1>6 DEF Editable
    <2>2. FileRowFits(o.id) /\ ChannelFits
      BY <1>2, <2>1 DEF Live
    <2> HIDE DEF o
    <2>3. QED
      BY <1>1, <1>6, <2>1, <2>2, EditKeepsChannel
  <1>7. /\ \A i \in DOMAIN dirs : D(i) \in lost \/ dirs[i].msg \in DOMAIN channel
        /\ \A f \in DOMAIN files : F(f) \in lost \/ Range(files[f].segs) \subseteq DOMAIN channel
    BY <1>1, <1>2, PlainlyBacked
  <1>8. CASE /\ Editable(o.id, o.row, o.seg) /\ channel' = Edited(o.id, o.row, o.seg)
             /\ o.seg < Segs /\ op' = [op EXCEPT ![c] = more] /\ UNCHANGED lost
    <2>1. op'[c] = more
      BY <1>2, <1>8
    <2>2. /\ DOMAIN o = {"pc", "id", "row", "seg", "overtaken"} /\ o.pc = "fileCaption" /\ o.id \in DOMAIN files /\ o.seg \in 1..Segs
          /\ \A s \in DOMAIN files[o.id].segs : s < o.seg => files[o.id].segs[s] \in DOMAIN channel
      BY <1>2 DEF CaptioningFile
    <2>3. DOMAIN more = {"pc", "id", "row", "seg", "overtaken"} /\ more.pc = "fileCaption" /\ more.id = o.id /\ more.seg = o.seg + 1
      BY <2>2
    <2>4. FileRowFits(o.id)
      BY <1>2, <2>2 DEF Live
    <2> HIDE DEF more, o
    <2>5. \A s \in DOMAIN files[o.id].segs : s < o.seg + 1 => files[o.id].segs[s] \in DOMAIN channel
      <3> TAKE s \in DOMAIN files[o.id].segs
      <3> HAVE s < o.seg + 1
      <3>1. s \in Int /\ o.seg \in Int
        BY <2>2, <2>4 DEF FileRowFits
      <3>2. CASE s = o.seg
        BY <1>6, <1>8, <3>2
      <3>3. CASE s < o.seg
        BY <2>2, <3>3
      <3>4. QED
        BY <3>1, <3>2, <3>3
    <2>6. o.seg + 1 \in 1..Segs
      BY <1>8, <2>2, SegsAssumption
    <2>7. CaptioningFile(op[c])'
      BY <1>1, <1>6, <1>8, <2>1, <2>2, <2>3, <2>5, <2>6 DEF CaptioningFile
    <2>8. OpFits(op[c])' /\ op'[c].pc = "fileCaption"
      BY <2>1, <2>3, <2>7 DEF OpFits
    <2>9. Backed'
      BY <1>1, <1>6, <1>7, <1>8 DEF Backed, D, F
    <2>10. Recovered \in DOMAIN dirs => D(Recovered) \in lost'
      BY <1>2, <1>8, RecoveredStays
    <2>11. QED
      BY <1>1, <1>3, <1>6, <1>8, <2>8, <2>9, <2>10, CallerKeepsRows DEF o
  <1>9. CASE /\ Editable(o.id, o.row, o.seg) /\ channel' = Edited(o.id, o.row, o.seg)
             /\ ~(o.seg < Segs) /\ op' = [op EXCEPT ![c] = Idle]
             /\ lost \ {F(o.id), Overtaken(o.id)} \subseteq lost'
    <2>1. /\ o.id \in DOMAIN files /\ o.seg \in 1..Segs
          /\ \A s \in DOMAIN files[o.id].segs : s < o.seg => files[o.id].segs[s] \in DOMAIN channel
      BY <1>2 DEF CaptioningFile
    <2>2. FileRowFits(o.id)
      BY <1>2, <2>1 DEF Live
    <2> HIDE DEF o
    <2>3. Range(files[o.id].segs) \subseteq DOMAIN channel
      <3>1. ASSUME NEW s \in DOMAIN files[o.id].segs PROVE files[o.id].segs[s] \in DOMAIN channel
        <4>1. s \in 1..Segs
          BY <2>2 DEF FileRowFits
        <4>2. CASE s = o.seg
          BY <1>6, <1>9, <4>2
        <4>3. CASE s < o.seg
          BY <2>1, <4>3
        <4>4. QED
          BY <1>9, <2>1, <4>1, <4>2, <4>3, SegsAssumption
      <3>2. QED
        BY <3>1 DEF Range
    <2>4. Backed'
      <3>1. ASSUME NEW f \in DOMAIN files
            PROVE  F(f) \in lost' \/ Range(files[f].segs) \subseteq DOMAIN channel
        <4>1. CASE f = o.id
          BY <2>3, <4>1
        <4>2. CASE f # o.id
          <5>1. F(f) # F(o.id) /\ F(f) # Overtaken(o.id)
            BY <4>2 DEF F, Overtaken
          <5>2. QED
            BY <1>7, <1>9, <5>1
        <4>3. QED
          BY <4>1, <4>2
      <3>2. \A i \in DOMAIN dirs : D(i) # F(o.id) /\ D(i) # Overtaken(o.id)
        BY DEF D, F, Overtaken
      <3>3. \A i \in DOMAIN dirs : D(i) \in lost' \/ dirs[i].msg \in DOMAIN channel
        BY <1>7, <1>9, <3>2
      <3>4. QED
        BY <1>1, <1>6, <1>9, <3>1, <3>3 DEF Backed, D, F
    <2>5. Recovered \in DOMAIN dirs => D(Recovered) \in lost'
      <3>1. D(Recovered) # F(o.id) /\ D(Recovered) # Overtaken(o.id)
        BY DEF D, F, Overtaken
      <3>2. QED
        BY <1>2, <1>9, <3>1, RecoveredStays
    <2>6. QED
      BY <1>1, <1>3, <1>4, <1>6, <1>9, <2>4, <2>5, CallerKeepsRows DEF o
  <1>10. QED
    BY <1>1, <1>5, <1>8, <1>9

-----------------------------------------------------------------------------
(***************************************************************************)
(* Deletion.                                                               *)
(***************************************************************************)
\* What goes with a record is closed: nothing stays below what goes.
LEMMA DroppedCloses ==
  ASSUME NEW rec
  PROVE  /\ Dropped(rec).files \subseteq DOMAIN files
         /\ Dropped(rec).recs = {D(i) : i \in Dropped(rec).dirs} \cup {F(f) : f \in Dropped(rec).files}
         /\ \A j \in DOMAIN dirs : dirs[j].parent \in Dropped(rec).dirs => j \in Dropped(rec).dirs
         /\ \A f \in DOMAIN files : files[f].dir \in Dropped(rec).dirs => f \in Dropped(rec).files
  <1> DEFINE below == IF rec[1] = "dir" THEN Cascade(rec[2]) ELSE {}
             fs    == {f \in DOMAIN files : F(f) = rec \/ files[f].dir \in below}
  <1>1. /\ Dropped(rec).dirs = below /\ Dropped(rec).files = fs
        /\ Dropped(rec).recs = {D(i) : i \in below} \cup {F(f) : f \in fs}
    BY DEF Dropped
  <1>2. \A j \in DOMAIN dirs : dirs[j].parent \in below => j \in below
    BY CascadeCloses
  <1>3. QED
    BY <1>1, <1>2

\* What goes with a directory, and what with a file.
LEMMA DroppedGives ==
  ASSUME NEW x
  PROVE  /\ Dropped(D(x)).dirs = Cascade(x)
         /\ Dropped(F(x)).dirs = {}
         /\ x \in DOMAIN files => x \in Dropped(F(x)).files
  BY DEF Dropped, D, F

\* Only rows go.
LEMMA DroppedAreRows ==
  ASSUME NEW rec, RecFits(rec)
  PROVE  Dropped(rec).dirs \subseteq DOMAIN dirs
  <1>1. ASSUME NEW i \in DOMAIN dirs PROVE Dropped(D(i)).dirs \subseteq DOMAIN dirs
    BY <1>1, DroppedGives, CascadeCloses
  <1>2. ASSUME NEW f \in DOMAIN files PROVE Dropped(F(f)).dirs \subseteq DOMAIN dirs
    BY <1>2, DroppedGives
  <1>3. QED
    BY <1>1, <1>2 DEF RecFits

\* While the rows stay, so does what would go.
LEMMA DroppedStays ==
  ASSUME NEW rec, UNCHANGED <<dirs, files>>
  PROVE  Dropped(rec)' = Dropped(rec)
  BY DEF Dropped, Cascade, ClosedBelow, D, F

\* Fewer messages still fit.
LEMMA FewerMessages ==
  ASSUME ChannelFits, NEW S, channel' = Without(channel, S), UNCHANGED <<nextDir, nextFile>>
  PROVE  ChannelFits' /\ DOMAIN channel' = DOMAIN channel \ S
  <1>1. DOMAIN channel' = DOMAIN channel \ S /\ \A m \in DOMAIN channel' : channel'[m] = channel[m]
    BY DEF Without
  <1>2. QED
    BY <1>1 DEF ChannelFits, FileMsgs, FileMsg

\* A deletion takes messages of records that will go, and of no other.
LEMMA DeleteKeeps ==
  ASSUME Ready, NEW c \in Callers, NEW p \in Paths, Delete(c, p)
  PROVE  TreeIInv'
  <1>1. /\ MayBegin(c)
        /\ UNCHANGED <<dirs, files, channel, nextDir, nextFile, mkdirMu, refresh, rebuild, drill, faults, lost>>
        /\ \/ \E i \in DOMAIN dirs :
                op' = [op EXCEPT ![c] = [pc |-> "purge", rec |-> D(i), msgs |-> SubtreeMessages(i)]]
           \/ \E f \in DOMAIN files :
                op' = [op EXCEPT ![c] = [pc |-> "purge", rec |-> F(f), msgs |-> Range(files[f].segs)]]
    BY DEF Delete, Step, index, ids, DirByPath, FileInDir
  <1>2. /\ DOMAIN op = Callers /\ Phases /\ PathsMatch /\ nextDir \in Nat /\ TreeFits /\ NoCaseTwins
    BY <1>1, AtWork DEF Ready
  <1>3. op[c].pc = "idle"
    BY <1>1 DEF MayBegin, Idle
  <1>4. nextDir' \in nextDir..MaxDirs + 1 /\ faults' \in 0..MaxFaults /\ DOMAIN op' = Callers
    BY <1>1, <1>2, BoundsAssumption DEF Phases, PathsMatch, TreeTypeOK
  <1>5. ASSUME NEW rec, NEW taken, RecFits(rec), taken \subseteq MessagesUnder(rec),
               op' = [op EXCEPT ![c] = [pc |-> "purge", rec |-> rec, msgs |-> taken]]
        PROVE  TreeIInv'
    <2>1. op'[c] = [pc |-> "purge", rec |-> rec, msgs |-> taken]
      BY <1>2, <1>5
    <2>2. RecFits(rec)'
      BY <1>1, <1>5 DEF RecFits, D, F
    <2>3. MessagesUnder(rec)' = MessagesUnder(rec)
      <3>1. Dropped(rec)' = Dropped(rec)
        BY <1>1, DroppedStays
      <3>2. QED
        BY <1>1, <3>1 DEF MessagesUnder
    <2>4. Purging(op[c])'
      <3>1. /\ op'[c].pc = "purge" /\ op'[c].rec = rec /\ op'[c].msgs = taken
        BY <2>1
      <3>2. RecFits(op[c].rec)' /\ (op[c].msgs \subseteq MessagesUnder(op[c].rec))'
        BY <1>5, <2>2, <2>3, <3>1
      <3>3. QED
        BY <3>1, <3>2 DEF Purging
    <2>5. OpFits(op[c])' /\ op'[c].pc = "purge"
      BY <2>1, <2>4 DEF OpFits
    <2>6. QED
      BY <1>1, <1>3, <1>4, <2>5, CallerLooks
  <1>6. ASSUME NEW i \in DOMAIN dirs
        PROVE  RecFits(D(i)) /\ SubtreeMessages(i) \subseteq MessagesUnder(D(i))
    <2>1. SubtreeIds(i) \subseteq Dropped(D(i)).dirs
      BY <1>2, SubtreeIsTaken, DroppedGives
    <2>2. \A f \in DOMAIN files : files[f].dir \in SubtreeIds(i) => f \in Dropped(D(i)).files
      BY <2>1, DroppedCloses
    <2>3. QED
      BY <2>1, <2>2 DEF RecFits, MessagesUnder, SubtreeMessages
  <1>7. ASSUME NEW f \in DOMAIN files
        PROVE  RecFits(F(f)) /\ Range(files[f].segs) \subseteq MessagesUnder(F(f))
    BY <1>7, DroppedGives DEF RecFits, MessagesUnder
  <1>8. QED
    BY <1>1, <1>5, <1>6, <1>7

\* Messages that belong to a row which stays are not among those that go.
LEMMA MessagesOfTheRest ==
  ASSUME Live, Phases, NEW rec, RecFits(rec)
  PROVE  /\ \A i \in DOMAIN dirs \ Dropped(rec).dirs : i # Recovered => dirs[i].msg \notin MessagesUnder(rec)
         /\ \A f \in DOMAIN files \ Dropped(rec).files : Range(files[f].segs) \cap MessagesUnder(rec) = {}
  <1>1. /\ \A i \in DOMAIN dirs : DirFits(i)
        /\ \A f \in DOMAIN files : FileRowFits(f)
        /\ Dropped(rec).dirs \subseteq DOMAIN dirs /\ Dropped(rec).files \subseteq DOMAIN files
    BY DroppedAreRows, DroppedCloses DEF Live
  <1>2. nextDir \in Nat /\ nextFile \in Nat /\ nextDir - 1 <= MaxDirs /\ MaxDirs \in Nat
    BY BoundsAssumption DEF Phases
  <1>3. \A i \in DOMAIN dirs : dirs[i].msg \in 0..MaxDirs /\ (i # Recovered => i \in 1..MaxDirs /\ dirs[i].msg = i)
    BY <1>1, <1>2 DEF DirFits
  <1>4. ASSUME NEW i \in DOMAIN dirs, NEW j \in DOMAIN dirs, i # Recovered, dirs[i].msg = dirs[j].msg
        PROVE  i = j
    <2>1. CASE j = Recovered
      <3>1. dirs[j].msg = 0
        BY <1>1, <1>2, <2>1 DEF DirFits, Recovered
      <3>2. QED
        BY <1>2, <1>3, <1>4, <3>1
    <2>2. CASE j # Recovered
      BY <1>3, <1>4, <2>2
    <2>3. QED
      BY <2>1, <2>2
  <1>5. ASSUME NEW f \in DOMAIN files, NEW m \in Range(files[f].segs)
        PROVE  f \in Nat \ {0} /\ m \in FileMsgs(f)
    <2>1. FileRowFits(f)
      BY <1>1
    <2>2. QED
      BY <1>2, <1>5, <2>1 DEF FileRowFits, Range
  <1>6. ASSUME NEW f \in DOMAIN files, NEW m \in Range(files[f].segs)
        PROVE  m > MaxDirs /\ m \in Int
    BY <1>5, <1>6, MessagesApart
  <1>7. ASSUME NEW i \in DOMAIN dirs \ Dropped(rec).dirs, i # Recovered, dirs[i].msg \in MessagesUnder(rec)
        PROVE  FALSE
    <2>1. CASE \E j \in Dropped(rec).dirs : dirs[i].msg = dirs[j].msg
      BY <1>1, <1>4, <1>7, <2>1
    <2>2. CASE \E f \in Dropped(rec).files : dirs[i].msg \in Range(files[f].segs)
      BY <1>1, <1>2, <1>3, <1>6, <1>7, <2>2
    <2>3. QED
      BY <1>7, <2>1, <2>2 DEF MessagesUnder
  <1>8. ASSUME NEW f \in DOMAIN files \ Dropped(rec).files,
               NEW m \in Range(files[f].segs), m \in MessagesUnder(rec)
        PROVE  FALSE
    <2>1. CASE \E j \in Dropped(rec).dirs : m = dirs[j].msg
      BY <1>1, <1>2, <1>3, <1>6, <1>8, <2>1
    <2>2. CASE \E g \in Dropped(rec).files : m \in Range(files[g].segs)
      <3>1. PICK g \in Dropped(rec).files : m \in Range(files[g].segs)
        BY <2>2
      <3>2. /\ f \in Nat \ {0} /\ m \in FileMsgs(f)
            /\ g \in Nat \ {0} /\ m \in FileMsgs(g)
        BY <1>1, <1>5, <1>8, <3>1
      <3>3. f = g
        BY <3>2, MessagesApart
      <3>4. QED
        BY <1>8, <3>1, <3>3
    <2>3. QED
      BY <1>8, <2>1, <2>2 DEF MessagesUnder
  <1>9. QED
    BY <1>7, <1>8

\* While the rows outlive their messages they are the next to go.
LEMMA PurgeKeeps ==
  ASSUME Ready, NEW c \in Callers, Purge(c)
  PROVE  TreeIInv'
  <1> DEFINE o == op[c]
  <1>1. /\ o.pc = "purge"
        /\ UNCHANGED <<dirs, files, nextDir, nextFile, mkdirMu, refresh, rebuild, drill>>
        /\ \/ /\ channel' = Without(channel, o.msgs) /\ op' = [op EXCEPT ![c] = [pc |-> "drop", rec |-> o.rec]]
              /\ UNCHANGED <<faults, lost>>
           \/ /\ Fault /\ op' = [op EXCEPT ![c] = Idle]
              /\ \E gone : channel' = Without(channel, gone) /\ lost' = lost \cup RecordsOf(gone)
    BY DEF Purge, Step, index, ids
  <1>2. /\ DOMAIN op = Callers /\ Phases /\ PathsMatch /\ nextDir \in Nat /\ nextFile \in Nat
        /\ Purging(o) /\ Live /\ \A e \in Callers : e = c
    BY <1>1, AtWork, FitAt
  <1>3. nextDir' \in nextDir..MaxDirs + 1 /\ faults' \in 0..MaxFaults /\ DOMAIN op' = Callers
    BY <1>1, <1>2, BoundsAssumption DEF Phases, PathsMatch, TreeTypeOK, Fault
  <1>4. /\ \A i \in DOMAIN dirs : D(i) \in lost \/ dirs[i].msg \in DOMAIN channel
        /\ \A f \in DOMAIN files : F(f) \in lost \/ Range(files[f].segs) \subseteq DOMAIN channel
    BY <1>1, <1>2, PlainlyBacked
  <1>5. lost \subseteq lost'
    BY <1>1
  <1>6. Recovered \in DOMAIN dirs => D(Recovered) \in lost'
    BY <1>2, <1>5, RecoveredStays
  <1>7. ChannelFits
    BY <1>2 DEF Live
  <1>8. CASE /\ channel' = Without(channel, o.msgs) /\ op' = [op EXCEPT ![c] = [pc |-> "drop", rec |-> o.rec]]
             /\ UNCHANGED <<faults, lost>>
    <2>1. PICK rec : op'[c].pc = "drop" /\ op'[c].rec = rec /\ rec = o.rec
      BY <1>2, <1>8
    <2>2. RecFits(rec) /\ o.msgs \subseteq MessagesUnder(rec)
      BY <1>2, <2>1 DEF Purging
    <2> HIDE DEF o
    <2>3. ChannelFits' /\ DOMAIN channel' = DOMAIN channel \ o.msgs
      BY <1>1, <1>7, <1>8, FewerMessages
    <2>4. OpFits(op[c])'
      <3>1. RecFits(op[c].rec)'
        BY <1>1, <2>1, <2>2 DEF RecFits, D, F
      <3>2. QED
        BY <2>1, <3>1 DEF OpFits, Dropping
    <2>5. Dropped(op[c].rec)' = Dropped(rec)
      <3>1. Dropped(rec)' = Dropped(rec)
        BY <1>1, DroppedStays
      <3>2. QED
        BY <2>1, <3>1
    <2>6. Dropped(rec).recs = {D(i) : i \in Dropped(rec).dirs} \cup {F(f) : f \in Dropped(rec).files}
      BY DroppedCloses
    <2>7. /\ \A i \in DOMAIN dirs \ Dropped(rec).dirs : i # Recovered => dirs[i].msg \notin MessagesUnder(rec)
          /\ \A f \in DOMAIN files \ Dropped(rec).files : Range(files[f].segs) \cap MessagesUnder(rec) = {}
      BY <1>2, <2>2, MessagesOfTheRest
    <2>8. \A r \in Dropped(rec).recs : Going(r)'
      BY <2>1, <2>5 DEF Going
    <2>9. ASSUME NEW i \in DOMAIN dirs PROVE D(i) \in lost \/ Going(D(i))' \/ dirs[i].msg \in DOMAIN channel'
      <3>1. CASE i \in Dropped(rec).dirs
        BY <2>6, <2>8, <3>1
      <3>2. CASE i \notin Dropped(rec).dirs /\ i # Recovered
        <4>1. dirs[i].msg \notin o.msgs
          BY <2>2, <2>7, <3>2
        <4>2. QED
          BY <1>4, <2>3, <4>1
      <3>3. CASE i = Recovered
        BY <1>6, <1>8, <3>3
      <3>4. QED
        BY <3>1, <3>2, <3>3
    <2>10. ASSUME NEW f \in DOMAIN files
           PROVE  F(f) \in lost \/ Going(F(f))' \/ Range(files[f].segs) \subseteq DOMAIN channel'
      <3>1. CASE f \in Dropped(rec).files
        BY <2>6, <2>8, <3>1
      <3>2. CASE f \notin Dropped(rec).files
        <4>1. Range(files[f].segs) \cap o.msgs = {}
          BY <2>2, <2>7, <3>2
        <4>2. QED
          BY <1>4, <2>3, <4>1
      <3>3. QED
        BY <3>1, <3>2
    <2>11. Backed'
      <3>1. \A i \in DOMAIN dirs : (D(i) \in lost)' \/ Going(D(i))' \/ (dirs[i].msg \in DOMAIN channel)'
        BY <1>1, <1>8, <2>9 DEF D
      <3>2. \A f \in DOMAIN files : (F(f) \in lost)' \/ Going(F(f))' \/ (Range(files[f].segs) \subseteq DOMAIN channel)'
        BY <1>1, <1>8, <2>10 DEF F
      <3>3. QED
        BY <1>1, <3>1, <3>2 DEF Backed
    <2>12. QED
      BY <1>1, <1>3, <1>6, <2>1, <2>3, <2>4, <2>11, CallerKeepsRows DEF o
  <1>9. ASSUME op' = [op EXCEPT ![c] = Idle], NEW gone,
               channel' = Without(channel, gone), lost' = lost \cup RecordsOf(gone)
        PROVE  TreeIInv'
    <2>1. OpFits(op[c])' /\ op'[c].pc = "idle"
      <3>1. op'[c] = Idle
        BY <1>2, <1>9
      <3>2. QED
        BY <3>1, IdleFits
    <2> HIDE DEF o
    <2>2. ChannelFits' /\ DOMAIN channel' = DOMAIN channel \ gone
      BY <1>1, <1>7, <1>9, FewerMessages
    <2>3. ASSUME NEW i \in DOMAIN dirs PROVE D(i) \in lost' \/ dirs[i].msg \in DOMAIN channel'
      <3>1. dirs[i].msg \in gone => D(i) \in RecordsOf(gone)
        BY DEF RecordsOf
      <3>2. QED
        BY <1>4, <1>9, <2>2, <3>1
    <2>4. ASSUME NEW f \in DOMAIN files
          PROVE  F(f) \in lost' \/ Range(files[f].segs) \subseteq DOMAIN channel'
      <3>1. Range(files[f].segs) \cap gone # {} => F(f) \in RecordsOf(gone)
        BY DEF RecordsOf
      <3>2. QED
        BY <1>4, <1>9, <2>2, <3>1
    <2>5. Backed'
      BY <1>1, <2>3, <2>4 DEF Backed, D, F
    <2>6. QED
      BY <1>1, <1>3, <1>6, <2>1, <2>2, <2>5, CallerKeepsRows DEF o
  <1>10. QED
    BY <1>1, <1>8, <1>9

\* What is left after the cascade has its parents, folders and messages.
LEMMA DropRowsKeeps ==
  ASSUME Ready, NEW c \in Callers, DropRows(c)
  PROVE  TreeIInv'
  <1> DEFINE rec == op[c].rec
             off == Dropped(rec).dirs
             fs  == Dropped(rec).files
             recs == Dropped(rec).recs
             late == {Overtaken(f) : f \in fs}
  <1>1. /\ op[c].pc = "drop"
        /\ UNCHANGED <<channel, nextDir, nextFile, mkdirMu, refresh, rebuild, drill>>
        /\ op' = [op EXCEPT ![c] = Idle]
        /\ \/ /\ dirs' = Without(dirs, off) /\ files' = Without(files, fs)
              /\ lost' = lost \ (recs \cup late) /\ UNCHANGED faults
           \/ Fault /\ lost' = lost \cup recs /\ UNCHANGED <<dirs, files>>
    BY DEF DropRows, Step, index, ids
  <1>2. /\ DOMAIN op = Callers /\ Phases /\ PathsMatch /\ nextDir \in Nat /\ nextFile \in Nat
        /\ Dropping(op[c]) /\ Live /\ ~drill /\ rebuild = Idle /\ TreeFits /\ \A e \in Callers : e = c
    BY <1>1, AtWork, FitAt
  <1>3. nextDir' \in nextDir..MaxDirs + 1 /\ faults' \in 0..MaxFaults /\ DOMAIN op' = Callers
    BY <1>1, <1>2, BoundsAssumption DEF Phases, PathsMatch, TreeTypeOK, Fault
  <1>4. OpFits(op[c])' /\ op'[c].pc = "idle"
    <2>1. op'[c] = Idle
      BY <1>1, <1>2
    <2>2. QED
      BY <2>1, IdleFits
  <1>5. /\ recs = {D(i) : i \in off} \cup {F(f) : f \in fs}
        /\ \A j \in DOMAIN dirs : dirs[j].parent \in off => j \in off
        /\ \A f \in DOMAIN files : files[f].dir \in off => f \in fs
    BY DroppedCloses
  <1>6. /\ \A i \in DOMAIN dirs : D(i) \in lost \/ D(i) \in recs \/ dirs[i].msg \in DOMAIN channel
        /\ \A f \in DOMAIN files : F(f) \in lost \/ F(f) \in recs \/ Range(files[f].segs) \subseteq DOMAIN channel
    BY <1>2 DEF Live, Backed, Going
  <1>7. ChannelFits'
    <2>1. ChannelFits /\ nextDir' = nextDir /\ nextFile' = nextFile /\ UNCHANGED channel
      BY <1>1, <1>2 DEF Live
    <2>2. QED
      BY <1>2, <2>1, ChannelStays
  <1> HIDE DEF rec, off, fs, recs
  <1>a. /\ \A i : D(i) \notin late
        /\ \A f : F(f) \notin late
    BY DEF D, F, Overtaken
  <1> HIDE DEF late
  <1>8. CASE Fault /\ lost' = lost \cup recs /\ UNCHANGED <<dirs, files>>
    <2>1. Backed'
      BY <1>1, <1>6, <1>8 DEF Backed, D, F
    <2>2. Recovered \in DOMAIN dirs => D(Recovered) \in lost'
      BY <1>2, <1>8, RecoveredStays
    <2>3. QED
      BY <1>1, <1>3, <1>4, <1>7, <1>8, <2>1, <2>2, CallerKeepsRows
  <1>9. CASE /\ dirs' = Without(dirs, off) /\ files' = Without(files, fs)
             /\ lost' = lost \ (recs \cup late) /\ UNCHANGED faults
    <2>1. /\ DOMAIN dirs' = DOMAIN dirs \ off /\ DOMAIN files' = DOMAIN files \ fs
          /\ \A i \in DOMAIN dirs' : dirs'[i] = dirs[i]
          /\ \A f \in DOMAIN files' : files'[f] = files[f]
      BY <1>9 DEF Without
    <2>2. Root \notin DOMAIN dirs /\ \A i \in DOMAIN dirs : dirs[i].parent \in DOMAIN dirs \cup {Root}
      BY <1>2 DEF TreeFits
    <2>3. \A i \in DOMAIN dirs' : dirs[i].parent \in DOMAIN dirs' \cup {Root}
      BY <1>5, <2>1, <2>2
    <2>4. \A f \in DOMAIN files' : files'[f].dir \in DOMAIN dirs' \cup {Root}
      <3>1. \A f \in DOMAIN files : files[f].dir \in DOMAIN dirs \cup {Root}
        BY <1>2 DEF PathsMatch, TreeTypeOK
      <3>2. QED
        BY <1>5, <2>1, <3>1
    <2>5. PathsMatch'
      <3>1. Consistent(dirs)'
        <4>1. Consistent(dirs)
          BY <1>2 DEF PathsMatch, TreeTypeOK
        <4>2. \A i, j \in DOMAIN dirs' : i # j => /\ dirs'[i].path # dirs'[j].path
                                                  /\ <<dirs'[i].parent, dirs'[i].name>> # <<dirs'[j].parent, dirs'[j].name>>
          BY <2>1, <4>1 DEF Consistent
        <4>3. QED
          BY <2>1, <2>3, <4>2 DEF Consistent
      <3>2. \A f, g \in DOMAIN files' :
              f # g => <<files'[f].dir, files'[f].name>> # <<files'[g].dir, files'[g].name>>
        BY <1>2, <2>1 DEF PathsMatch, TreeTypeOK
      <3>3. TreeTypeOK'
        BY <1>1, <1>2, <1>3, <1>4, <2>4, <3>1, <3>2 DEF TreeTypeOK
      <3>4. ASSUME NEW i \in DOMAIN dirs'
            PROVE  dirs'[i].path = Join(IF dirs'[i].parent = Root THEN <<>> ELSE dirs'[dirs'[i].parent].path, dirs'[i].name)
        <4>1. dirs[i].path = Join(IF dirs[i].parent = Root THEN <<>> ELSE dirs[dirs[i].parent].path, dirs[i].name)
          BY <1>2, <2>1 DEF PathsMatch
        <4>2. QED
          BY <2>1, <2>3, <4>1
      <3>5. QED
        BY <3>3, <3>4 DEF PathsMatch
    <2>6. \A i \in DOMAIN dirs' : D(i) \notin recs
      <3>1. \A i, f : D(i) # F(f)
        BY DEF D, F
      <3>2. \A i, j : D(i) = D(j) => i = j
        BY DEF D
      <3>3. QED
        BY <1>5, <2>1, <3>1, <3>2
    <2>7. \A f \in DOMAIN files' : F(f) \notin recs
      <3>1. \A i, f : D(i) # F(f)
        BY DEF D, F
      <3>2. \A f, g : F(f) = F(g) => f = g
        BY DEF F
      <3>3. QED
        BY <1>5, <2>1, <3>1, <3>2
    <2>8. (\A i \in DOMAIN dirs : DirFits(i))'
      <3>1. ASSUME NEW i \in DOMAIN dirs' PROVE DirFits(i)'
        <4>1. DirFits(i) /\ D(i) \notin recs /\ dirs'[i] = dirs[i]
          BY <1>2, <2>1, <2>6 DEF Live
        <4>2. QED
          BY <1>1, <1>9, <1>a, <4>1 DEF DirFits, D
      <3>2. QED
        BY <3>1
    <2>9. (\A f \in DOMAIN files : FileRowFits(f))'
      <3>1. ASSUME NEW f \in DOMAIN files' PROVE FileRowFits(f)'
        <4>1. FileRowFits(f) /\ files'[f] = files[f]
          BY <1>2, <2>1 DEF Live
        <4>2. QED
          BY <1>1, <4>1 DEF FileRowFits, FileMsgs, FileMsg
      <3>2. QED
        BY <3>1
    <2>10. Backed'
      <3>1. \A i \in DOMAIN dirs' : D(i) \in lost' \/ dirs'[i].msg \in DOMAIN channel'
        BY <1>1, <1>6, <1>9, <1>a, <2>1, <2>6
      <3>2. \A f \in DOMAIN files' : F(f) \in lost' \/ Range(files'[f].segs) \subseteq DOMAIN channel'
        BY <1>1, <1>6, <1>9, <1>a, <2>1, <2>7
      <3>3. QED
        BY <3>1, <3>2 DEF Backed, D, F
    <2>11. nextDir' \in 1..MaxDirs + 1 /\ nextFile' \in 1..MaxFiles + 1
      BY <1>1, <1>2 DEF Phases
    <2>12. QED
      BY <1>1, <1>2, <1>3, <1>4, <1>7, <2>5, <2>8, <2>9, <2>10, <2>11, CallerLeaves
  <1>10. QED
    BY <1>1, <1>8, <1>9

-----------------------------------------------------------------------------
(***************************************************************************)
(* The refresh, the indexer and a crash.                                   *)
(***************************************************************************)
\* What a caller holds is about the rows and the numbers of the messages.
LEMMA HeldStays ==
  ASSUME UNCHANGED <<dirs, files, op, nextDir>>, DOMAIN channel' = DOMAIN channel,
         NEW c \in Callers, OpFits(op[c])
  PROVE  OpFits(op[c])'
  <1> DEFINE o == op[c]
  <1>1. /\ Walking(o) => Walking(o)'
        /\ Making(o) => Making(o)'
        /\ Placing(o) => Placing(o)'
    BY DEF Walking, Making, Placing, SrcFits, AtPath, PathOf
  <1>2. /\ UpdatingDir(o) => UpdatingDir(o)'
        /\ CaptioningDir(o) => CaptioningDir(o)'
        /\ UpdatingFile(o) => UpdatingFile(o)'
        /\ CaptioningFile(o) => CaptioningFile(o)'
    BY DEF UpdatingDir, CaptioningDir, UpdatingFile, CaptioningFile, PathOf
  <1>3. RecFits(o.rec) => RecFits(o.rec)'
    BY DEF RecFits, D, F
  <1>4. \A rec : Dropped(rec)' = Dropped(rec)
    BY DroppedStays
  <1>5. Purging(o) => Purging(o)'
    <2>1. PICK rec : rec = o.rec /\ rec = op'[c].rec
      OBVIOUS
    <2>2. MessagesUnder(rec)' = MessagesUnder(rec)
      BY <1>4 DEF MessagesUnder
    <2>3. MessagesUnder(op[c].rec)' = MessagesUnder(op[c].rec)
      BY <2>1, <2>2
    <2>4. QED
      BY <1>3, <2>3 DEF Purging
  <1>6. Dropping(o) => Dropping(o)'
    BY <1>3 DEF Dropping
  <1>7. QED
    BY <1>1, <1>2, <1>5, <1>6 DEF OpFits

\* So is what is known of them.
LEMMA BackedStays ==
  ASSUME UNCHANGED <<dirs, files, op>>, DOMAIN channel' = DOMAIN channel, lost' = lost, Backed
  PROVE  Backed'
  <1>1. ASSUME NEW r, Going(r) PROVE Going(r)'
    <2>1. PICK c \in Callers : op[c].pc = "drop" /\ r \in Dropped(op[c].rec).recs
      BY <1>1 DEF Going
    <2>2. PICK rec : rec = op[c].rec /\ rec = op'[c].rec
      OBVIOUS
    <2>3. Dropped(rec)' = Dropped(rec)
      BY DroppedStays
    <2>4. Dropped(op[c].rec)' = Dropped(rec)
      BY <2>2, <2>3
    <2>5. op'[c].pc = "drop" /\ (r \in Dropped(op[c].rec).recs)'
      BY <2>1, <2>2, <2>4
    <2>6. QED
      BY <2>5 DEF Going
  <1>2. \A i \in DOMAIN dirs : (D(i) \in lost)' \/ Going(D(i))' \/ (dirs[i].msg \in DOMAIN channel)'
    BY <1>1 DEF Backed, D
  <1>3. \A f \in DOMAIN files : (F(f) \in lost)' \/ Going(F(f))' \/ (Range(files[f].segs) \subseteq DOMAIN channel)'
    BY <1>1 DEF Backed, F
  <1>4. QED
    BY <1>2, <1>3 DEF Backed

\* A step beside the callers that leaves the rows and the numbers alone.
LEMMA BesideCallers ==
  ASSUME TreeIInv, UNCHANGED <<dirs, files, nextDir, nextFile, op, mkdirMu, drill, lost>>,
         DOMAIN channel' = DOMAIN channel, faults' \in 0..MaxFaults,
         ~drill => ChannelFits'
  PROVE  PathsMatch' /\ (~drill' => Live')
  <1>1. PathsMatch /\ Phases
    BY DEF TreeIInv
  <1>2. PathsMatch'
    <2>1. TreeTypeOK'
      BY <1>1 DEF PathsMatch, TreeTypeOK, Consistent
    <2>2. QED
      BY <1>1, <2>1 DEF PathsMatch
  <1>3. ASSUME ~drill PROVE Live'
    <2>1. Live
      BY <1>3 DEF TreeIInv
    <2>2. (\A i \in DOMAIN dirs : DirFits(i))'
      <3>1. ASSUME NEW i \in DOMAIN dirs PROVE DirFits(i)'
        <4>1. DirFits(i)
          BY <2>1 DEF Live
        <4>2. QED
          BY <4>1 DEF DirFits, D
      <3>2. QED
        BY <3>1
    <2>3. (\A f \in DOMAIN files : FileRowFits(f))'
      <3>1. ASSUME NEW f \in DOMAIN files PROVE FileRowFits(f)'
        <4>1. FileRowFits(f)
          BY <2>1 DEF Live
        <4>2. QED
          BY <4>1 DEF FileRowFits, FileMsgs, FileMsg
      <3>2. QED
        BY <3>1
    <2>4. (\A c \in Callers : OpFits(op[c]))'
      BY <2>1, HeldStays DEF Live
    <2>5. Backed'
      BY <2>1, BackedStays DEF Live
    <2>6. QED
      BY <1>3, <2>2, <2>3, <2>4, <2>5 DEF Live
  <1>4. QED
    BY <1>2, <1>3

\* A refresh edits captions and adds or removes none.
LEMMA RefreshKeeps ==
  ASSUME TreeIInv, NEW g \in refresh, RefreshStep(g)
  PROVE  TreeIInv'
  <1>1. PathsMatch /\ Phases /\ ~drill /\ rebuild = Idle /\ Live
    BY DEF TreeIInv, Phases, Quiet
  <1>2. /\ UNCHANGED <<dirs, files, nextDir, nextFile, op, mkdirMu, rebuild, drill, lost>>
        /\ Fault \/ UNCHANGED faults
        /\ \/ UNCHANGED channel
           \/ \E w : Editable(w.id, w.row, w.seg) /\ channel' = Edited(w.id, w.row, w.seg)
    BY DEF RefreshStep, RefreshScan, RefreshDone, RefreshList, RefreshEdit, index, ids
  <1>3. faults' \in 0..MaxFaults
    BY <1>1, <1>2, BoundsAssumption DEF PathsMatch, TreeTypeOK, Fault
  <1>4. ChannelFits' /\ DOMAIN channel' = DOMAIN channel
    <2>1. CASE UNCHANGED channel
      <3>1. ChannelFits /\ nextDir \in Nat /\ nextFile \in Nat
        BY <1>1, BoundsAssumption DEF Live, Phases
      <3>2. QED
        BY <1>2, <2>1, <3>1, ChannelStays
    <2>2. ASSUME NEW w, Editable(w.id, w.row, w.seg), channel' = Edited(w.id, w.row, w.seg)
          PROVE  ChannelFits' /\ DOMAIN channel' = DOMAIN channel
      <3>1. /\ w.id \in DOMAIN files /\ w.seg \in DOMAIN files[w.id].segs
            /\ files[w.id].segs[w.seg] \in DOMAIN channel
        BY <2>2 DEF Editable
      <3>2. FileRowFits(w.id) /\ ChannelFits
        BY <1>1, <3>1 DEF Live
      <3>3. QED
        BY <1>2, <2>2, <3>1, <3>2, EditKeepsChannel
    <2>3. QED
      BY <1>2, <2>1, <2>2
  <1>5. PathsMatch' /\ (~drill' => Live')
    BY <1>2, <1>3, <1>4, BesideCallers
  <1>6. Phases'
    BY <1>1, <1>2 DEF Phases
  <1>7. QED
    BY <1>5, <1>6 DEF TreeIInv

\* A rebuild starts between operations, and reads.
LEMMA RebuildStartKeeps ==
  ASSUME TreeIInv, ~Overlap, RebuildStart
  PROVE  TreeIInv'
  <1>1. /\ Quiet
        /\ UNCHANGED <<dirs, files, channel, nextDir, nextFile, op, mkdirMu, refresh, drill, faults, lost>>
    BY DEF RebuildStart, index, ids
  <1>2. faults' \in 0..MaxFaults
    BY <1>1 DEF TreeIInv, PathsMatch, TreeTypeOK
  <1>3. ~drill => ChannelFits'
    <2>1. ASSUME ~drill PROVE ChannelFits'
      <3>1. ChannelFits /\ nextDir \in Nat /\ nextFile \in Nat
        BY <2>1, BoundsAssumption DEF TreeIInv, Live, Phases
      <3>2. QED
        BY <1>1, <3>1, ChannelStays
    <2>2. QED
      BY <2>1
  <1>4. PathsMatch' /\ (~drill' => Live')
    BY <1>1, <1>2, <1>3, BesideCallers
  <1>5. Phases'
    BY <1>1 DEF TreeIInv, Phases, Quiet
  <1>6. QED
    BY <1>4, <1>5 DEF TreeIInv

\* Numbers of messages are positive, and a record of a directory has its own.
LEMMA NumbersFit ==
  ASSUME ChannelFits, Phases
  PROVE  /\ DOMAIN channel \subseteq Nat
         /\ \A i, m : m \in MessagesOf(channel, "dir", i) => m = i /\ i \in 1..nextDir - 1 /\ m \in DOMAIN channel
         /\ \A f, m : m \in MessagesOf(channel, "file", f) =>
              /\ f \in 1..nextFile - 1 /\ m \in FileMsgs(f) /\ m \in DOMAIN channel
              /\ channel[m].seg \in 1..Segs
         /\ IdsOf(channel, "dir") \subseteq 1..nextDir - 1
         /\ IdsOf(channel, "file") \subseteq 1..nextFile - 1
         /\ \A i \in IdsOf(channel, "dir") : i \in DOMAIN channel
  <1>1. nextDir \in Nat /\ nextFile \in Nat /\ MaxDirs \in Nat
    BY BoundsAssumption DEF Phases
  <1>2. ASSUME NEW m \in DOMAIN channel PROVE m \in Nat
    <2>1. ASSUME channel[m].id \in 1..nextFile - 1, m \in FileMsgs(channel[m].id) PROVE m \in Nat
      <3>1. channel[m].id \in Nat \ {0}
        BY <1>1, <2>1
      <3>2. m \in Int /\ m > MaxDirs
        BY <2>1, <3>1, MessagesApart
      <3>3. QED
        BY <1>1, <3>2
    <2>2. QED
      BY <1>1, <1>2, <2>1 DEF ChannelFits
  <1>3. QED
    BY <1>2 DEF ChannelFits, MessagesOf, IdsOf

\* The rows that a rebuild puts in place are rows the callers can work with.
LEMMA RebuiltFits ==
  ASSUME TreeIInv, RescueKeepsAll, ~drill, rebuild # Idle,
         dirs' = rebuild.result.dirs, files' = rebuild.result.files,
         lost' = Mismatch(dirs', files', channel),
         UNCHANGED <<channel, nextDir, nextFile, op>>
  PROVE  Live'
  <1> DEFINE d  == rebuild.result.dirs
             fs == rebuild.result.files
  <1>1. /\ DOMAIN FoundDirs(channel) = DOMAIN d \ {Recovered}
        /\ DOMAIN fs = IdsOf(channel, "file")
        /\ RowsFit(d, fs)
    BY DEF RescueKeepsAll
  <1>2. Live /\ Phases /\ ChannelFits /\ nextDir \in Nat /\ nextFile \in Nat
    BY BoundsAssumption DEF TreeIInv, Live, Phases
  <1>3. /\ DOMAIN channel \subseteq Nat
        /\ \A i, m : m \in MessagesOf(channel, "dir", i) => m = i /\ i \in 1..nextDir - 1 /\ m \in DOMAIN channel
        /\ \A f, m : m \in MessagesOf(channel, "file", f) =>
             /\ f \in 1..nextFile - 1 /\ m \in FileMsgs(f) /\ m \in DOMAIN channel
             /\ channel[m].seg \in 1..Segs
        /\ IdsOf(channel, "dir") \subseteq 1..nextDir - 1
        /\ IdsOf(channel, "file") \subseteq 1..nextFile - 1
    BY <1>2, NumbersFit
  <1>4. DOMAIN FoundDirs(channel) = IdsOf(channel, "dir")
    BY DEF FoundDirs
  <1>5. DOMAIN d \subseteq Int /\ DOMAIN d \ {Recovered} \subseteq 1..nextDir - 1
    BY <1>1, <1>2, <1>3, <1>4 DEF Recovered
  <1> HIDE DEF d, fs
  <1>6. dirs' = d /\ files' = fs
    BY DEF d, fs
  <1>7. Recovered \in DOMAIN d => D(Recovered) \in lost'
    <2>1. ASSUME Recovered \in DOMAIN d PROVE D(Recovered) \in Mismatch(d, fs, channel)
      <3>1. Recovered \notin DOMAIN FoundDirs(channel)
        BY <1>1
      <3>2. DirDiffers(d, channel, Recovered)
        BY <3>1 DEF DirDiffers
      <3>3. QED
        BY <2>1, <3>2 DEF Mismatch
    <2>2. QED
      BY <1>6, <2>1
  <1>8. ASSUME NEW i \in DOMAIN d
        PROVE  /\ d[i] \in [parent : Int, name : AllNames, path : Seq(AllNames), msg : Nat]
               /\ i = Recovered => d[i].msg = 0
               /\ i # Recovered => d[i].msg = i /\ i \in 1..nextDir - 1 /\ d[i].msg \in DOMAIN channel
    <2>1. /\ d[i] \in [parent : DOMAIN d \cup {Root}, name : AllNames, path : Seq(AllNames),
                       msg : DOMAIN channel \cup {0}]
          /\ IF i = Recovered THEN d[i].msg = 0 ELSE d[i].msg \in MessagesOf(channel, "dir", i)
      BY <1>1, <1>8 DEF RowsFit
    <2>2. DOMAIN d \cup {Root} \subseteq Int /\ DOMAIN channel \cup {0} \subseteq Nat
      BY <1>3, <1>5 DEF Root
    <2>3. d[i] \in [parent : Int, name : AllNames, path : Seq(AllNames), msg : Nat]
      BY <2>1, <2>2
    <2>4. QED
      BY <1>3, <2>1, <2>3
  <1>9. ASSUME NEW f \in DOMAIN fs
        PROVE  /\ f \in 1..nextFile - 1
               /\ DOMAIN fs[f] = {"dir", "name", "status", "count", "segs"}
               /\ \A s \in DOMAIN fs[f].segs : s \in 1..Segs /\ fs[f].segs[s] \in FileMsgs(f) /\ fs[f].segs[s] \in DOMAIN channel
    <2>1. /\ fs[f] \in [dir : DOMAIN d \cup {Root}, name : AllNames, status : {"complete", "broken"},
                        count : Nat, segs : [DOMAIN fs[f].segs -> DOMAIN channel]]
          /\ \A s \in DOMAIN fs[f].segs : /\ fs[f].segs[s] \in MessagesOf(channel, "file", f)
                                          /\ channel[fs[f].segs[s]].seg = s
      BY <1>1, <1>9 DEF RowsFit
    <2>2. DOMAIN fs[f] = {"dir", "name", "status", "count", "segs"}
      BY <2>1
    <2>3. \A s \in DOMAIN fs[f].segs : s \in 1..Segs /\ fs[f].segs[s] \in FileMsgs(f) /\ fs[f].segs[s] \in DOMAIN channel
      BY <1>3, <2>1
    <2>4. f \in 1..nextFile - 1
      BY <1>1, <1>3, <1>9
    <2>5. QED
      BY <2>2, <2>3, <2>4
  <1>10. (\A i \in DOMAIN dirs : DirFits(i))'
    <2>1. ASSUME NEW i \in DOMAIN dirs' PROVE DirFits(i)'
      BY <1>6, <1>7, <1>8, <2>1 DEF DirFits, D
    <2>2. QED
      BY <2>1
  <1>11. (\A f \in DOMAIN files : FileRowFits(f))'
    <2>1. ASSUME NEW f \in DOMAIN files' PROVE FileRowFits(f)'
      BY <1>6, <1>9, <2>1 DEF FileRowFits, FileMsgs, FileMsg
    <2>2. QED
      BY <2>1
  <1>12. ChannelFits'
    BY <1>2, ChannelStays
  <1>13. (\A c \in Callers : OpFits(op[c]))'
    <2>1. ASSUME NEW c \in Callers PROVE OpFits(op[c])'
      <3>1. op'[c] = Idle
        BY DEF TreeIInv, Phases, Quiet
      <3>2. QED
        BY <3>1, IdleFits
    <2>2. QED
      BY <2>1
  <1>14. Backed'
    <2>1. \A i \in DOMAIN dirs' : D(i) \in lost' \/ dirs'[i].msg \in DOMAIN channel'
      BY <1>6, <1>7, <1>8
    <2>2. \A f \in DOMAIN files' : Range(files'[f].segs) \subseteq DOMAIN channel'
      BY <1>6, <1>9 DEF Range
    <2>3. QED
      BY <2>1, <2>2 DEF Backed, D, F
  <1>15. QED
    BY <1>10, <1>11, <1>12, <1>13, <1>14 DEF Live

\* The index is replaced by rows that a rebuild made, or stays.
LEMMA ReplaceIndexKeeps ==
  ASSUME TreeIInv, RescueKeepsAll, ReplaceIndex
  PROVE  TreeIInv'
  <1>1. /\ rebuild # Idle /\ rebuild' = Idle
        /\ UNCHANGED <<channel, nextDir, nextFile, op, mkdirMu, refresh, drill>>
        /\ \/ /\ Consistent(rebuild.result.dirs)
              /\ dirs' = rebuild.result.dirs /\ files' = rebuild.result.files
              /\ lost' = Mismatch(dirs', files', channel) /\ UNCHANGED faults
           \/ /\ Fault \/ UNCHANGED faults
              /\ UNCHANGED <<dirs, files, lost>>
    BY DEF ReplaceIndex, index, ids
  <1>2. Quiet /\ PathsMatch /\ Phases
    BY <1>1 DEF TreeIInv, Phases
  <1>3. faults' \in 0..MaxFaults
    BY <1>1, <1>2, BoundsAssumption DEF PathsMatch, TreeTypeOK, Fault
  <1>4. Phases'
    BY <1>1, <1>2 DEF Phases, Quiet
  <1>5. CASE UNCHANGED <<dirs, files, lost>>
    <2>1. ~drill => ChannelFits'
      <3>1. ASSUME ~drill PROVE ChannelFits'
        <4>1. ChannelFits /\ nextDir \in Nat /\ nextFile \in Nat
          BY <3>1, BoundsAssumption DEF TreeIInv, Live, Phases
        <4>2. QED
          BY <1>1, <4>1, ChannelStays
      <3>2. QED
        BY <3>1
    <2>2. PathsMatch' /\ (~drill' => Live')
      BY <1>1, <1>3, <1>5, <2>1, BesideCallers
    <2>3. QED
      BY <1>4, <2>2 DEF TreeIInv
  <1>6. CASE /\ Consistent(rebuild.result.dirs)
             /\ dirs' = rebuild.result.dirs /\ files' = rebuild.result.files
             /\ lost' = Mismatch(dirs', files', channel)
    <2> DEFINE d  == rebuild.result.dirs
               fs == rebuild.result.files
    <2>1. /\ Consistent(d) /\ RowsFit(d, fs)
          /\ \A i \in DOMAIN d :
               d[i].path = Join(IF d[i].parent = Root THEN <<>> ELSE d[d[i].parent].path, d[i].name)
          /\ \A f, g \in DOMAIN fs : f # g => <<fs[f].dir, fs[f].name>> # <<fs[g].dir, fs[g].name>>
      BY <1>1 DEF RescueKeepsAll
    <2> HIDE DEF d, fs
    <2>2. dirs' = d /\ files' = fs
      BY <1>6 DEF d, fs
    <2>3. PathsMatch'
      <3>1. Consistent(dirs)'
        BY <2>1, <2>2 DEF Consistent
      <3>2. \A f \in DOMAIN fs : fs[f].dir \in DOMAIN d \cup {Root}
        <4> TAKE f \in DOMAIN fs
        <4>1. fs[f] \in [dir : DOMAIN d \cup {Root}, name : AllNames, status : {"complete", "broken"},
                         count : Nat, segs : [DOMAIN fs[f].segs -> DOMAIN channel]]
          BY <2>1 DEF RowsFit
        <4>2. QED
          BY <4>1
      <3>3. \A c \in Callers : op'[c].pc = "idle"
        BY <1>1, <1>2 DEF Quiet, Idle
      <3>4. TreeTypeOK'
        BY <1>3, <2>1, <2>2, <3>1, <3>2, <3>3 DEF TreeTypeOK
      <3>5. QED
        BY <2>1, <2>2, <3>4 DEF PathsMatch
    <2>4. ~drill' => Live'
      <3>1. ASSUME ~drill PROVE Live'
        BY <1>1, <1>6, <3>1, RebuiltFits
      <3>2. QED
        BY <1>1, <3>1
    <2>5. QED
      BY <1>4, <2>3, <2>4 DEF TreeIInv
  <1>7. QED
    BY <1>1, <1>5, <1>6

\* A crash marks every row as lost whose message is not in the channel.
LEMMA HaltKeeps ==
  ASSUME TreeIInv, Halt
  PROVE  TreeIInv'
  <1>1. /\ ~drill /\ Fault /\ op' = [c \in Callers |-> Idle] /\ refresh' = {} /\ rebuild' = Idle
        /\ lost' = lost \cup Mismatch(dirs, files, channel)
        /\ UNCHANGED <<dirs, files, channel, nextDir, nextFile, drill>>
    BY DEF Halt, index, ids
  <1>2. PathsMatch /\ Phases /\ Live /\ nextDir \in Nat /\ nextFile \in Nat
    BY <1>1, BoundsAssumption DEF TreeIInv, Phases
  <1>3. faults' \in 0..MaxFaults
    BY <1>1, <1>2, BoundsAssumption DEF PathsMatch, TreeTypeOK, Fault
  <1>4. nextDir' \in nextDir..MaxDirs + 1
    BY <1>1, <1>2, BoundsAssumption DEF Phases
  <1>5. Recovered \in DOMAIN dirs => D(Recovered) \in lost'
    BY <1>1, <1>2, RecoveredStays
  <1>6. /\ (\A i \in DOMAIN dirs : DirFits(i))'
        /\ (\A f \in DOMAIN files : FileRowFits(f))'
        /\ nextDir' \in 1..MaxDirs + 1 /\ nextFile' \in 1..MaxFiles + 1
    BY <1>1, <1>2, <1>4, <1>5, RowsStay
  <1>7. PathsMatch'
    <2>1. TreeTypeOK'
      BY <1>1, <1>2, <1>3 DEF PathsMatch, TreeTypeOK, Consistent, Idle
    <2>2. QED
      BY <1>1, <1>2, <2>1 DEF PathsMatch
  <1>8. Phases'
    BY <1>1, <1>6 DEF Phases, Quiet
  <1>9. ChannelFits'
    <2>1. ChannelFits /\ nextDir' \in Nat /\ nextDir <= nextDir'
      BY <1>1, <1>2 DEF Live
    <2>2. QED
      BY <1>1, <1>2, <2>1, ChannelStays
  <1>10. (\A c \in Callers : OpFits(op[c]))'
    <2>1. ASSUME NEW c \in Callers PROVE OpFits(op[c])'
      <3>1. op'[c] = Idle
        BY <1>1
      <3>2. QED
        BY <3>1, IdleFits
    <2>2. QED
      BY <2>1
  <1>11. Backed'
    <2>1. ASSUME NEW i \in DOMAIN dirs PROVE D(i) \in lost' \/ dirs[i].msg \in DOMAIN channel
      <3>1. CASE i = Recovered
        BY <1>5, <3>1
      <3>2. CASE i # Recovered /\ i \in IdsOf(channel, "dir")
        <4>1. ChannelFits /\ DirFits(i)
          BY <1>2 DEF Live
        <4>2. i \in DOMAIN channel
          BY <1>2, <3>2, <4>1, NumbersFit
        <4>3. QED
          BY <3>2, <4>1, <4>2 DEF DirFits
      <3>3. CASE i \notin IdsOf(channel, "dir")
        <4>1. i \notin DOMAIN FoundDirs(channel)
          BY <3>3 DEF FoundDirs
        <4>2. DirDiffers(dirs, channel, i)
          BY <4>1 DEF DirDiffers
        <4>3. QED
          BY <1>1, <4>2 DEF Mismatch
      <3>4. QED
        BY <3>1, <3>2, <3>3
    <2>2. ASSUME NEW f \in DOMAIN files PROVE F(f) \in lost' \/ Range(files[f].segs) \subseteq DOMAIN channel
      <3>1. CASE FileDiffers(files, channel, f)
        BY <1>1, <3>1 DEF Mismatch
      <3>2. CASE ~FileDiffers(files, channel, f)
        BY <3>2 DEF FileDiffers, Range
      <3>3. QED
        BY <3>1, <3>2
    <2>3. QED
      BY <1>1, <2>1, <2>2 DEF Backed, D, F
  <1>12. Live'
    BY <1>6, <1>9, <1>10, <1>11 DEF Live
  <1>13. QED
    BY <1>7, <1>8, <1>12 DEF TreeIInv

-----------------------------------------------------------------------------
(***************************************************************************)
(* The theorems.                                                           *)
(***************************************************************************)
LEMMA TreeBegins ==
  ASSUME TreeInit
  PROVE  TreeIInv
  <1>1. DOMAIN dirs = {} /\ DOMAIN files = {} /\ \A c \in Callers : op[c] = Idle
    BY DEF TreeInit
  <1>2. PathsMatch
    BY <1>1, BoundsAssumption DEF TreeInit, PathsMatch, TreeTypeOK, Consistent, Idle
  <1>3. Phases
    BY <1>1, BoundsAssumption DEF TreeInit, Phases, Quiet
  <1>4. ASSUME ~drill PROVE Live
    <2>1. DOMAIN channel = {}
      BY <1>4 DEF TreeInit
    <2>2. QED
      BY <1>1, <2>1 DEF Live, ChannelFits, Backed, OpFits
  <1>5. QED
    BY <1>2, <1>3, <1>4 DEF TreeIInv

\* Each step of a caller.
LEMMA CallerKeeps ==
  ASSUME Ready, NEW c \in Callers, CallerStep(c)
  PROVE  TreeIInv'
  <1>1. ASSUME NEW p \in Paths, Mkdir(c, p, <<>>) PROVE TreeIInv'
    BY <1>1, MkdirKeeps
  <1>2. ASSUME NEW p \in Paths, NEW q \in Paths, Mkdir(c, q, p) PROVE TreeIInv'
    BY <1>2, MkdirKeeps
  <1>3. ASSUME NEW p \in Paths, Delete(c, p) PROVE TreeIInv'
    BY <1>3, DeleteKeeps
  <1>4. ASSUME NEW p \in Paths, NEW n \in Names, Rename(c, p, n) PROVE TreeIInv'
    BY <1>4, RenameKeeps
  <1>5. ASSUME NEW d \in DOMAIN dirs \cup {Root}, NEW n \in Names, StoreFile(c, d, n) PROVE TreeIInv'
    BY <1>5, StoreFileKeeps
  <1>6. MkdirWalk(c) \/ CreateDirSend(c) \/ CreateDirInsert(c) \/ CreateDirRollback(c) => TreeIInv'
    BY MkdirWalkKeeps, CreateDirSendKeeps, CreateDirInsertKeeps, CreateDirRollbackKeeps
  <1>7. MoveLookup(c) \/ UpdateDir(c) \/ DirCaption(c) \/ UpdateFile(c) \/ FileCaption(c) => TreeIInv'
    BY MoveLookupKeeps, UpdateDirKeeps, DirCaptionKeeps, UpdateFileKeeps, FileCaptionKeeps
  <1>8. Purge(c) \/ DropRows(c) => TreeIInv'
    BY PurgeKeeps, DropRowsKeeps
  <1>9. QED
    BY <1>1, <1>2, <1>3, <1>4, <1>5, <1>6, <1>7, <1>8 DEF CallerStep

\* Each step.
LEMMA TreeStepKeeps ==
  ASSUME TreeIInv, OneCaller, ~Overlap, NoCaseTwins, RescueKeepsAll, [TreeNext]_treeVars
  PROVE  TreeIInv'
  <1>1. ASSUME NEW c \in Callers, CallerStep(c) PROVE TreeIInv'
    BY <1>1, CallerKeeps DEF Ready
  <1>2. ASSUME NEW g \in refresh, RefreshStep(g) PROVE TreeIInv'
    BY <1>2, RefreshKeeps
  <1>3. RebuildStart => TreeIInv'
    BY RebuildStartKeeps
  <1>4. ReplaceIndex => TreeIInv'
    BY ReplaceIndexKeeps
  <1>5. Halt => TreeIInv'
    BY HaltKeeps
  <1>6. CASE UNCHANGED treeVars
    <2>1. UNCHANGED <<dirs, files, channel, nextDir, nextFile, op, mkdirMu, refresh, rebuild, drill, faults, lost>>
      BY <1>6 DEF treeVars
    <2>2. faults' \in 0..MaxFaults
      BY <2>1 DEF TreeIInv, PathsMatch, TreeTypeOK
    <2>3. ~drill => ChannelFits'
      <3>1. ASSUME ~drill PROVE ChannelFits'
        <4>1. ChannelFits /\ nextDir \in Nat /\ nextFile \in Nat
          BY <3>1, BoundsAssumption DEF TreeIInv, Live, Phases
        <4>2. QED
          BY <2>1, <4>1, ChannelStays
      <3>2. QED
        BY <3>1
    <2>4. PathsMatch' /\ (~drill' => Live')
      BY <2>1, <2>2, <2>3, BesideCallers
    <2>5. Phases'
      BY <2>1 DEF TreeIInv, Phases, Quiet
    <2>6. QED
      BY <2>4, <2>5 DEF TreeIInv
  <1>7. QED
    BY <1>1, <1>2, <1>3, <1>4, <1>5, <1>6 DEF TreeNext

\* Between operations nothing is on its way out.
LEMMA QuietIsBacked ==
  ASSUME TreeIInv
  PROVE  IndexBacked
  <1>1. ASSUME Quiet, ~drill
        PROVE  /\ \A i \in DOMAIN dirs : D(i) \in lost \/ dirs[i].msg \in DOMAIN channel
               /\ \A f \in DOMAIN files : F(f) \in lost \/ Range(files[f].segs) \subseteq DOMAIN channel
    <2>1. \A c \in Callers : op[c].pc # "drop"
      BY <1>1 DEF Quiet, Idle
    <2>2. Backed
      BY <1>1 DEF TreeIInv, Live
    <2>3. QED
      BY <2>1, <2>2 DEF Backed, Going
  <1>2. QED
    BY <1>1 DEF IndexBacked

\* One request at a time, with the captions refreshed in the background, calls
\* that fail, crashes and rebuilds in between: the inductive invariant.  The
\* hypotheses are that no two directories share a path to LIKE, which the next
\* theorems need of RenameDir and SubtreeMessages, and that each rebuild comes
\* out as RescueKeepsAll says.
THEOREM TreeInvariantHolds ==
  ASSUME OneCaller, ~Overlap
  PROVE  TreeSpec /\ []RescueKeepsAll /\ []NoCaseTwins => []TreeIInv
  <1>1. TreeInit => TreeIInv
    BY TreeBegins
  <1>2. TreeIInv /\ RescueKeepsAll /\ NoCaseTwins /\ [TreeNext]_treeVars => TreeIInv'
    BY TreeStepKeeps
  <1>3. QED
    BY <1>1, <1>2, PTL DEF TreeSpec

\* The path of a row is that of its parent and its name after any sequence of
\* operations, failures, crashes and rebuilds: RenameDir and MoveDir move what
\* is below and nothing else.
THEOREM PathsAlwaysMatch ==
  ASSUME OneCaller, ~Overlap
  PROVE  TreeSpec /\ []RescueKeepsAll /\ []NoCaseTwins => []PathsMatch
  <1>1. TreeIInv => PathsMatch
    BY DEF TreeIInv
  <1>2. QED
    BY <1>1, TreeInvariantHolds, PTL

\* Between operations the messages of a row are in the channel unless a call
\* for that very record failed: Mkdir writes them before the row, Delete takes
\* no message of a row that it leaves.
THEOREM RowsAreBacked ==
  ASSUME OneCaller, ~Overlap
  PROVE  TreeSpec /\ []RescueKeepsAll /\ []NoCaseTwins => []IndexBacked
  <1>1. TreeIInv => IndexBacked
    BY QuietIsBacked
  <1>2. QED
    BY <1>1, TreeInvariantHolds, PTL
=============================================================================
