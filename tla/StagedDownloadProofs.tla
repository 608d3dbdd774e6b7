-------------------------- MODULE StagedDownloadProofs --------------------------
(***************************************************************************)
(* Proofs about StagedDownload for every set of calls and files, and any   *)
(* number of jobs, changes of the limit, restarts and resumptions.         *)
(***************************************************************************)
EXTENDS StagedDownload, SumLemmas

\* The steps of a worker that may write its copy, and of those the ones at which
\* it has written one.
Transferring == {"mkdir", "dest", "create", "copy", "publish", "date", "ready"}
Published == {"date", "ready"}

\* The steps of a start between which it holds stageMu.
Making == {"room", "candidates", "evict", "evictRow", "insert"}

\* The steps of a call that are about the job it has taken up.
Dealing == {"drop", "evictRow", "k_remove", "k_status", "k_path", "d_remove", "d_row",
            "x_remove", "x_path", "x_status", "w_path", "w_status", "w_trim", "p_row"}

Statuses == {"gone"} \cup Live \cup Terminal

RowsTyped ==
  /\ created \in 0..MaxJobs
  /\ fileOf \in [Jobs -> Files]
  /\ status \in [Jobs -> Statuses]
  /\ path \subseteq 1..created
  /\ expired \subseteq path
  /\ \A j \in Jobs : j > created => status[j] = "gone"

WorkersTyped ==
  /\ reg \subseteq runs /\ dead \subseteq reg
  /\ runs = {j \in Jobs : work[j] # "none"}
  /\ work \in [Jobs -> WorkerSteps]

LocalsTyped ==
  /\ job \in [Calls -> 0..created]
  /\ file \in [Calls -> Files]
  /\ list \in [Calls -> SUBSET (1..created)]
  /\ used \in [Calls -> Nat]
  /\ cap \in [Calls -> Limits \cup {0}]
  /\ late \subseteq 1..created /\ trim \subseteq 1..created /\ resuming \subseteq Jobs

CallsTyped ==
  /\ mutex \in Calls \cup {"free"}
  /\ pc \in [Calls -> CallSteps]
  /\ LocalsTyped

ServerTyped ==
  /\ limit \in Limits
  /\ resizes \in 0..MaxResizes
  /\ crashes \in 0..MaxCrashes
  /\ resumes \in 0..MaxResumes

\* A copy that is announced is whole, and its worker is through with it.
WholeFits(j) ==
  /\ status[j] = "ready" => disk[j] \in {"none", "final"}
  /\ work[j] \in Published => disk[j] \in {"none", "final"}
  /\ work[j] \in Transferring => status[j] # "ready"

\* A start that makes room is alone in that, for a file nobody transfers.
Starts == \A p \in Calls : pc[p] \in Making => mutex = p /\ Active(file[p]) = {}

Deals == \A p \in Calls : pc[p] \in Dealing => job[p] # 0

StagedIInv ==
  /\ RowsTyped /\ WorkersTyped /\ CallsTyped /\ ServerTyped
  /\ disk \in [Jobs -> DiskStates]
  /\ (\A j \in Jobs : WholeFits(j))
  /\ OneTransferPerFile /\ Starts /\ Deals

\* The invariant says what a request may be told.
LEMMA StagedFollows == StagedIInv => StagedSound
<1>1. SUFFICES ASSUME StagedIInv PROVE StagedSound
  OBVIOUS
<1>2. created \in Nat /\ MaxJobs \in Nat /\ created <= MaxJobs
  BY <1>1, BoundsAssumption DEF StagedIInv, RowsTyped
<1>3. 1..created \subseteq Jobs
  BY <1>2 DEF Jobs
<1>4. TypeOK
  <2>1. list \in [Calls -> SUBSET Jobs]
    BY <1>1, <1>3 DEF StagedIInv, CallsTyped, LocalsTyped
  <2>2. late \subseteq Jobs /\ trim \subseteq Jobs
    BY <1>1, <1>3 DEF StagedIInv, CallsTyped, LocalsTyped
  <2>3. QED
    BY <1>1, <2>1, <2>2
       DEF TypeOK, StagedIInv, RowsTyped, WorkersTyped, CallsTyped, LocalsTyped, ServerTyped, Statuses
<1>5. ReadyIsWhole
  BY <1>1 DEF ReadyIsWhole, StagedIInv, WholeFits
<1>6. QED
  BY <1>1, <1>4, <1>5 DEF StagedSound, StagedIInv

-----------------------------------------------------------------------------
(* The operators the actions are made of.                                  *)

LEMMA JobsFinite == ASSUME NEW S \in SUBSET Jobs PROVE IsFiniteSet(S)
<1>1. MaxJobs \in Nat
  BY BoundsAssumption
<1>2. IsFiniteSet(Jobs)
  BY <1>1, FS_Interval DEF Jobs
<1>3. QED
  BY <1>2, FS_Subset

LEMMA Numbers ==
  ASSUME StagedIInv
  PROVE  /\ created \in Nat /\ MaxJobs \in Nat /\ created <= MaxJobs
         /\ 1..created \subseteq Jobs /\ 0..created \subseteq Nat
         /\ \A j \in Jobs : status[j] # "gone" => j \in 1..created
<1>1. created \in Nat /\ MaxJobs \in Nat /\ created <= MaxJobs
  BY BoundsAssumption DEF StagedIInv, RowsTyped
<1>2. QED
  BY <1>1 DEF Jobs, StagedIInv, RowsTyped

\* The rows that are there, of whatever kind, have been inserted.
LEMMA QueriesFit ==
  ASSUME StagedIInv
  PROVE  /\ Evictable \subseteq 1..created
         /\ Resumable \subseteq 1..created
         /\ \A f : Copies(f) \subseteq 1..created
<1>1. path \subseteq 1..created
  BY DEF StagedIInv, RowsTyped
<1>2. Resumable \subseteq 1..created
  BY Numbers DEF Resumable, Live
<1>3. QED
  BY <1>1, <1>2 DEF Evictable, Copies

\* The row a start finds for its file is one that has been inserted.
LEMMA NewestCopy ==
  ASSUME StagedIInv, NEW f, Copies(f) # {}
  PROVE  Max(Copies(f)) \in 1..created
<1>1. Copies(f) \subseteq 1..created /\ Copies(f) \in SUBSET Jobs
  BY QueriesFit, Numbers
<1>2. \A x \in Copies(f) : x \in Nat
  BY <1>1, Numbers
<1>3. IsFiniteSet(Copies(f))
  BY <1>1, JobsFinite
<1>4. Max(Copies(f)) \in Copies(f)
  BY <1>2, <1>3, GreatestElement
<1>5. QED
  BY <1>1, <1>4

LEMMA SizesNat == ASSUME StagedIInv PROVE \A j \in Jobs : JobSize(j) \in Nat
  BY SizeAssumption DEF StagedIInv, RowsTyped, JobSize

\* CacheUsage is a number of bytes.
LEMMA UsageNat == ASSUME StagedIInv PROVE CacheUsage \in Nat
<1>1. Counted \in SUBSET Jobs
  BY DEF Counted
<1>2. IsFiniteSet(Counted)
  BY <1>1, JobsFinite
<1> DEFINE f == [j \in Counted |-> JobSize(j)]
<1>3. f \in [Counted -> Nat]
  BY <1>1, SizesNat
<1> HIDE DEF f
<1>4. SumFunction(f) \in Nat
  BY <1>2, <1>3, SumTakes
<1>5. QED
  BY <1>4 DEF f, CacheUsage

LEMMA LessNat ==
  ASSUME StagedIInv, NEW n \in Nat, NEW j \in Jobs
  PROVE  Less(n, j) \in Nat
  BY SizesNat DEF Less

-----------------------------------------------------------------------------
(* What a step may change.                                                 *)

\* Rows end or go, none becomes live or ready.
RowsSettle ==
  /\ UNCHANGED <<created, fileOf>>
  /\ status' \in [Jobs -> Statuses]
  /\ \A j \in Jobs : status'[j] = status[j] \/ status'[j] \notin Live \cup {"ready"}
  /\ \A j \in Jobs : status[j] = "gone" => status'[j] = "gone"
  /\ path' \subseteq path /\ expired' \subseteq expired /\ expired' \subseteq path'

\* Workers are at most interrupted, and the world outside does nothing.
WorkersKeep == UNCHANGED <<runs, reg, work, envVars>> /\ dead' \subseteq reg

\* Bytes are at most removed.
DiskShrinks ==
  /\ disk' \in [Jobs -> DiskStates]
  /\ \A j \in Jobs : disk'[j] \in {disk[j], "none"}

LEMMA SettleSame ==
  ASSUME StagedIInv, UNCHANGED rowVars
  PROVE  RowsSettle
  BY DEF RowsSettle, StagedIInv, RowsTyped, rowVars

LEMMA SettleClear ==
  ASSUME StagedIInv, NEW j, ClearPath(j), UNCHANGED <<created, fileOf, status>>
  PROVE  RowsSettle
  BY DEF RowsSettle, ClearPath, StagedIInv, RowsTyped

\* A row gets another status, which is an end.
LEMMA SettleStatus ==
  ASSUME StagedIInv, NEW j \in Jobs, NEW x \in Statuses,
         x = status[j] \/ (x \notin Live \cup {"ready"} /\ status[j] # "gone"),
         status' = [status EXCEPT ![j] = x], UNCHANGED <<created, fileOf, path, expired>>
  PROVE  RowsSettle
<1>1. status \in [Jobs -> Statuses] /\ expired \subseteq path
  BY DEF StagedIInv, RowsTyped
<1>2. status' \in [Jobs -> Statuses]
  BY <1>1
<1>3. ASSUME NEW i \in Jobs
      PROVE  /\ status'[i] = status[i] \/ status'[i] \notin Live \cup {"ready"}
             /\ status[i] = "gone" => status'[i] = "gone"
  BY <1>1
<1>4. QED
  BY <1>1, <1>2, <1>3 DEF RowsSettle

LEMMA SettleDelete ==
  ASSUME StagedIInv, NEW j, DeleteRow(j), UNCHANGED <<created, fileOf>>
  PROVE  RowsSettle
<1>1. status \in [Jobs -> Statuses] /\ expired \subseteq path
  BY DEF StagedIInv, RowsTyped
<1>2. "gone" \in Statuses /\ "gone" \notin Live \cup {"ready"}
  BY DEF Statuses, Live
<1>3. status' = [status EXCEPT ![j] = "gone"] /\ path' = path \ {j} /\ expired' = expired \ {j}
  BY DEF DeleteRow, ClearPath
<1>4. status' \in [Jobs -> Statuses]
  BY <1>1, <1>2, <1>3
<1>5. \A i \in Jobs : status'[i] = status[i] \/ status'[i] = "gone"
  BY <1>1, <1>3
<1>6. QED
  BY <1>1, <1>2, <1>3, <1>4, <1>5 DEF RowsSettle

LEMMA KeepsSame ==
  ASSUME StagedIInv, UNCHANGED <<workerVars, envVars>>
  PROVE  WorkersKeep
  BY DEF WorkersKeep, StagedIInv, WorkersTyped, workerVars

LEMMA KeepsInterrupt ==
  ASSUME StagedIInv, NEW j, Interrupt(j), UNCHANGED envVars
  PROVE  WorkersKeep
  BY DEF WorkersKeep, StagedIInv, WorkersTyped, Interrupt

LEMMA ShrinkSame ==
  ASSUME StagedIInv, UNCHANGED disk
  PROVE  DiskShrinks
  BY DEF DiskShrinks, StagedIInv

LEMMA ShrinkRemove ==
  ASSUME StagedIInv, NEW j, disk' = [disk EXCEPT ![j] = "none"]
  PROVE  DiskShrinks
<1>1. disk \in [Jobs -> DiskStates] /\ "none" \in DiskStates
  BY DEF StagedIInv, DiskStates
<1>2. QED
  BY <1>1 DEF DiskShrinks

-----------------------------------------------------------------------------
(* Steps of a call.                                                        *)

\* stageMu stays with whom it is, or p takes it or gives it back.
MutexMoves(p) ==
  \/ mutex' = mutex
  \/ mutex = "free" /\ mutex' = p
  \/ mutex = p /\ mutex' = "free"

\* A start that goes on making room has done so before, or has just found that
\* nobody transfers its file.
MakesRoom(p) ==
  /\ mutex' = p /\ file'[p] = file[p]
  /\ pc[p] \in Making \/ Active(file[p]) = {}

LEMMA RowsStay ==
  ASSUME StagedIInv, RowsSettle
  PROVE  /\ RowsTyped' /\ OneTransferPerFile'
         /\ \A f : Active(f)' \subseteq Active(f)
<1>1. created' = created /\ fileOf' = fileOf
  BY DEF RowsSettle
<1>2. \A j \in Jobs : status'[j] \in Live => status[j] \in Live
  BY DEF RowsSettle
<1>3. RowsTyped'
  BY <1>1 DEF RowsSettle, StagedIInv, RowsTyped
<1>4. OneTransferPerFile'
  <2>1. OneTransferPerFile
    BY DEF StagedIInv
  <2>2. QED
    BY <1>1, <1>2, <2>1 DEF OneTransferPerFile
<1>5. \A f : Active(f)' \subseteq Active(f)
  BY <1>1, <1>2 DEF Active
<1>6. QED
  BY <1>3, <1>4, <1>5

\* A step of one call keeps the invariant when it settles rows, interrupts workers
\* and removes bytes at most.
LEMMA CallMoves ==
  ASSUME StagedIInv, RowsSettle, WorkersKeep, DiskShrinks,
         NEW p \in Calls, NEW step \in CallSteps, Goto(p, step),
         LocalsTyped', MutexMoves(p), \A q \in Calls \ {p} : file'[q] = file[q] /\ job'[q] = job[q],
         step \in Making => MakesRoom(p), step \in Dealing => job'[p] # 0
  PROVE  StagedIInv'
<1>1. RowsTyped' /\ OneTransferPerFile' /\ \A f : Active(f)' \subseteq Active(f)
  BY RowsStay
<1>2. WorkersTyped'
  BY DEF StagedIInv, WorkersTyped, WorkersKeep
<1>3. ServerTyped'
  BY DEF StagedIInv, ServerTyped, WorkersKeep, envVars
<1>4. pc \in [Calls -> CallSteps] /\ mutex \in Calls \cup {"free"} /\ Starts
  BY DEF StagedIInv, CallsTyped
<1>5. pc' \in [Calls -> CallSteps] /\ pc'[p] = step /\ \A q \in Calls \ {p} : pc'[q] = pc[q]
  BY <1>4 DEF Goto
<1>6. CallsTyped'
  <2>1. mutex' \in Calls \cup {"free"}
    BY <1>4 DEF MutexMoves
  <2>2. QED
    BY <1>5, <2>1 DEF CallsTyped
<1>7. disk' \in [Jobs -> DiskStates]
  BY DEF DiskShrinks
<1>8. ASSUME NEW j \in Jobs PROVE WholeFits(j)'
  <2>1. WholeFits(j) /\ work'[j] = work[j]
    BY DEF StagedIInv, WorkersKeep
  <2>2. disk'[j] \in {disk[j], "none"}
    BY DEF DiskShrinks
  <2>3. status'[j] = status[j] \/ status'[j] # "ready"
    BY DEF RowsSettle
  <2>4. QED
    BY <2>1, <2>2, <2>3 DEF WholeFits
<1>9. ASSUME NEW q \in Calls, pc'[q] \in Making
      PROVE  mutex' = q /\ Active(file[q]) = {} /\ file'[q] = file[q]
  <2>1. CASE q = p
    <3>1. MakesRoom(p)
      BY <1>5, <1>9, <2>1
    <3>2. QED
      BY <1>4, <2>1, <3>1 DEF MakesRoom, Starts
  <2>2. CASE q # p
    <3>1. pc[q] \in Making /\ file'[q] = file[q]
      BY <1>5, <1>9, <2>2
    <3>2. mutex = q /\ Active(file[q]) = {}
      BY <1>4, <3>1 DEF Starts
    <3>3. mutex # "free" /\ mutex # p
      BY <2>2, <3>2, FreeAssumption
    <3>4. QED
      BY <3>1, <3>2, <3>3 DEF MutexMoves
  <2>3. QED
    BY <2>1, <2>2
<1>10. ASSUME NEW q \in Calls, pc'[q] \in Making
       PROVE  mutex' = q /\ Active(file[q])' = {}
  <2>1. mutex' = q /\ Active(file[q]) = {} /\ file'[q] = file[q]
    BY <1>9, <1>10
  <2>2. ASSUME NEW f, f = file[q] PROVE Active(f)' = {}
    BY <1>1, <2>1, <2>2
  <2>3. ASSUME NEW f, f = file'[q] PROVE {j \in Jobs : status'[j] \in Live /\ fileOf'[j] = f} = {}
    BY <2>1, <2>2, <2>3 DEF Active
  <2>4. QED
    BY <2>1, <2>3 DEF Active
<1>11. Starts'
  BY <1>10 DEF Starts
<1>12. Deals'
  BY <1>5 DEF Deals, StagedIInv
<1>13. QED
  BY <1>1, <1>2, <1>3, <1>6, <1>7, <1>8, <1>11, <1>12 DEF StagedIInv

LEMMA LocalsReturn ==
  ASSUME StagedIInv, UNCHANGED created, NEW p \in Calls, Return(p)
  PROVE  LocalsTyped'
<1>1. LocalsTyped /\ created \in Nat
  BY Numbers DEF StagedIInv, CallsTyped
<1>2. 0 \in 0..created /\ {} \in SUBSET (1..created) /\ 0 \in Nat
  BY <1>1
<1>3. QED
  BY <1>1, <1>2 DEF LocalsTyped, Return, sweepVars

\* A call returns.
LEMMA Returns ==
  ASSUME StagedIInv, RowsSettle, WorkersKeep, DiskShrinks, NEW p \in Calls, Return(p)
  PROVE  StagedIInv'
<1>1. LocalsTyped'
  BY LocalsReturn DEF RowsSettle
<1>2. MutexMoves(p) /\ file' = file /\ Goto(p, "idle")
  BY DEF Return, MutexMoves
<1>3. \A q \in Calls \ {p} : job'[q] = job[q]
  BY DEF Return, StagedIInv, CallsTyped, LocalsTyped
<1>4. "idle" \in CallSteps /\ "idle" \notin Making /\ "idle" \notin Dealing
  BY DEF CallSteps, Making, Dealing
<1>5. QED
  BY <1>1, <1>2, <1>3, <1>4, CallMoves

\* A call goes on with the locals it has.
LEMMA Continues ==
  ASSUME StagedIInv, RowsSettle, WorkersKeep, DiskShrinks, NEW p \in Calls,
         NEW step \in CallSteps, Continue(p, step), step \in Making => pc[p] \in Making,
         step \in Dealing => pc[p] \in Dealing
  PROVE  StagedIInv'
<1>1. LocalsTyped'
  BY DEF StagedIInv, CallsTyped, LocalsTyped, Continue, localVars, sweepVars, RowsSettle
<1>2. mutex' = mutex /\ file' = file /\ job' = job /\ Goto(p, step)
  BY DEF Continue, localVars
<1>3. step \in Dealing => job'[p] # 0
  BY <1>2 DEF StagedIInv, Deals
<1>4. step \in Making => MakesRoom(p)
  BY <1>2 DEF MakesRoom, StagedIInv, Starts
<1>5. MutexMoves(p)
  BY <1>2 DEF MutexMoves
<1>6. QED
  BY <1>1, <1>2, <1>3, <1>4, <1>5, CallMoves

\* A call takes up a job.
LEMMA TakesUp ==
  ASSUME StagedIInv, RowsSettle, WorkersKeep, DiskShrinks, NEW p \in Calls,
         NEW j \in 0..created, NEW step \in CallSteps, TakeUp(p, j, step), step \notin Making,
         step \in Dealing => j # 0
  PROVE  StagedIInv'
<1>1. LocalsTyped'
  BY DEF StagedIInv, CallsTyped, LocalsTyped, TakeUp, sweepVars, RowsSettle
<1>2. mutex' = mutex /\ file' = file /\ Goto(p, step)
  BY DEF TakeUp
<1>3. MutexMoves(p)
  BY <1>2 DEF MutexMoves
<1>4. job'[p] = j /\ \A q \in Calls \ {p} : job'[q] = job[q]
  BY DEF TakeUp, StagedIInv, CallsTyped, LocalsTyped
<1>5. QED
  BY <1>1, <1>2, <1>3, <1>4, CallMoves

-----------------------------------------------------------------------------
(* Every action of a call.                                                 *)

LEMMA JobOf ==
  ASSUME StagedIInv, NEW p \in Calls
  PROVE  job[p] \in 0..created /\ file[p] \in Files /\ list[p] \subseteq 1..created
         /\ used[p] \in Nat /\ cap[p] \in Limits \cup {0}
  BY DEF StagedIInv, CallsTyped, LocalsTyped

\* The job a call deals with has been inserted.
LEMMA JobTaken ==
  ASSUME StagedIInv, NEW p \in Calls, pc[p] \in Dealing
  PROVE  job[p] \in 1..created /\ job[p] \in Jobs
  BY JobOf, Numbers DEF StagedIInv, Deals

LEMMA GoesOnce ==
  ASSUME pc \in [Calls -> CallSteps], NEW p \in Calls, NEW m, NEW n, Goto(p, m), Goto(p, n)
  PROVE  m = n
  BY DEF Goto

LEMMA StepsExist ==
  /\ {"idle", "drop", "lock", "room", "candidates", "evict", "evictRow", "insert"} \subseteq CallSteps
  /\ {"k_remove", "k_status", "k_path", "d_remove", "d_row"} \subseteq CallSteps
  /\ {"x_remove", "x_path", "x_status", "w_usage", "w_next", "w_path"} \subseteq CallSteps
  /\ {"w_status", "w_trim", "orphans", "p_next", "p_row", "p_list", "p_rest"} \subseteq CallSteps
  BY DEF CallSteps

LEMMA RemoveStagedFileKeeps ==
  ASSUME StagedIInv, NEW p \in Calls, NEW from, NEW to \in CallSteps, to \notin Making,
         from \in Dealing, RemoveStagedFile(p, from, to)
  PROVE  StagedIInv'
<1>1. RowsSettle /\ WorkersKeep
  BY SettleSame, KeepsSame DEF RemoveStagedFile
<1>2. DiskShrinks
  BY ShrinkRemove DEF RemoveStagedFile
<1>3. Continue(p, to) /\ pc[p] \in Dealing
  BY DEF RemoveStagedFile
<1>4. QED
  BY <1>1, <1>2, <1>3, Continues

LEMMA StartStagedKeeps ==
  ASSUME StagedIInv, NEW s \in Calls, NEW f \in Files, StartStaged(s, f)
  PROVE  StagedIInv'
<1>1. RowsSettle /\ WorkersKeep /\ DiskShrinks
  BY SettleSame, KeepsSame, ShrinkSame DEF StartStaged
<1>2. PICK step \in {"lock", "drop"} : Goto(s, step)
  BY DEF StartStaged
<1>3. step \in CallSteps /\ step \notin Making
  BY <1>2, StepsExist DEF Making
<1>4. (step = "lock" /\ job' = job) \/ \E j \in 1..created : job' = [job EXCEPT ![s] = j]
  <2>1. CASE Copies(f) = {} /\ Goto(s, "lock") /\ UNCHANGED job
    BY <1>2, <2>1, GoesOnce DEF StagedIInv, CallsTyped
  <2>2. CASE Copies(f) # {} /\ job' = [job EXCEPT ![s] = Max(Copies(f))]
    BY <2>2, NewestCopy
  <2>3. QED
    BY <2>1, <2>2 DEF StartStaged
<1>5. /\ job' \in [Calls -> 0..created']
      /\ (step \in Dealing => job'[s] # 0)
      /\ \A q \in Calls \ {s} : job'[q] = job[q]
  <2>1. job \in [Calls -> 0..created] /\ created' = created /\ 1..created \subseteq 0..created
    BY Numbers DEF StagedIInv, CallsTyped, LocalsTyped, StartStaged, rowVars
  <2>2. QED
    BY <1>4, <2>1 DEF Dealing
<1>6. LocalsTyped'
  BY <1>5 DEF StagedIInv, CallsTyped, LocalsTyped, StartStaged, sweepVars, rowVars
<1>7. MutexMoves(s) /\ \A q \in Calls \ {s} : file'[q] = file[q]
  BY DEF StartStaged, MutexMoves, StagedIInv, CallsTyped, LocalsTyped
<1>8. QED
  BY <1>1, <1>2, <1>3, <1>5, <1>6, <1>7, CallMoves

LEMMA DropRowKeeps ==
  ASSUME StagedIInv, NEW s \in Calls, DropRow(s)
  PROVE  StagedIInv'
<1>1. RowsSettle /\ WorkersKeep /\ DiskShrinks
  BY SettleDelete, KeepsSame, ShrinkSame DEF DropRow
<1>2. TakeUp(s, 0, "lock") /\ "lock" \notin Making /\ "lock" \notin Dealing /\ 0 \in 0..created
  BY Numbers DEF DropRow, Making, Dealing
<1>3. QED
  BY <1>1, <1>2, TakesUp, StepsExist

LEMMA LockStageKeeps ==
  ASSUME StagedIInv, NEW s \in Calls, LockStage(s)
  PROVE  StagedIInv'
<1>1. RowsSettle /\ WorkersKeep /\ DiskShrinks
  BY SettleSame, KeepsSame, ShrinkSame DEF LockStage
<1>2. CASE Joins(file[s])
  <2>1. Return(s)
    BY <1>2 DEF LockStage
  <2>2. QED
    BY <1>1, <2>1, Returns
<1>3. CASE ~Joins(file[s])
  <2>1. mutex = "free" /\ mutex' = s /\ Goto(s, "room") /\ UNCHANGED <<localVars, sweepVars>>
    BY <1>3 DEF LockStage
  <2>2. MutexMoves(s) /\ file' = file /\ job' = job /\ "room" \notin Dealing
    BY <2>1 DEF MutexMoves, localVars, Dealing
  <2>3. MakesRoom(s)
    BY <1>3, <2>1, <2>2 DEF MakesRoom, Joins
  <2>4. LocalsTyped'
    BY <1>1, <2>1 DEF StagedIInv, CallsTyped, LocalsTyped, localVars, sweepVars, RowsSettle
  <2>5. QED
    BY <1>1, <2>1, <2>2, <2>3, <2>4, CallMoves, StepsExist
<1>4. QED
  BY <1>2, <1>3

\* A start that makes room holds stageMu.
LEMMA MakerGoesOn ==
  ASSUME StagedIInv, NEW s \in Calls, pc[s] \in Making, UNCHANGED <<mutex, file>>
  PROVE  MakesRoom(s) /\ MutexMoves(s)
  BY DEF StagedIInv, Starts, MakesRoom, MutexMoves

LEMMA RoomKeeps ==
  ASSUME StagedIInv, NEW s \in Calls, Room(s)
  PROVE  StagedIInv'
<1>1. RowsSettle /\ WorkersKeep /\ DiskShrinks
  BY SettleSame, KeepsSame, ShrinkSame DEF Room
<1>2. PICK step \in {"insert", "candidates"} : Goto(s, step)
  BY DEF Room
<1>3. MakesRoom(s) /\ MutexMoves(s)
  BY MakerGoesOn DEF Room, Making
<1>4. limit \in Limits /\ CacheUsage \in Nat
  BY UsageNat DEF StagedIInv, ServerTyped
<1>5. LocalsTyped'
  BY <1>1, <1>4 DEF StagedIInv, CallsTyped, LocalsTyped, Room, sweepVars, RowsSettle
<1>6. step \in CallSteps /\ file' = file /\ job' = job /\ step \notin Dealing
  BY <1>2, StepsExist DEF Room, Dealing
<1>7. QED
  BY <1>1, <1>2, <1>3, <1>5, <1>6, CallMoves

LEMMA CandidatesKeeps ==
  ASSUME StagedIInv, NEW s \in Calls, Candidates(s)
  PROVE  StagedIInv'
<1>1. RowsSettle /\ WorkersKeep /\ DiskShrinks
  BY SettleSame, KeepsSame, ShrinkSame DEF Candidates
<1>2. /\ Goto(s, "evict") /\ file' = file /\ job' = job /\ "evict" \notin Dealing
      /\ Evictable \subseteq 1..created
  BY QueriesFit DEF Candidates, Dealing
<1>3. MakesRoom(s) /\ MutexMoves(s)
  BY MakerGoesOn DEF Candidates, Making
<1>4. LocalsTyped'
  BY <1>1, <1>2 DEF StagedIInv, CallsTyped, LocalsTyped, Candidates, sweepVars, RowsSettle
<1>5. QED
  BY <1>1, <1>2, <1>3, <1>4, CallMoves, StepsExist

LEMMA EvictKeeps ==
  ASSUME StagedIInv, NEW s \in Calls, Evict(s)
  PROVE  StagedIInv'
<1>1. RowsSettle /\ WorkersKeep
  BY SettleSame, KeepsSame DEF Evict
<1>2. CASE Continue(s, "insert") /\ UNCHANGED disk
  <2>1. DiskShrinks
    BY <1>2, ShrinkSame
  <2>2. pc[s] \in Making /\ "insert" \notin Dealing
    BY DEF Evict, Making, Dealing
  <2>3. QED
    BY <1>1, <1>2, <2>1, <2>2, Continues, StepsExist
<1>3. CASE Return(s) /\ UNCHANGED disk
  <2>1. DiskShrinks
    BY <1>3, ShrinkSame
  <2>2. QED
    BY <1>1, <1>3, <2>1, Returns
<1>4. ASSUME NEW j \in list[s],
             disk' = [disk EXCEPT ![j] = "none"], job' = [job EXCEPT ![s] = j],
             list' = [list EXCEPT ![s] = @ \ {j}], Goto(s, "evictRow"),
             UNCHANGED <<mutex, file, used, cap, sweepVars>>
      PROVE  StagedIInv'
  <2>1. DiskShrinks
    BY <1>4, ShrinkRemove
  <2>2. MakesRoom(s) /\ MutexMoves(s) /\ file' = file
    BY <1>4, MakerGoesOn DEF Evict, Making
  <2>3. j \in 0..created /\ j # 0
    BY JobOf, Numbers
  <2>4. job'[s] = j /\ \A q \in Calls \ {s} : job'[q] = job[q]
    BY <1>4 DEF StagedIInv, CallsTyped, LocalsTyped
  <2>5. LocalsTyped'
    BY <1>1, <1>4, <2>3 DEF StagedIInv, CallsTyped, LocalsTyped, sweepVars, RowsSettle
  <2>6. QED
    BY <1>1, <1>4, <2>1, <2>2, <2>3, <2>4, <2>5, CallMoves, StepsExist
<1>5. QED
  BY <1>2, <1>3, <1>4 DEF Evict

LEMMA EvictRowKeeps ==
  ASSUME StagedIInv, NEW s \in Calls, EvictRow(s)
  PROVE  StagedIInv'
<1>1. WorkersKeep /\ DiskShrinks
  BY KeepsSame, ShrinkSame DEF EvictRow
<1>2. RowsSettle
  BY SettleDelete, SettleSame DEF EvictRow, rowVars
<1>3. /\ Goto(s, "evict") /\ file' = file /\ "evict" \notin Dealing
      /\ \A q \in Calls \ {s} : job'[q] = job[q]
  BY DEF EvictRow, Dealing, StagedIInv, CallsTyped, LocalsTyped
<1>4. MakesRoom(s) /\ MutexMoves(s)
  BY MakerGoesOn DEF EvictRow, Making
<1>5. used' \in [Calls -> Nat]
  <2>1. used \in [Calls -> Nat] /\ job[s] \in Jobs
    BY JobTaken DEF EvictRow, Dealing, StagedIInv, CallsTyped, LocalsTyped
  <2>2. Less(used[s], job[s]) \in Nat /\ used[s] \in Nat
    BY <2>1, LessNat
  <2>3. used' = used \/ used' = [used EXCEPT ![s] = Less(@, job[s])]
    BY <2>1 DEF EvictRow
  <2>4. QED
    BY <2>1, <2>2, <2>3
<1>6. created' = created /\ 0 \in 0..created
  BY <1>2, Numbers DEF RowsSettle
<1>7. job' \in [Calls -> 0..created]
  BY <1>6 DEF StagedIInv, CallsTyped, LocalsTyped, EvictRow
<1>8. LocalsTyped'
  BY <1>5, <1>6, <1>7 DEF StagedIInv, CallsTyped, LocalsTyped, EvictRow, sweepVars
<1>9. QED
  BY <1>1, <1>2, <1>3, <1>4, <1>8, CallMoves, StepsExist

LEMMA InsertKeeps ==
  ASSUME StagedIInv, NEW s \in Calls, Insert(s)
  PROVE  StagedIInv'
<1>1. pc[s] = "insert" /\ Return(s) /\ UNCHANGED <<path, expired, disk, reg, dead, envVars>>
  BY DEF Insert
<1>2. CASE UNCHANGED <<created, fileOf, status, runs, work>>
  <2>1. RowsSettle /\ WorkersKeep /\ DiskShrinks
    BY <1>1, <1>2, SettleSame, KeepsSame, ShrinkSame DEF rowVars, workerVars
  <2>2. QED
    BY <1>1, <2>1, Returns
<1>3. CASE /\ created < MaxJobs /\ created' = created + 1
           /\ fileOf' = [fileOf EXCEPT ![created + 1] = file[s]]
           /\ status' = [status EXCEPT ![created + 1] = "pending"]
           /\ Schedule(created + 1)
  <2> DEFINE j == created + 1
  <2>1. /\ created \in Nat /\ MaxJobs \in Nat /\ j \in Jobs /\ j \in 1..created'
        /\ created' \in 0..MaxJobs /\ 1..created \subseteq 1..created' /\ 0..created \subseteq 0..created'
    BY <1>3, Numbers DEF Jobs
  <2>2. file[s] \in Files /\ mutex = s /\ Active(file[s]) = {}
    BY <1>1, JobOf DEF StagedIInv, Starts, Making
  <2>3. status[j] = "gone"
    BY <2>1 DEF StagedIInv, RowsTyped
  <2>4. fileOf \in [Jobs -> Files] /\ status \in [Jobs -> Statuses] /\ work \in [Jobs -> WorkerSteps]
    BY DEF StagedIInv, RowsTyped, WorkersTyped
  <2>5. /\ fileOf'[j] = file[s] /\ status'[j] = "pending"
        /\ \A i \in Jobs \ {j} : fileOf'[i] = fileOf[i] /\ status'[i] = status[i]
    BY <1>3, <2>1, <2>4
  <2>6. RowsTyped'
    <3>1. fileOf' \in [Jobs -> Files] /\ status' \in [Jobs -> Statuses]
      BY <1>3, <2>2, <2>4 DEF Statuses, Live
    <3>2. path' \subseteq 1..created' /\ expired' \subseteq path'
      BY <1>1, <2>1 DEF StagedIInv, RowsTyped
    <3>3. ASSUME NEW i \in Jobs, i > created' PROVE status'[i] = "gone"
      <4>1. i # j /\ i > created
        BY <1>3, <2>1, <3>3 DEF Jobs
      <4>2. QED
        BY <2>5, <4>1 DEF StagedIInv, RowsTyped
    <3>4. QED
      BY <2>1, <3>1, <3>2, <3>3 DEF RowsTyped
  <2>7. WorkersTyped' /\ \A i \in Jobs : work'[i] = work[i] \/ work'[i] = "register"
    <3>1. CASE j \in runs
      BY <1>1, <1>3, <3>1 DEF Schedule, StagedIInv, WorkersTyped
    <3>2. CASE j \notin runs
      <4>1. runs' = runs \cup {j} /\ work' = [work EXCEPT ![j] = "register"]
        BY <1>3, <3>2 DEF Schedule
      <4>2. "register" \in WorkerSteps /\ "register" # "none"
        BY DEF WorkerSteps
      <4>3. work' \in [Jobs -> WorkerSteps] /\ \A i \in Jobs : work'[i] = IF i = j THEN "register" ELSE work[i]
        BY <2>4, <4>1, <4>2
      <4>4. runs' = {i \in Jobs : work'[i] # "none"}
        BY <2>1, <4>1, <4>2, <4>3 DEF StagedIInv, WorkersTyped
      <4>5. QED
        BY <1>1, <4>1, <4>3, <4>4 DEF StagedIInv, WorkersTyped
    <3>3. QED
      BY <3>1, <3>2
  <2>8. CallsTyped'
    <3>1. LocalsTyped'
      <4>1. 0 \in 0..created' /\ {} \in SUBSET (1..created')
        BY <2>1
      <4>2. job' \in [Calls -> 0..created'] /\ list' \in [Calls -> SUBSET (1..created')]
        BY <1>1, <2>1, <4>1 DEF Return, StagedIInv, CallsTyped, LocalsTyped
      <4>3. late' \subseteq 1..created' /\ trim' \subseteq 1..created'
        BY <1>1, <2>1 DEF Return, sweepVars, StagedIInv, CallsTyped, LocalsTyped
      <4>4. QED
        BY <1>1, <4>2, <4>3 DEF Return, sweepVars, StagedIInv, CallsTyped, LocalsTyped
    <3>2. pc' \in [Calls -> CallSteps] /\ mutex' \in Calls \cup {"free"}
      BY <1>1, StepsExist DEF Return, Goto, StagedIInv, CallsTyped
    <3>3. QED
      BY <3>1, <3>2 DEF CallsTyped
  <2>9. ASSUME NEW i \in Jobs PROVE WholeFits(i)'
    <3>1. WholeFits(i) /\ disk'[i] = disk[i] /\ (work'[i] = work[i] \/ work'[i] = "register")
      BY <1>1, <2>7 DEF StagedIInv
    <3>2. status'[i] = status[i] \/ status'[i] = "pending"
      BY <2>5
    <3>3. QED
      BY <3>1, <3>2 DEF WholeFits, Published, Transferring
  <2>10. OneTransferPerFile'
    <3>1. \A i \in Jobs \ {j} : status'[i] \in Live => fileOf'[i] # file[s]
      BY <2>2, <2>5 DEF Active
    <3>2. ASSUME NEW i \in Jobs, NEW k \in Jobs, status'[i] \in Live, status'[k] \in Live,
                 fileOf'[i] = fileOf'[k]
          PROVE  i = k
      <4>1. CASE i = j \/ k = j
        BY <2>5, <3>1, <3>2, <4>1
      <4>2. CASE i # j /\ k # j
        BY <2>5, <3>2, <4>2 DEF StagedIInv, OneTransferPerFile
      <4>3. QED
        BY <4>1, <4>2
    <3>3. QED
      BY <3>2 DEF OneTransferPerFile
  <2>11. Starts' /\ Deals'
    <3>1. pc'[s] = "idle" /\ \A q \in Calls \ {s} : pc'[q] = pc[q] /\ job'[q] = job[q]
      BY <1>1 DEF Return, Goto, StagedIInv, CallsTyped, LocalsTyped
    <3>2. \A q \in Calls \ {s} : pc[q] \notin Making
      BY <2>2, FreeAssumption DEF StagedIInv, Starts
    <3>3. \A q \in Calls : pc'[q] \notin Making
      BY <3>1, <3>2 DEF Making
    <3>4. Deals'
      BY <3>1 DEF Deals, StagedIInv, Dealing
    <3>5. QED
      BY <3>3, <3>4 DEF Starts
  <2>12. ServerTyped' /\ disk' \in [Jobs -> DiskStates]
    BY <1>1 DEF StagedIInv, ServerTyped, envVars
  <2>13. QED
    BY <2>6, <2>7, <2>8, <2>9, <2>10, <2>11, <2>12 DEF StagedIInv
<1>4. QED
  BY <1>2, <1>3 DEF Insert

LEMMA CancelStagedKeeps ==
  ASSUME StagedIInv, NEW k \in Calls, NEW j \in Jobs, CancelStaged(k, j)
  PROVE  StagedIInv'
<1>1. RowsSettle /\ WorkersKeep /\ DiskShrinks
  BY SettleSame, KeepsInterrupt, ShrinkSame DEF CancelStaged
<1>2. TakeUp(k, j, "k_remove") /\ "k_remove" \notin Making /\ j \in 0..created /\ j # 0
  BY Numbers DEF CancelStaged, Making, Row
<1>3. QED
  BY <1>1, <1>2, TakesUp, StepsExist

LEMMA CancelStatusKeeps ==
  ASSUME StagedIInv, NEW k \in Calls, CancelStatus(k)
  PROVE  StagedIInv'
<1>1. WorkersKeep /\ DiskShrinks
  BY KeepsSame, ShrinkSame DEF CancelStatus
<1>2. pc[k] \in Dealing /\ job[k] \in Jobs
  BY JobTaken DEF CancelStatus, Dealing
<1>3. RowsSettle
  <2> DEFINE x == IF status[job[k]] \in Live \cup {"ready"} THEN "cancelled" ELSE status[job[k]]
  <2>1. status[job[k]] \in Statuses
    BY <1>2 DEF StagedIInv, RowsTyped
  <2>2. x \in Statuses /\ (x = status[job[k]] \/ (x \notin Live \cup {"ready"} /\ status[job[k]] # "gone"))
    BY <2>1 DEF Statuses, Live, Terminal
  <2>3. status' = [status EXCEPT ![job[k]] = x] /\ UNCHANGED <<created, fileOf, path, expired>>
    BY DEF CancelStatus
  <2> HIDE DEF x
  <2>4. QED
    BY <1>2, <2>2, <2>3, SettleStatus
<1>4. Continue(k, "k_path") /\ "k_path" \notin Making
  BY DEF CancelStatus, Making
<1>5. QED
  BY <1>1, <1>2, <1>3, <1>4, Continues, StepsExist

LEMMA CancelPathKeeps ==
  ASSUME StagedIInv, NEW k \in Calls, CancelPath(k)
  PROVE  StagedIInv'
<1>1. RowsSettle /\ WorkersKeep /\ DiskShrinks
  BY SettleClear, KeepsSame, ShrinkSame DEF CancelPath
<1>2. pc[k] \in Dealing /\ "p_row" \notin Making
  BY DEF CancelPath, Dealing, Making
<1>3. CASE Continue(k, "p_row")
  BY <1>1, <1>2, <1>3, Continues, StepsExist
<1>4. CASE Return(k)
  BY <1>1, <1>4, Returns
<1>5. QED
  BY <1>3, <1>4 DEF CancelPath

LEMMA AbandonKeeps ==
  ASSUME StagedIInv, NEW k \in Calls, Abandon(k)
  PROVE  StagedIInv'
<1>1. RowsSettle /\ WorkersKeep /\ DiskShrinks
  BY SettleSame, KeepsSame, ShrinkSame DEF Abandon
<1>2. Return(k)
  BY DEF Abandon
<1>3. QED
  BY <1>1, <1>2, Returns

LEMMA DeleteStagedKeeps ==
  ASSUME StagedIInv, NEW d \in Calls, NEW j \in Jobs, DeleteStaged(d, j)
  PROVE  StagedIInv'
<1>1. RowsSettle /\ WorkersKeep /\ DiskShrinks
  BY SettleSame, KeepsInterrupt, ShrinkSame DEF DeleteStaged
<1>2. status[j] # "gone"
  BY DEF DeleteStaged, Terminal
<1>3. TakeUp(d, j, "d_remove") /\ "d_remove" \notin Making /\ j \in 0..created /\ j # 0
  BY <1>2, Numbers DEF DeleteStaged, Making
<1>4. QED
  BY <1>1, <1>3, TakesUp, StepsExist

LEMMA PurgeHistoryKeeps ==
  ASSUME StagedIInv, NEW d \in Calls, NEW j \in Jobs, PurgeHistory(d, j)
  PROVE  StagedIInv'
<1>1. RowsSettle /\ WorkersKeep /\ DiskShrinks
  BY SettleSame, KeepsSame, ShrinkSame DEF PurgeHistory
<1>2. status[j] # "gone"
  BY DEF PurgeHistory, Terminal
<1>3. TakeUp(d, j, "d_remove") /\ "d_remove" \notin Making /\ j \in 0..created /\ j # 0
  BY <1>2, Numbers DEF PurgeHistory, Making
<1>4. QED
  BY <1>1, <1>3, TakesUp, StepsExist

LEMMA DeleteDownloadKeeps ==
  ASSUME StagedIInv, NEW d \in Calls, DeleteDownload(d)
  PROVE  StagedIInv'
<1>1. RowsSettle /\ WorkersKeep /\ DiskShrinks
  BY SettleDelete, KeepsSame, ShrinkSame DEF DeleteDownload
<1>2. "p_rest" \notin Making /\ "p_rest" \notin Dealing /\ 0 \in 0..created
  BY Numbers DEF Making, Dealing
<1>3. CASE TakeUp(d, 0, "p_rest")
  BY <1>1, <1>2, <1>3, TakesUp, StepsExist
<1>4. CASE Return(d)
  BY <1>1, <1>4, Returns
<1>5. QED
  BY <1>3, <1>4 DEF DeleteDownload

LEMMA SkipRowKeeps ==
  ASSUME StagedIInv, NEW p \in Calls, SkipRow(p)
  PROVE  StagedIInv'
<1>1. RowsSettle /\ WorkersKeep /\ DiskShrinks
  BY SettleSame, KeepsSame, ShrinkSame DEF SkipRow
<1>2. TakeUp(p, 0, "p_rest") /\ "p_rest" \notin Making /\ "p_rest" \notin Dealing /\ 0 \in 0..created
  BY Numbers DEF SkipRow, Making, Dealing
<1>3. QED
  BY <1>1, <1>2, TakesUp, StepsExist

LEMMA StagedFileKeeps ==
  ASSUME StagedIInv, NEW x \in Calls, NEW j \in Jobs, StagedFile(x, j)
  PROVE  StagedIInv'
<1>1. RowsSettle /\ WorkersKeep /\ DiskShrinks
  BY SettleSame, KeepsSame, ShrinkSame DEF StagedFile
<1>2. status[j] # "gone"
  BY DEF StagedFile
<1>3. TakeUp(x, j, "x_remove") /\ "x_remove" \notin Making /\ j \in 0..created /\ j # 0
  BY <1>2, Numbers DEF StagedFile, Making
<1>4. QED
  BY <1>1, <1>3, TakesUp, StepsExist

LEMMA ExpirePathKeeps ==
  ASSUME StagedIInv, NEW x \in Calls, NEW from \in Dealing, NEW to \in CallSteps, to \notin Making,
         ExpirePath(x, from, to)
  PROVE  StagedIInv'
<1>1. RowsSettle /\ WorkersKeep /\ DiskShrinks
  BY SettleClear, KeepsSame, ShrinkSame DEF ExpirePath
<1>2. Continue(x, to) /\ pc[x] \in Dealing
  BY DEF ExpirePath
<1>3. QED
  BY <1>1, <1>2, Continues

\* A row that is there is written off as expired.
LEMMA SettleExpired ==
  ASSUME StagedIInv, NEW j \in Jobs,
         (status' = [status EXCEPT ![j] = "expired"] /\ Row(j)) \/ status' = status,
         UNCHANGED <<created, fileOf, path, expired>>
  PROVE  RowsSettle
<1>1. "expired" \in Statuses /\ "expired" \notin Live \cup {"ready"}
  BY DEF Statuses, Live, Terminal
<1>2. CASE status' = status
  BY <1>2, SettleSame DEF rowVars
<1>3. CASE status' = [status EXCEPT ![j] = "expired"] /\ Row(j)
  BY <1>1, <1>3, SettleStatus DEF Row
<1>4. QED
  BY <1>2, <1>3

LEMMA ExpireStatusKeeps ==
  ASSUME StagedIInv, NEW x \in Calls, ExpireStatus(x)
  PROVE  StagedIInv'
<1>1. WorkersKeep /\ DiskShrinks
  BY KeepsSame, ShrinkSame DEF ExpireStatus
<1>2. job[x] \in Jobs
  BY JobTaken DEF ExpireStatus, Dealing
<1>3. RowsSettle
  <2>1. status \in [Jobs -> Statuses]
    BY DEF StagedIInv, RowsTyped
  <2>2. (status' = [status EXCEPT ![job[x]] = "expired"] /\ Row(job[x])) \/ status' = status
    BY <2>1 DEF ExpireStatus
  <2>3. QED
    BY <1>2, <2>2, SettleExpired DEF ExpireStatus
<1>4. Return(x)
  BY DEF ExpireStatus
<1>5. QED
  BY <1>1, <1>3, <1>4, Returns

LEMMA SweepCacheKeeps ==
  ASSUME StagedIInv, NEW w \in Calls, SweepCache(w)
  PROVE  StagedIInv'
<1>1. RowsSettle /\ WorkersKeep /\ DiskShrinks
  BY SettleSame, KeepsSame, ShrinkSame DEF SweepCache
<1>2. /\ Goto(w, "w_usage") /\ file' = file /\ job' = job /\ MutexMoves(w)
      /\ "w_usage" \notin Making /\ "w_usage" \notin Dealing
  BY DEF SweepCache, MutexMoves, Making, Dealing
<1>3. LocalsTyped'
  <2>1. Evictable \subseteq 1..created /\ 1..created \subseteq Jobs /\ limit \in Limits /\ created' = created
    BY <1>1, QueriesFit, Numbers DEF StagedIInv, ServerTyped, RowsSettle
  <2>2. list' \in [Calls -> SUBSET (1..created)]
    BY <2>1 DEF SweepCache, StagedIInv, CallsTyped, LocalsTyped
  <2>3. late' \subseteq 1..created
    BY <2>1 DEF SweepCache
  <2>4. trim' \subseteq 1..created
    BY <2>1 DEF SweepCache
  <2>5. QED
    BY <2>1, <2>2, <2>3, <2>4 DEF SweepCache, StagedIInv, CallsTyped, LocalsTyped
<1>4. QED
  BY <1>1, <1>2, <1>3, CallMoves, StepsExist

LEMMA SweepUsageKeeps ==
  ASSUME StagedIInv, NEW w \in Calls, SweepUsage(w)
  PROVE  StagedIInv'
<1>1. RowsSettle /\ WorkersKeep /\ DiskShrinks
  BY SettleSame, KeepsSame, ShrinkSame DEF SweepUsage
<1>2. /\ Goto(w, "w_next") /\ file' = file /\ job' = job /\ MutexMoves(w)
      /\ "w_next" \notin Making /\ "w_next" \notin Dealing
  BY DEF SweepUsage, MutexMoves, Making, Dealing
<1>3. LocalsTyped'
  BY <1>1, UsageNat DEF SweepUsage, sweepVars, StagedIInv, CallsTyped, LocalsTyped, RowsSettle
<1>4. QED
  BY <1>1, <1>2, <1>3, CallMoves, StepsExist

LEMMA SweepNextKeeps ==
  ASSUME StagedIInv, NEW w \in Calls, SweepNext(w)
  PROVE  StagedIInv'
<1>1. RowsSettle /\ WorkersKeep
  BY SettleSame, KeepsSame DEF SweepNext
<1>2. MutexMoves(w) /\ file' = file /\ UNCHANGED <<cap, late, resuming>> /\ created' = created
  BY <1>1 DEF SweepNext, MutexMoves, RowsSettle
<1>3. LocalsTyped /\ 1..created \subseteq Jobs /\ 1..created \subseteq 0..created /\ created \in Nat
  BY Numbers DEF StagedIInv, CallsTyped
<1>4. ASSUME NEW j \in list[w],
             job' = [job EXCEPT ![w] = j], list' = [list EXCEPT ![w] = @ \ {j}],
             used' = [used EXCEPT ![w] = Less(@, j)], disk' = [disk EXCEPT ![j] = "none"],
             Goto(w, "w_path"), UNCHANGED trim
      PROVE  StagedIInv'
  <2>1. j \in 1..created /\ j \in Jobs /\ j # 0 /\ used[w] \in Nat
    BY <1>3, JobOf
  <2>2. Less(used[w], j) \in Nat
    BY <2>1, LessNat
  <2>3. LocalsTyped'
    BY <1>2, <1>3, <1>4, <2>1, <2>2 DEF LocalsTyped
  <2>4. job'[w] = j /\ \A q \in Calls \ {w} : job'[q] = job[q]
    BY <1>3, <1>4 DEF LocalsTyped
  <2>5. DiskShrinks /\ "w_path" \notin Making
    BY <1>4, ShrinkRemove DEF Making
  <2>6. QED
    BY <1>1, <1>2, <1>4, <2>1, <2>3, <2>4, <2>5, CallMoves, StepsExist
<1>5. ASSUME NEW j \in trim,
             job' = [job EXCEPT ![w] = j], trim' = trim \ {j}, disk' = [disk EXCEPT ![j] = "none"],
             Goto(w, "w_trim"), UNCHANGED <<list, used>>
      PROVE  StagedIInv'
  <2>1. j \in 1..created /\ j # 0
    BY <1>3 DEF LocalsTyped
  <2>2. LocalsTyped'
    BY <1>2, <1>3, <1>5, <2>1 DEF LocalsTyped
  <2>3. job'[w] = j /\ \A q \in Calls \ {w} : job'[q] = job[q]
    BY <1>3, <1>5 DEF LocalsTyped
  <2>4. DiskShrinks /\ "w_trim" \notin Making
    BY <1>5, ShrinkRemove DEF Making
  <2>5. QED
    BY <1>1, <1>2, <1>5, <2>1, <2>2, <2>3, <2>4, CallMoves, StepsExist
<1>6. CASE Goto(w, "orphans") /\ UNCHANGED <<job, list, used, trim, disk>>
  <2>1. LocalsTyped'
    BY <1>2, <1>3, <1>6 DEF LocalsTyped
  <2>2. DiskShrinks /\ "orphans" \notin Making /\ "orphans" \notin Dealing
    BY <1>6, ShrinkSame DEF Making, Dealing
  <2>3. QED
    BY <1>1, <1>2, <1>6, <2>1, <2>2, CallMoves, StepsExist
<1>7. QED
  BY <1>4, <1>5, <1>6 DEF SweepNext

LEMMA SweepStatusKeeps ==
  ASSUME StagedIInv, NEW w \in Calls, SweepStatus(w)
  PROVE  StagedIInv'
<1>1. WorkersKeep /\ DiskShrinks
  BY KeepsSame, ShrinkSame DEF SweepStatus
<1>2. job[w] \in Jobs
  BY JobTaken DEF SweepStatus, Dealing
<1>3. RowsSettle
  <2>1. status \in [Jobs -> Statuses]
    BY DEF StagedIInv, RowsTyped
  <2>2. (status' = [status EXCEPT ![job[w]] = "expired"] /\ Row(job[w])) \/ status' = status
    BY <2>1 DEF SweepStatus
  <2>3. QED
    BY <1>2, <2>2, SettleExpired DEF SweepStatus
<1>4. TakeUp(w, 0, "w_next") /\ "w_next" \notin Making /\ "w_next" \notin Dealing /\ 0 \in 0..created
  BY Numbers DEF SweepStatus, Making, Dealing
<1>5. QED
  BY <1>1, <1>3, <1>4, TakesUp, StepsExist

LEMMA SweepTrimKeeps ==
  ASSUME StagedIInv, NEW w \in Calls, SweepTrim(w)
  PROVE  StagedIInv'
<1>1. RowsSettle /\ WorkersKeep /\ DiskShrinks
  BY SettleDelete, KeepsSame, ShrinkSame DEF SweepTrim
<1>2. job[w] \in Jobs /\ used[w] \in Nat
  BY JobTaken, JobOf DEF SweepTrim, Dealing
<1>3. Less(used[w], job[w]) \in Nat /\ 0 \in 0..created /\ created' = created
  BY <1>1, <1>2, LessNat, Numbers DEF RowsSettle
<1>4. job' \in [Calls -> 0..created] /\ \A q \in Calls \ {w} : job'[q] = job[q]
  BY <1>3 DEF SweepTrim, StagedIInv, CallsTyped, LocalsTyped
<1>5. used' \in [Calls -> Nat]
  <2>1. used' = used \/ used' = [used EXCEPT ![w] = Less(@, job[w])]
    BY DEF SweepTrim, StagedIInv, CallsTyped, LocalsTyped
  <2>2. QED
    BY <1>3, <2>1 DEF StagedIInv, CallsTyped, LocalsTyped
<1>6. LocalsTyped'
  BY <1>3, <1>4, <1>5 DEF SweepTrim, sweepVars, StagedIInv, CallsTyped, LocalsTyped
<1>7. /\ Goto(w, "w_next") /\ file' = file /\ MutexMoves(w)
      /\ "w_next" \notin Making /\ "w_next" \notin Dealing
  BY DEF SweepTrim, MutexMoves, Making, Dealing
<1>8. QED
  BY <1>1, <1>4, <1>6, <1>7, CallMoves, StepsExist

LEMMA RemoveOrphansKeeps ==
  ASSUME StagedIInv, NEW p \in Calls, RemoveOrphans(p)
  PROVE  StagedIInv'
<1>1. RowsSettle /\ WorkersKeep /\ Return(p)
  BY SettleSame, KeepsSame DEF RemoveOrphans
<1>2. DiskShrinks
  <2>1. disk \in [Jobs -> DiskStates] /\ "none" \in DiskStates
    BY DEF StagedIInv, DiskStates
  <2>2. QED
    BY <2>1 DEF RemoveOrphans, DiskShrinks
<1>3. QED
  BY <1>1, <1>2, Returns

LEMMA PurgeCacheKeeps ==
  ASSUME StagedIInv, NEW p \in Calls, PurgeCache(p)
  PROVE  StagedIInv'
<1>1. RowsSettle /\ WorkersKeep /\ DiskShrinks
  BY SettleSame, KeepsSame, ShrinkSame DEF PurgeCache
<1>2. /\ Goto(p, "p_next") /\ file' = file /\ job' = job /\ MutexMoves(p)
      /\ "p_next" \notin Making /\ "p_next" \notin Dealing
  BY DEF PurgeCache, MutexMoves, Making, Dealing
<1>3. LocalsTyped'
  BY <1>1, QueriesFit DEF PurgeCache, sweepVars, StagedIInv, CallsTyped, LocalsTyped, RowsSettle
<1>4. QED
  BY <1>1, <1>2, <1>3, CallMoves, StepsExist

\* A call takes a job off its list.
LEMMA TakesNext ==
  ASSUME StagedIInv, RowsSettle, WorkersKeep, DiskShrinks, NEW p \in Calls, NEW j \in list[p],
         job' = [job EXCEPT ![p] = j], list' = [list EXCEPT ![p] = @ \ {j}],
         NEW step \in CallSteps, step \notin Making, Goto(p, step),
         UNCHANGED <<mutex, file, used, cap, sweepVars>>
  PROVE  StagedIInv'
<1>1. LocalsTyped /\ 1..created \subseteq 0..created /\ created' = created
  BY Numbers DEF StagedIInv, CallsTyped, RowsSettle
<1>2. j \in 1..created /\ j # 0
  BY JobOf, Numbers
<1>3. LocalsTyped'
  BY <1>1, <1>2 DEF LocalsTyped, sweepVars
<1>4. job'[p] = j /\ \A q \in Calls \ {p} : job'[q] = job[q]
  BY <1>1 DEF LocalsTyped
<1>5. MutexMoves(p)
  BY DEF MutexMoves
<1>6. QED
  BY <1>2, <1>3, <1>4, <1>5, CallMoves

LEMMA PurgeNextKeeps ==
  ASSUME StagedIInv, NEW p \in Calls, PurgeNext(p)
  PROVE  StagedIInv'
<1>1. RowsSettle /\ DiskShrinks /\ UNCHANGED envVars
  BY SettleSame, ShrinkSame DEF PurgeNext
<1>2. ASSUME NEW j \in list[p], Interrupt(j),
             job' = [job EXCEPT ![p] = j], list' = [list EXCEPT ![p] = @ \ {j}],
             Goto(p, "k_remove"), UNCHANGED <<mutex, file, used, cap, sweepVars>>
      PROVE  StagedIInv'
  <2>1. WorkersKeep /\ "k_remove" \notin Making
    BY <1>1, <1>2, KeepsInterrupt DEF Making
  <2>2. QED
    BY <1>1, <1>2, <2>1, TakesNext, StepsExist
<1>3. CASE Return(p) /\ UNCHANGED workerVars
  <2>1. WorkersKeep
    BY <1>1, <1>3, KeepsSame
  <2>2. QED
    BY <1>1, <1>3, <2>1, Returns
<1>4. CASE Continue(p, "p_list") /\ UNCHANGED workerVars
  <2>1. WorkersKeep /\ "p_list" \notin Making /\ "p_list" \notin Dealing
    BY <1>1, <1>4, KeepsSame DEF Making, Dealing
  <2>2. QED
    BY <1>1, <1>4, <2>1, Continues, StepsExist
<1>5. QED
  BY <1>2, <1>3, <1>4 DEF PurgeNext

LEMMA PurgeRowKeeps ==
  ASSUME StagedIInv, NEW p \in Calls, PurgeRow(p)
  PROVE  StagedIInv'
<1>1. RowsSettle /\ WorkersKeep /\ DiskShrinks
  BY SettleDelete, KeepsSame, ShrinkSame DEF PurgeRow
<1>2. TakeUp(p, 0, "p_next") /\ "p_next" \notin Making /\ "p_next" \notin Dealing /\ 0 \in 0..created
  BY Numbers DEF PurgeRow, Making, Dealing
<1>3. QED
  BY <1>1, <1>2, TakesUp, StepsExist

LEMMA PurgeListKeeps ==
  ASSUME StagedIInv, NEW p \in Calls, PurgeList(p)
  PROVE  StagedIInv'
<1>1. RowsSettle /\ WorkersKeep /\ DiskShrinks
  BY SettleSame, KeepsSame, ShrinkSame DEF PurgeList
<1>2. /\ Goto(p, "p_rest") /\ file' = file /\ job' = job /\ MutexMoves(p)
      /\ "p_rest" \notin Making /\ "p_rest" \notin Dealing
  BY DEF PurgeList, MutexMoves, Making, Dealing
<1>3. LocalsTyped'
  BY <1>1, QueriesFit DEF PurgeList, sweepVars, StagedIInv, CallsTyped, LocalsTyped, RowsSettle
<1>4. QED
  BY <1>1, <1>2, <1>3, CallMoves, StepsExist

LEMMA PurgeRestKeeps ==
  ASSUME StagedIInv, NEW p \in Calls, PurgeRest(p)
  PROVE  StagedIInv'
<1>1. RowsSettle /\ WorkersKeep /\ DiskShrinks
  BY SettleSame, KeepsSame, ShrinkSame DEF PurgeRest
<1>2. ASSUME NEW j \in list[p],
             job' = [job EXCEPT ![p] = j], list' = [list EXCEPT ![p] = @ \ {j}],
             Goto(p, "d_remove"), UNCHANGED <<mutex, file, used, cap, sweepVars>>
      PROVE  StagedIInv'
  BY <1>1, <1>2, TakesNext, StepsExist DEF Making
<1>3. CASE Continue(p, "orphans")
  BY <1>1, <1>3, Continues, StepsExist DEF Making, Dealing
<1>4. QED
  BY <1>2, <1>3 DEF PurgeRest

-----------------------------------------------------------------------------
(* Every action of a worker.                                               *)

\* A step of one worker keeps the invariant when no row becomes live by it and
\* its own copy stays whole.
LEMMA WorkerMoves ==
  ASSUME StagedIInv, NEW j \in Jobs, UNCHANGED <<created, fileOf, callVars, envVars>>,
         status' \in [Jobs -> Statuses], path' \subseteq 1..created, expired' \subseteq path',
         \A i \in Jobs : status'[i] \in Live => status[i] \in Live,
         \A i \in Jobs : status[i] = "gone" => status'[i] = "gone",
         WorkersTyped', disk' \in [Jobs -> DiskStates],
         \A i \in Jobs \ {j} : status'[i] = status[i] /\ work'[i] = work[i] /\ disk'[i] = disk[i],
         WholeFits(j)'
  PROVE  StagedIInv'
<1>1. UNCHANGED <<mutex, pc, job, file, list, used, cap, late, trim, resuming>>
  BY DEF callVars, localVars, sweepVars
<1>2. RowsTyped'
  BY DEF StagedIInv, RowsTyped
<1>3. CallsTyped' /\ Deals' /\ ServerTyped'
  BY <1>1 DEF StagedIInv, CallsTyped, LocalsTyped, Deals, ServerTyped, envVars
<1>4. OneTransferPerFile'
  BY DEF StagedIInv, OneTransferPerFile
<1>5. Starts'
  <2>1. \A f : Active(f)' \subseteq Active(f)
    BY DEF Active
  <2>2. ASSUME NEW q \in Calls, pc'[q] \in Making PROVE mutex' = q /\ Active(file[q])' = {}
    <3>1. mutex' = q /\ Active(file[q]) = {} /\ file'[q] = file[q]
      BY <1>1, <2>2 DEF StagedIInv, Starts
    <3>2. ASSUME NEW f, f = file'[q] PROVE {i \in Jobs : status'[i] \in Live /\ fileOf'[i] = f} = {}
      BY <2>1, <3>1, <3>2 DEF Active
    <3>3. QED
      BY <3>1, <3>2 DEF Active
  <2>3. QED
    BY <2>2 DEF Starts
<1>6. ASSUME NEW i \in Jobs PROVE WholeFits(i)'
  <2>1. CASE i # j
    BY <2>1 DEF StagedIInv, WholeFits
  <2>2. QED
    BY <2>1
<1>7. QED
  BY <1>2, <1>3, <1>4, <1>5, <1>6 DEF StagedIInv

\* What a worker's own step does to the registers.
LEMMA Thens ==
  ASSUME StagedIInv, NEW j \in Jobs, work[j] # "none",
         NEW step \in WorkerSteps \ {"none"}, Then(j, step)
  PROVE  /\ WorkersTyped' /\ work'[j] = step
         /\ \A i \in Jobs \ {j} : work'[i] = work[i]
<1>1. WorkersTyped
  BY DEF StagedIInv
<1>2. work' \in [Jobs -> WorkerSteps] /\ work'[j] = step /\ \A i \in Jobs \ {j} : work'[i] = work[i]
  BY <1>1 DEF Then, WorkersTyped
<1>3. {i \in Jobs : work'[i] # "none"} = {i \in Jobs : work[i] # "none"}
  BY <1>2
<1>4. QED
  BY <1>1, <1>2, <1>3 DEF Then, WorkersTyped

LEMMA Exits ==
  ASSUME StagedIInv, NEW j \in Jobs, Exit(j)
  PROVE  /\ WorkersTyped' /\ work'[j] = "none"
         /\ \A i \in Jobs \ {j} : work'[i] = work[i]
<1>1. WorkersTyped
  BY DEF StagedIInv
<1>2. "none" \in WorkerSteps
  BY DEF WorkerSteps
<1>3. work' \in [Jobs -> WorkerSteps] /\ work'[j] = "none" /\ \A i \in Jobs \ {j} : work'[i] = work[i]
  BY <1>1, <1>2 DEF Exit, WorkersTyped
<1>4. {i \in Jobs : work'[i] # "none"} = {i \in Jobs : work[i] # "none"} \ {j}
  BY <1>3
<1>5. QED
  BY <1>1, <1>3, <1>4 DEF Exit, WorkersTyped

\* A step of a worker that leaves rows and disk alone.
LEMMA WorkerGoesOn ==
  ASSUME StagedIInv, NEW j \in Jobs, UNCHANGED <<created, fileOf, status, disk, callVars, envVars>>,
         path' \subseteq 1..created, expired' \subseteq path', WorkersTyped',
         \A i \in Jobs \ {j} : work'[i] = work[i],
         work'[j] \in Published => work[j] \in Published,
         work'[j] \in Transferring => work[j] \in Transferring
  PROVE  StagedIInv'
<1>1. status' \in [Jobs -> Statuses] /\ disk' \in [Jobs -> DiskStates]
  BY DEF StagedIInv, RowsTyped
<1>2. WholeFits(j)'
  BY DEF StagedIInv, WholeFits
<1>3. QED
  BY <1>1, <1>2, WorkerMoves

LEMMA WorkerStepsExist ==
  /\ {"register", "lease", "run", "mkdir", "dest", "create", "copy", "publish", "date", "ready"}
       \subseteq WorkerSteps \ {"none"}
  /\ {"cleanExit", "cleanFail", "fail", "failed"} \subseteq WorkerSteps \ {"none"}
  BY DEF WorkerSteps

LEMMA PathsTyped ==
  ASSUME StagedIInv, NEW j \in Jobs
  PROVE  /\ path \subseteq 1..created /\ expired \subseteq path
         /\ Row(j) => path \cup {j} \subseteq 1..created
  BY Numbers DEF StagedIInv, RowsTyped, Row

LEMMA RegisterKeeps ==
  ASSUME StagedIInv, NEW j \in Jobs, Register(j)
  PROVE  StagedIInv'
<1>1. WorkersTyped /\ "lease" \in WorkerSteps /\ "lease" # "none"
  BY WorkerStepsExist DEF StagedIInv
<1>2. work' \in [Jobs -> WorkerSteps] /\ work'[j] = "lease" /\ \A i \in Jobs \ {j} : work'[i] = work[i]
  BY <1>1 DEF Register, WorkersTyped
<1>3. {i \in Jobs : work'[i] # "none"} = {i \in Jobs : work[i] # "none"}
  BY <1>2 DEF Register
<1>4. WorkersTyped'
  BY <1>1, <1>2, <1>3 DEF Register, WorkersTyped
<1>5. QED
  BY <1>2, <1>4, PathsTyped, WorkerGoesOn DEF Register, rowVars, Published, Transferring

LEMMA LeaseKeeps ==
  ASSUME StagedIInv, NEW j \in Jobs, Lease(j)
  PROVE  StagedIInv'
<1>1. PICK step \in {"run", "fail", "none"} :
        WorkersTyped' /\ work'[j] = step /\ \A i \in Jobs \ {j} : work'[i] = work[i]
  BY Thens, Exits, WorkerStepsExist DEF Lease
<1>2. QED
  BY <1>1, PathsTyped, WorkerGoesOn DEF Lease, rowVars, Published, Transferring

LEMMA RunKeeps ==
  ASSUME StagedIInv, NEW j \in Jobs, Run(j)
  PROVE  StagedIInv'
<1>1. CASE Exit(j) /\ UNCHANGED status
  <2>1. WorkersTyped' /\ work'[j] = "none" /\ \A i \in Jobs \ {j} : work'[i] = work[i]
    BY <1>1, Exits
  <2>2. QED
    BY <1>1, <2>1, PathsTyped, WorkerGoesOn DEF Run, Published, Transferring
<1>2. CASE status[j] \in Live /\ status' = [status EXCEPT ![j] = "running"] /\ Then(j, "mkdir")
  <2>1. WorkersTyped' /\ work'[j] = "mkdir" /\ \A i \in Jobs \ {j} : work'[i] = work[i]
    BY <1>2, Thens, WorkerStepsExist DEF Run
  <2>2. status \in [Jobs -> Statuses] /\ disk \in [Jobs -> DiskStates] /\ "running" \in Statuses
    BY DEF StagedIInv, RowsTyped, Statuses, Live
  <2>3. /\ status' \in [Jobs -> Statuses] /\ status'[j] = "running"
        /\ \A i \in Jobs \ {j} : status'[i] = status[i]
    BY <1>2, <2>2
  <2>4. disk' = disk /\ path' = path /\ expired' = expired
    BY DEF Run
  <2>5. WholeFits(j)'
    BY <2>1, <2>3 DEF WholeFits, Published
  <2>6. \A i \in Jobs : (status'[i] \in Live => status[i] \in Live) /\ (status[i] = "gone" => status'[i] = "gone")
    BY <1>2, <2>3 DEF Live
  <2>7. UNCHANGED <<created, fileOf, callVars, envVars>>
    BY DEF Run
  <2>8. QED
    BY <2>1, <2>2, <2>3, <2>4, <2>5, <2>6, <2>7, PathsTyped, WorkerMoves
<1>3. QED
  BY <1>1, <1>2 DEF Run

\* A step of a worker that writes nothing but its own copy.
LEMMA WorkerWrites ==
  ASSUME StagedIInv, NEW j \in Jobs, UNCHANGED <<rowVars, callVars, envVars>>,
         NEW x \in DiskStates, disk' = [disk EXCEPT ![j] = x], WorkersTyped',
         \A i \in Jobs \ {j} : work'[i] = work[i],
         x # disk[j] /\ x # "none" => status[j] # "ready",
         work'[j] \in Published => x \in {"none", "final"},
         work'[j] \in Transferring => work[j] \in Transferring
  PROVE  StagedIInv'
<1>1. UNCHANGED <<created, fileOf, status, path, expired>>
  BY DEF rowVars
<1>2. /\ disk \in [Jobs -> DiskStates] /\ disk' \in [Jobs -> DiskStates] /\ disk'[j] = x
      /\ \A i \in Jobs \ {j} : disk'[i] = disk[i]
  BY DEF StagedIInv
<1>3. WholeFits(j)'
  BY <1>1, <1>2 DEF StagedIInv, WholeFits
<1>4. status' \in [Jobs -> Statuses]
  BY <1>1 DEF StagedIInv, RowsTyped
<1>5. QED
  BY <1>1, <1>2, <1>3, <1>4, PathsTyped, WorkerMoves

LEMMA MkdirKeeps ==
  ASSUME StagedIInv, NEW j \in Jobs, Mkdir(j)
  PROVE  StagedIInv'
<1>1. status[j] # "ready"
  BY DEF Mkdir, StagedIInv, WholeFits, Transferring
<1>2. CASE Then(j, "fail") /\ UNCHANGED disk
  <2>1. WorkersTyped' /\ work'[j] = "fail" /\ \A i \in Jobs \ {j} : work'[i] = work[i]
    BY <1>2, Thens, WorkerStepsExist DEF Mkdir
  <2>2. QED
    BY <1>2, <2>1, PathsTyped, WorkerGoesOn DEF Mkdir, rowVars, Published, Transferring
<1>3. CASE disk' = [disk EXCEPT ![j] = IF @ = "none" THEN "dir" ELSE @] /\ Then(j, "dest")
  <2>1. WorkersTyped' /\ work'[j] = "dest" /\ \A i \in Jobs \ {j} : work'[i] = work[i]
    BY <1>3, Thens, WorkerStepsExist DEF Mkdir
  <2>2. disk \in [Jobs -> DiskStates]
    BY DEF StagedIInv
  <2>3. PICK x \in DiskStates : disk' = [disk EXCEPT ![j] = x]
    BY <1>3, <2>2 DEF DiskStates
  <2>4. work[j] \in Transferring /\ work'[j] \notin Published /\ UNCHANGED <<rowVars, callVars, envVars>>
    BY <2>1 DEF Mkdir, Transferring, Published
  <2>5. QED
    BY <1>1, <2>1, <2>3, <2>4, WorkerWrites
<1>4. QED
  BY <1>2, <1>3 DEF Mkdir

\* SetDownloadCache by the worker itself, before bytes move and after.
LEMMA DestKeeps ==
  ASSUME StagedIInv, NEW j \in Jobs, Dest(j)
  PROVE  StagedIInv'
<1>1. path' \subseteq 1..created /\ expired' \subseteq path'
  BY PathsTyped DEF Dest
<1>2. PICK step \in {"create", "cleanFail"} :
        WorkersTyped' /\ work'[j] = step /\ \A i \in Jobs \ {j} : work'[i] = work[i]
  BY Thens, WorkerStepsExist DEF Dest
<1>3. work[j] \in Transferring /\ work'[j] \notin Published
  BY <1>2 DEF Dest, Published, Transferring
<1>4. UNCHANGED <<created, fileOf, status, disk, callVars, envVars>>
  BY DEF Dest
<1>5. QED
  BY <1>1, <1>2, <1>3, <1>4, WorkerGoesOn

LEMMA DateKeeps ==
  ASSUME StagedIInv, NEW j \in Jobs, Date(j)
  PROVE  StagedIInv'
<1>1. path' \subseteq 1..created /\ expired' \subseteq path'
  BY PathsTyped DEF Date
<1>2. PICK step \in {"ready", "cleanFail"} :
        WorkersTyped' /\ work'[j] = step /\ \A i \in Jobs \ {j} : work'[i] = work[i]
  BY Thens, WorkerStepsExist DEF Date
<1>3. work[j] \in Transferring /\ work[j] \in Published
  BY DEF Date, Published, Transferring
<1>4. UNCHANGED <<created, fileOf, status, disk, callVars, envVars>>
  BY DEF Date
<1>5. QED
  BY <1>1, <1>2, <1>3, <1>4, WorkerGoesOn

LEMMA CreateKeeps ==
  ASSUME StagedIInv, NEW j \in Jobs, Create(j)
  PROVE  StagedIInv'
<1>1. status[j] # "ready" /\ work[j] \in Transferring
  BY DEF Create, StagedIInv, WholeFits, Transferring
<1>2. PICK step \in {"copy", "cleanFail"} :
        WorkersTyped' /\ work'[j] = step /\ \A i \in Jobs \ {j} : work'[i] = work[i]
  BY Thens, WorkerStepsExist DEF Create
<1>3. disk \in [Jobs -> DiskStates] /\ "part" \in DiskStates
  BY DEF StagedIInv, DiskStates
<1>4. PICK x \in DiskStates : disk' = [disk EXCEPT ![j] = x]
  BY <1>3 DEF Create
<1>5. work'[j] \notin Published /\ UNCHANGED <<rowVars, callVars, envVars>>
  BY <1>2 DEF Create, Published
<1>6. QED
  BY <1>1, <1>2, <1>4, <1>5, WorkerWrites

LEMMA CopyKeeps ==
  ASSUME StagedIInv, NEW j \in Jobs, Copy(j)
  PROVE  StagedIInv'
<1>1. PICK step \in {"publish", "cleanFail"} :
        WorkersTyped' /\ work'[j] = step /\ \A i \in Jobs \ {j} : work'[i] = work[i]
  BY Thens, WorkerStepsExist DEF Copy
<1>2. QED
  BY <1>1, PathsTyped, WorkerGoesOn DEF Copy, rowVars, Published, Transferring

LEMMA PublishKeeps ==
  ASSUME StagedIInv, NEW j \in Jobs, Publish(j)
  PROVE  StagedIInv'
<1>1. status[j] # "ready" /\ work[j] \in Transferring
  BY DEF Publish, StagedIInv, WholeFits, Transferring
<1>2. CASE disk' = [disk EXCEPT ![j] = "final"] /\ Then(j, "date")
  <2>1. WorkersTyped' /\ work'[j] = "date" /\ \A i \in Jobs \ {j} : work'[i] = work[i]
    BY <1>2, Thens, WorkerStepsExist DEF Publish
  <2>2. "final" \in DiskStates /\ UNCHANGED <<rowVars, callVars, envVars>>
    BY DEF DiskStates, Publish
  <2>3. QED
    BY <1>1, <1>2, <2>1, <2>2, WorkerWrites
<1>3. CASE Then(j, "cleanFail") /\ UNCHANGED disk
  <2>1. WorkersTyped' /\ work'[j] = "cleanFail" /\ \A i \in Jobs \ {j} : work'[i] = work[i]
    BY <1>3, Thens, WorkerStepsExist DEF Publish
  <2>2. QED
    BY <1>3, <2>1, PathsTyped, WorkerGoesOn DEF Publish, rowVars, Published, Transferring
<1>4. QED
  BY <1>2, <1>3 DEF Publish

LEMMA ReadyKeeps ==
  ASSUME StagedIInv, NEW j \in Jobs, Ready(j)
  PROVE  StagedIInv'
<1>1. CASE status[j] = "running" /\ status' = [status EXCEPT ![j] = "ready"] /\ Exit(j)
  <2>1. WorkersTyped' /\ work'[j] = "none" /\ \A i \in Jobs \ {j} : work'[i] = work[i]
    BY <1>1, Exits
  <2>2. status \in [Jobs -> Statuses] /\ disk \in [Jobs -> DiskStates] /\ "ready" \in Statuses
    BY DEF StagedIInv, RowsTyped, Statuses, Terminal
  <2>3. /\ status' \in [Jobs -> Statuses] /\ status'[j] = "ready"
        /\ \A i \in Jobs \ {j} : status'[i] = status[i]
    BY <1>1, <2>2
  <2>4. disk' = disk /\ path' = path /\ expired' = expired
    BY DEF Ready
  <2>5. disk[j] \in {"none", "final"}
    BY DEF Ready, StagedIInv, WholeFits, Published
  <2>6. WholeFits(j)'
    BY <2>1, <2>3, <2>4, <2>5 DEF WholeFits, Published, Transferring
  <2>7. \A i \in Jobs : (status'[i] \in Live => status[i] \in Live) /\ (status[i] = "gone" => status'[i] = "gone")
    BY <1>1, <2>3 DEF Live
  <2>8. UNCHANGED <<created, fileOf, callVars, envVars>>
    BY DEF Ready
  <2>9. QED
    BY <2>1, <2>2, <2>3, <2>4, <2>6, <2>7, <2>8, PathsTyped, WorkerMoves
<1>2. CASE Then(j, "cleanExit") /\ UNCHANGED status
  <2>1. WorkersTyped' /\ work'[j] = "cleanExit" /\ \A i \in Jobs \ {j} : work'[i] = work[i]
    BY <1>2, Thens, WorkerStepsExist DEF Ready
  <2>2. QED
    BY <1>2, <2>1, PathsTyped, WorkerGoesOn DEF Ready, Published, Transferring
<1>3. QED
  BY <1>1, <1>2 DEF Ready

LEMMA CleanKeeps ==
  ASSUME StagedIInv, NEW j \in Jobs, Clean(j)
  PROVE  StagedIInv'
<1>1. work[j] # "none"
  BY DEF Clean
<1>2. PICK step \in {"none", "fail"} :
        WorkersTyped' /\ work'[j] = step /\ \A i \in Jobs \ {j} : work'[i] = work[i]
  BY <1>1, Thens, Exits, WorkerStepsExist DEF Clean
<1>3. work'[j] \notin Published /\ work'[j] \notin Transferring
  BY <1>2 DEF Published, Transferring
<1>4. "none" \in DiskStates /\ disk' = [disk EXCEPT ![j] = "none"] /\ UNCHANGED <<rowVars, callVars, envVars>>
  BY DEF Clean, DiskStates
<1>5. QED
  BY <1>2, <1>3, <1>4, WorkerWrites

LEMMA FailKeeps ==
  ASSUME StagedIInv, NEW j \in Jobs, Fail(j)
  PROVE  StagedIInv'
<1>1. path' \subseteq 1..created /\ expired' \subseteq path'
  BY PathsTyped DEF Fail, ClearPath
<1>2. PICK step \in {"none", "failed"} :
        WorkersTyped' /\ work'[j] = step /\ \A i \in Jobs \ {j} : work'[i] = work[i]
  BY Thens, Exits, WorkerStepsExist DEF Fail
<1>3. work'[j] \notin Transferring /\ work'[j] \notin Published
  BY <1>2 DEF Published, Transferring
<1>4. UNCHANGED <<created, fileOf, status, disk, callVars, envVars>>
  BY DEF Fail
<1>5. QED
  BY <1>1, <1>2, <1>3, <1>4, WorkerGoesOn

LEMMA FailedKeeps ==
  ASSUME StagedIInv, NEW j \in Jobs, Failed(j)
  PROVE  StagedIInv'
<1>1. WorkersTyped' /\ work'[j] = "none" /\ \A i \in Jobs \ {j} : work'[i] = work[i]
  BY Exits DEF Failed
<1>2. status \in [Jobs -> Statuses] /\ disk \in [Jobs -> DiskStates] /\ "failed" \in Statuses
  BY DEF StagedIInv, RowsTyped, Statuses, Terminal
<1>3. status' = [status EXCEPT ![j] = IF status[j] \in Live THEN "failed" ELSE status[j]]
  BY DEF Failed
<1>4. /\ status' \in [Jobs -> Statuses]
      /\ status'[j] = (IF status[j] \in Live THEN "failed" ELSE status[j])
      /\ \A i \in Jobs \ {j} : status'[i] = status[i]
  BY <1>2, <1>3
<1>5. UNCHANGED <<created, fileOf, path, expired, disk, callVars, envVars>>
  BY DEF Failed
<1>6. WholeFits(j)'
  BY <1>1, <1>4, <1>5 DEF StagedIInv, WholeFits, Published, Transferring
<1>7. \A i \in Jobs : (status'[i] \in Live => status[i] \in Live) /\ (status[i] = "gone" => status'[i] = "gone")
  BY <1>4 DEF Live
<1>8. QED
  BY <1>1, <1>2, <1>4, <1>5, <1>6, <1>7, PathsTyped, WorkerMoves

-----------------------------------------------------------------------------
(* The world outside, and the theorem.                                     *)

LEMMA ExpireKeeps ==
  ASSUME StagedIInv, NEW j \in Jobs, Expire(j)
  PROVE  StagedIInv'
<1>1. WorkersTyped'
  BY DEF Expire, workerVars, StagedIInv, WorkersTyped
<1>2. path' \subseteq 1..created /\ expired' \subseteq path'
  BY PathsTyped DEF Expire
<1>3. UNCHANGED <<created, fileOf, status, work, disk, callVars, envVars>>
  BY DEF Expire, workerVars
<1>4. QED
  BY <1>1, <1>2, <1>3, WorkerGoesOn

LEMMA ServerKeeps ==
  ASSUME StagedIInv, UNCHANGED <<rowVars, disk, workerVars, mutex, pc, localVars, late, trim>>,
         resuming' \subseteq Jobs, ServerTyped'
  PROVE  StagedIInv'
<1>1. UNCHANGED <<created, fileOf, status, path, expired, disk, runs, reg, dead, work,
                  mutex, pc, job, file, list, used, cap, late, trim>>
  BY DEF rowVars, workerVars, localVars
<1>2. RowsTyped' /\ WorkersTyped' /\ Deals' /\ OneTransferPerFile' /\ disk' \in [Jobs -> DiskStates]
  BY <1>1 DEF StagedIInv, RowsTyped, WorkersTyped, Deals, OneTransferPerFile
<1>3. CallsTyped'
  BY <1>1 DEF StagedIInv, CallsTyped, LocalsTyped
<1>4. \A j \in Jobs : WholeFits(j)'
  BY <1>1 DEF StagedIInv, WholeFits
<1>5. Starts'
  BY <1>1 DEF StagedIInv, Starts, Active
<1>6. QED
  BY <1>2, <1>3, <1>4, <1>5 DEF StagedIInv

LEMMA SetLimitKeeps ==
  ASSUME StagedIInv, NEW n \in Limits, SetLimit(n)
  PROVE  StagedIInv'
<1>1. ServerTyped'
  BY BoundsAssumption DEF SetLimit, StagedIInv, ServerTyped
<1>2. UNCHANGED <<rowVars, disk, workerVars, mutex, pc, localVars, late, trim, resuming>>
  BY DEF SetLimit, callVars, sweepVars
<1>3. resuming' \subseteq Jobs
  BY <1>2 DEF StagedIInv, CallsTyped, LocalsTyped
<1>4. QED
  BY <1>1, <1>2, <1>3, ServerKeeps

LEMMA ResumeStagedKeeps ==
  ASSUME StagedIInv, ResumeStaged
  PROVE  StagedIInv'
<1>1. ServerTyped'
  BY BoundsAssumption DEF ResumeStaged, StagedIInv, ServerTyped
<1>2. resuming' \subseteq Jobs
  BY DEF ResumeStaged, Resumable
<1>3. QED
  BY <1>1, <1>2, ServerKeeps DEF ResumeStaged

LEMMA ResumeJobKeeps ==
  ASSUME StagedIInv, NEW j \in Jobs, ResumeJob(j)
  PROVE  StagedIInv'
<1>1. UNCHANGED <<created, fileOf, path, expired, disk, reg, dead, mutex, pc, localVars, late,
                  trim, envVars>>
  BY DEF ResumeJob
<1>2. resuming' \subseteq Jobs
  BY DEF ResumeJob, StagedIInv, CallsTyped, LocalsTyped
<1>3. ServerTyped'
  BY <1>1 DEF StagedIInv, ServerTyped, envVars
<1>4. CASE Schedule(j) /\ UNCHANGED status
  <2>1. WorkersTyped' /\ \A i \in Jobs : work'[i] = work[i] \/ work'[i] = "register"
    <3>1. CASE j \in runs
      BY <1>1, <1>4, <3>1 DEF Schedule, StagedIInv, WorkersTyped
    <3>2. CASE j \notin runs
      <4>1. work \in [Jobs -> WorkerSteps] /\ "register" \in WorkerSteps /\ "register" # "none"
        BY WorkerStepsExist DEF StagedIInv, WorkersTyped
      <4>2. /\ work' \in [Jobs -> WorkerSteps]
            /\ \A i \in Jobs : work'[i] = IF i = j THEN "register" ELSE work[i]
        BY <1>4, <3>2, <4>1 DEF Schedule
      <4>3. runs' = {i \in Jobs : work'[i] # "none"}
        BY <1>4, <3>2, <4>1, <4>2 DEF Schedule, StagedIInv, WorkersTyped
      <4>4. QED
        BY <1>1, <1>4, <3>2, <4>2, <4>3 DEF Schedule, StagedIInv, WorkersTyped
    <3>3. QED
      BY <3>1, <3>2
  <2>2. ASSUME NEW i \in Jobs PROVE WholeFits(i)'
    <3>1. WholeFits(i) /\ disk'[i] = disk[i] /\ status'[i] = status[i]
          /\ (work'[i] = work[i] \/ work'[i] = "register")
      BY <1>1, <1>4, <2>1 DEF StagedIInv
    <3>2. QED
      BY <3>1 DEF WholeFits, Published, Transferring
  <2>3. RowsTyped' /\ OneTransferPerFile' /\ Starts' /\ Deals' /\ disk' \in [Jobs -> DiskStates]
    BY <1>1, <1>4 DEF StagedIInv, RowsTyped, OneTransferPerFile, Starts, Active, Deals, localVars
  <2>4. CallsTyped'
    BY <1>1, <1>2 DEF StagedIInv, CallsTyped, LocalsTyped, localVars
  <2>5. QED
    BY <1>3, <2>1, <2>2, <2>3, <2>4 DEF StagedIInv
<1>5. CASE status' = [status EXCEPT ![j] = IF Row(j) THEN "failed" ELSE @] /\ UNCHANGED <<runs, work>>
  <2>1. status \in [Jobs -> Statuses] /\ "failed" \in Statuses
    BY DEF StagedIInv, RowsTyped, Statuses, Terminal
  <2>2. \A i \in Jobs : status'[i] = status[i] \/ (status'[i] = "failed" /\ status[i] # "gone")
    BY <1>5, <2>1 DEF Row
  <2>3. status' \in [Jobs -> Statuses]
    BY <1>5, <2>1
  <2>4. RowsSettle
    BY <1>1, <2>2, <2>3, PathsTyped DEF RowsSettle, Live
  <2>5. RowsTyped' /\ OneTransferPerFile' /\ \A f : Active(f)' \subseteq Active(f)
    BY <2>4, RowsStay
  <2>6. WorkersTyped' /\ Deals' /\ disk' \in [Jobs -> DiskStates]
    BY <1>1, <1>5 DEF StagedIInv, WorkersTyped, Deals, localVars
  <2>7. CallsTyped'
    BY <1>1, <1>2 DEF StagedIInv, CallsTyped, LocalsTyped, localVars
  <2>8. ASSUME NEW i \in Jobs PROVE WholeFits(i)'
    BY <1>1, <1>5, <2>2 DEF StagedIInv, WholeFits
  <2>9. ASSUME NEW q \in Calls, pc'[q] \in Making PROVE mutex' = q /\ Active(file[q])' = {}
    <3>1. mutex' = q /\ Active(file[q]) = {} /\ file'[q] = file[q]
      BY <1>1, <2>9 DEF StagedIInv, Starts, localVars
    <3>2. ASSUME NEW f, f = file'[q] PROVE {i \in Jobs : status'[i] \in Live /\ fileOf'[i] = f} = {}
      BY <2>5, <3>1, <3>2 DEF Active
    <3>3. QED
      BY <3>1, <3>2 DEF Active
  <2>10. Starts'
    BY <2>9 DEF Starts
  <2>11. QED
    BY <1>3, <2>5, <2>6, <2>7, <2>8, <2>10 DEF StagedIInv
<1>6. QED
  BY <1>4, <1>5 DEF ResumeJob

\* Nothing is in memory: as after a start of the server.
Empty ==
  /\ runs = {} /\ reg = {} /\ dead = {}
  /\ work = [j \in Jobs |-> "none"]
  /\ mutex = "free"
  /\ pc = [p \in Calls |-> "idle"]
  /\ job = [p \in Calls |-> 0]
  /\ list = [p \in Calls |-> {}]
  /\ used = [p \in Calls |-> 0]
  /\ cap = [p \in Calls |-> 0]
  /\ late = {} /\ trim = {} /\ resuming = {}
  /\ created \in Nat /\ file \in [Calls -> Files]

MemoryFits == WorkersTyped /\ CallsTyped /\ Starts /\ Deals

LEMMA EmptyFits == Empty => MemoryFits
<1>1. SUFFICES ASSUME Empty PROVE MemoryFits
  OBVIOUS
<1>2. WorkersTyped
  <2>1. work = [j \in Jobs |-> "none"] /\ runs = {} /\ reg = {} /\ dead = {}
    BY <1>1 DEF Empty
  <2>2. work \in [Jobs -> WorkerSteps]
    BY <2>1 DEF WorkerSteps
  <2>3. runs = {j \in Jobs : work[j] # "none"}
    BY <2>1
  <2>4. QED
    BY <2>1, <2>2, <2>3 DEF WorkersTyped
<1>3. \A p \in Calls : pc[p] = "idle"
  BY <1>1 DEF Empty
<1>4. pc \in [Calls -> CallSteps]
  BY <1>1, StepsExist DEF Empty
<1>5. LocalsTyped
  <2>1. 0 \in 0..created /\ {} \in SUBSET (1..created)
    BY <1>1 DEF Empty
  <2>2. QED
    BY <1>1, <2>1 DEF Empty, LocalsTyped
<1>6. CallsTyped
  BY <1>1, <1>4, <1>5 DEF CallsTyped, Empty
<1>7. QED
  BY <1>2, <1>3, <1>6 DEF MemoryFits, Starts, Deals, Making, Dealing

LEMMA CrashKeeps ==
  ASSUME StagedIInv, Crash
  PROVE  StagedIInv'
<1>1. UNCHANGED <<created, fileOf, status, path, expired, disk, file, limit, resizes>>
  BY DEF Crash, rowVars
<1>2. created \in Nat /\ file \in [Calls -> Files]
  BY Numbers DEF StagedIInv, CallsTyped, LocalsTyped
<1>3. Empty'
  BY <1>1, <1>2 DEF Crash, Empty
<1>4. MemoryFits'
  BY <1>3, EmptyFits, PTL
<1>5. WorkersTyped' /\ CallsTyped' /\ Starts' /\ Deals'
  BY <1>4 DEF MemoryFits
<1>6. RowsTyped' /\ OneTransferPerFile' /\ disk' \in [Jobs -> DiskStates]
  BY <1>1 DEF StagedIInv, RowsTyped, OneTransferPerFile
<1>7. ServerTyped'
  BY <1>1, BoundsAssumption DEF Crash, StagedIInv, ServerTyped
<1>8. ASSUME NEW j \in Jobs PROVE WholeFits(j)'
  <2>1. work'[j] = "none"
    BY DEF Crash
  <2>2. QED
    BY <1>1, <2>1 DEF StagedIInv, WholeFits, Published, Transferring
<1>9. QED
  BY <1>5, <1>6, <1>7, <1>8 DEF StagedIInv

LEMMA StagedInit == Init => StagedIInv
<1>1. SUFFICES ASSUME Init PROVE StagedIInv
  OBVIOUS
<1>2. MaxJobs \in Nat /\ MaxResizes \in Nat /\ MaxCrashes \in Nat /\ MaxResumes \in Nat
  BY BoundsAssumption
<1>3. (CHOOSE f \in Files : TRUE) \in Files
  BY FilesAssumption
<1>4. created \in Nat /\ file \in [Calls -> Files] /\ fileOf \in [Jobs -> Files]
  BY <1>1, <1>3 DEF Init
<1>5. Empty
  BY <1>1, <1>4 DEF Init, Empty
<1>6. WorkersTyped /\ CallsTyped /\ Starts /\ Deals
  BY <1>5, EmptyFits DEF MemoryFits
<1>7. RowsTyped
  BY <1>1, <1>2, <1>4 DEF Init, RowsTyped, Statuses
<1>8. ServerTyped
  BY <1>1, <1>2 DEF Init, ServerTyped
<1>9. disk \in [Jobs -> DiskStates] /\ OneTransferPerFile
  BY <1>1 DEF Init, DiskStates, OneTransferPerFile, Live
<1>10. \A j \in Jobs : WholeFits(j)
  BY <1>1 DEF Init, WholeFits, Published, Transferring
<1>11. QED
  BY <1>6, <1>7, <1>8, <1>9, <1>10 DEF StagedIInv

LEMMA StepsKeep ==
  ASSUME StagedIInv, NEW p \in Calls
  PROVE  /\ StartStep(p) => StagedIInv'
         /\ CancelStep(p) => StagedIInv'
         /\ DeleteStep(p) => StagedIInv'
         /\ ReadStep(p) => StagedIInv'
         /\ SweepStep(p) => StagedIInv'
         /\ PurgeStep(p) => StagedIInv'
<1>1. CASE StartStep(p)
  BY <1>1, DropRowKeeps, LockStageKeeps, RoomKeeps, CandidatesKeeps, EvictKeeps, EvictRowKeeps,
     InsertKeeps DEF StartStep
<1>2. ASSUME CancelStep(p) PROVE StagedIInv'
  <2>1. "k_remove" \in Dealing /\ "k_status" \in CallSteps /\ "k_status" \notin Making
    BY StepsExist DEF Dealing, Making
  <2>2. QED
    BY <1>2, <2>1, RemoveStagedFileKeeps, CancelStatusKeeps, CancelPathKeeps DEF CancelStep
<1>3. ASSUME DeleteStep(p) PROVE StagedIInv'
  <2>1. "d_remove" \in Dealing /\ "d_row" \in CallSteps /\ "d_row" \notin Making
    BY StepsExist DEF Dealing, Making
  <2>2. QED
    BY <1>3, <2>1, RemoveStagedFileKeeps, DeleteDownloadKeeps DEF DeleteStep
<1>4. CASE ReadStep(p)
  <2>1. {"x_remove", "x_path"} \subseteq Dealing /\ {"x_path", "x_status"} \subseteq CallSteps \ Making
    BY StepsExist DEF Dealing, Making
  <2>2. QED
    BY <1>4, <2>1, RemoveStagedFileKeeps, ExpirePathKeeps, ExpireStatusKeeps DEF ReadStep
<1>5. CASE SweepStep(p)
  <2>1. "w_path" \in Dealing /\ "w_status" \in CallSteps /\ "w_status" \notin Making
    BY StepsExist DEF Dealing, Making
  <2>2. QED
    BY <1>5, <2>1, SweepUsageKeeps, SweepNextKeeps, ExpirePathKeeps, SweepStatusKeeps,
       SweepTrimKeeps, RemoveOrphansKeeps DEF SweepStep
<1>6. CASE PurgeStep(p)
  BY <1>2, <1>3, <1>6, PurgeNextKeeps, PurgeRowKeeps, PurgeListKeeps, PurgeRestKeeps, SkipRowKeeps,
     RemoveOrphansKeeps DEF PurgeStep
<1>7. QED
  BY <1>1, <1>2, <1>3, <1>4, <1>5, <1>6

LEMMA StagedNext == StagedIInv /\ [Next]_vars => StagedIInv'
<1>1. SUFFICES ASSUME StagedIInv, [Next]_vars PROVE StagedIInv'
  OBVIOUS
<1>2. ASSUME NEW s \in Starters, StartStep(s) \/ Abandon(s) \/ \E f \in Files : StartStaged(s, f)
      PROVE  StagedIInv'
  BY <1>1, <1>2, StepsKeep, AbandonKeeps, StartStagedKeeps DEF Calls
<1>3. ASSUME NEW k \in Cancellers, CancelStep(k) \/ Abandon(k) \/ \E j \in Jobs : CancelStaged(k, j)
      PROVE  StagedIInv'
  BY <1>1, <1>3, StepsKeep, AbandonKeeps, CancelStagedKeeps DEF Calls
<1>4. ASSUME NEW d \in Deleters,
             DeleteStep(d) \/ Abandon(d) \/ \E j \in Jobs : DeleteStaged(d, j) \/ PurgeHistory(d, j)
      PROVE  StagedIInv'
  BY <1>1, <1>4, StepsKeep, AbandonKeeps, DeleteStagedKeeps, PurgeHistoryKeeps DEF Calls
<1>5. ASSUME NEW x \in Readers, ReadStep(x) \/ Abandon(x) \/ \E j \in Jobs : StagedFile(x, j)
      PROVE  StagedIInv'
  BY <1>1, <1>5, StepsKeep, AbandonKeeps, StagedFileKeeps DEF Calls
<1>6. ASSUME NEW w \in Sweepers, SweepCache(w) \/ SweepStep(w)
      PROVE  StagedIInv'
  BY <1>1, <1>6, StepsKeep, SweepCacheKeeps DEF Calls
<1>7. ASSUME NEW p \in Purgers, PurgeCache(p) \/ PurgeStep(p) \/ Abandon(p)
      PROVE  StagedIInv'
  BY <1>1, <1>7, StepsKeep, PurgeCacheKeeps, AbandonKeeps DEF Calls
<1>8. ASSUME NEW j \in Jobs, WorkerStep(j)
      PROVE  StagedIInv'
  BY <1>1, <1>8, RegisterKeeps, LeaseKeeps, RunKeeps, MkdirKeeps, DestKeeps, CreateKeeps, CopyKeeps,
     PublishKeeps, DateKeeps, ReadyKeeps, CleanKeeps, FailKeeps, FailedKeeps DEF WorkerStep
<1>9. ASSUME NEW j \in Jobs, ResumeJob(j) \/ Expire(j)
      PROVE  StagedIInv'
  BY <1>1, <1>9, ResumeJobKeeps, ExpireKeeps
<1>10. ASSUME ResumeStaged \/ (\E n \in Limits : SetLimit(n)) \/ Crash
       PROVE  StagedIInv'
  BY <1>1, <1>10, ResumeStagedKeeps, SetLimitKeeps, CrashKeeps
<1>11. CASE UNCHANGED vars
  <2>1. UNCHANGED <<rowVars, disk, workerVars, mutex, pc, localVars, late, trim, resuming, envVars>>
    BY <1>11 DEF vars, rowVars, workerVars, localVars, envVars
  <2>2. ServerTyped' /\ resuming' \subseteq Jobs
    BY <1>1, <2>1 DEF StagedIInv, ServerTyped, CallsTyped, LocalsTyped, envVars
  <2>3. QED
    BY <1>1, <2>1, <2>2, ServerKeeps
<1>12. CASE Next
  BY <1>2, <1>3, <1>4, <1>5, <1>6, <1>7, <1>8, <1>9, <1>10, <1>12 DEF Next, NextOf
<1>13. QED
  BY <1>1, <1>11, <1>12

\* StagedIInv is inductive: with it goes everything a request is told about a
\* staged file.
THEOREM StagedInvariantHolds == Spec => []StagedIInv
  BY StagedInit, StagedNext, PTL DEF Spec

\* Two requests for a file wait on one transfer, and a row that says ready has its
\* whole file on disk or none, whatever starts, cancels, deletes, reads, sweeps and
\* clears the cache at once, through restarts and resumed workers (StartStaged,
\* runStaged, CancelStaged, SweepCache, PurgeCache, ResumeStaged).
THEOREM StagedAreSound == Spec => []StagedSound
  BY StagedInvariantHolds, StagedFollows, PTL

-----------------------------------------------------------------------------
(* Bytes are found again, as long as no worker is resumed.                 *)

\* The steps of a call that end with its clearing a path or writing a row off, and
\* those of a sweep that knows which rows it works on.
Clearing == {"x_remove", "x_path", "x_status", "k_path", "w_path", "w_status"}
Sweeping == {"w_usage", "w_next", "w_path", "w_status", "w_trim"}

\* Without restarts a job has one worker, which has written nothing before it
\* makes the directory and has removed everything before it reports a failure.
BytesFit(j) ==
  /\ work[j] # "none" => status[j] \in Live \cup {"cancelled", "gone"}
  /\ work[j] \in {"register", "lease", "run", "mkdir", "fail", "failed"} => disk[j] = "none"
  /\ (work[j] = "ready" /\ status[j] = "running") => j \in path
  /\ status[j] \in {"failed", "expired"} => disk[j] = "none"
  /\ status[j] = "ready" => j \in path \/ disk[j] = "none"
  /\ j \in expired \cup late => work[j] = "none" /\ status[j] \notin Live
  /\ j > created => disk[j] = "none" /\ work[j] = "none"

\* Whoever is about to clear a path or to write a job off has removed its bytes,
\* or its row is past being ready.
ClearsFit(p) ==
  LET j == job[p] IN
  /\ pc[p] \in {"x_remove", "x_path", "x_status"} => work[j] = "none" /\ status[j] \notin Live
  /\ pc[p] \in {"x_path", "x_status"} => disk[j] = "none"
  /\ pc[p] = "k_path" => status[j] \notin Live \cup {"ready"}
  /\ pc[p] = "w_path" =>
       \/ disk[j] = "none" /\ work[j] = "none" /\ status[j] \notin Live
       \/ status[j] \notin Live \cup {"ready"}
  /\ (pc[p] \in {"w_path", "w_status"} /\ j \in late) => disk[j] = "none"

\* A sweep holds stageMu, and what it has read as doomed is not live.
SweepFits(p) ==
  pc[p] \in Sweeping => mutex = p /\ \A j \in list[p] : status[j] \notin Live

BytesIInv ==
  /\ \A j \in Jobs : BytesFit(j)
  /\ \A p \in Calls : ClearsFit(p) /\ SweepFits(p)
  /\ resuming = {}

LEMMA BytesFollow == BytesIInv => NoLostBytes
  BY DEF BytesIInv, BytesFit, NoLostBytes, Terminal

\* A path goes with the row, or from a row that has ended, or after the bytes; a
\* row is written off after the bytes.
Tidy(j) ==
  /\ j \in path \ path' =>
       \/ status'[j] \notin Live \cup {"ready"}
       \/ disk'[j] = "none" /\ status[j] \notin Live
  /\ (status'[j] \in {"failed", "expired"} /\ status'[j] # status[j]) =>
       disk'[j] = "none" /\ work[j] = "none"

\* Only a sweep that has just taken stageMu reads what is late.
LateKept == late' \subseteq late \/ (mutex = "free" /\ late' \subseteq expired)

\* What the steps of a call leave of the jobs.
LEMMA JobsStayFit ==
  ASSUME StagedIInv, BytesIInv, RowsSettle, WorkersKeep, DiskShrinks, LateKept,
         \A j \in Jobs : Tidy(j)
  PROVE  \A j \in Jobs : BytesFit(j)'
<1>1. ASSUME NEW j \in Jobs PROVE BytesFit(j)'
  <2>1. BytesFit(j) /\ Tidy(j)
    BY DEF BytesIInv
  <2>2. work'[j] = work[j] /\ created' = created /\ disk'[j] \in {disk[j], "none"}
    BY DEF WorkersKeep, RowsSettle, DiskShrinks
  <2>3. status'[j] = status[j] \/ status'[j] \notin Live \cup {"ready"}
    BY DEF RowsSettle
  <2>4. expired' \subseteq expired /\ path' \subseteq path
    BY DEF RowsSettle
  <2>5. status'[j] \in Statuses /\ status[j] \in Statuses
    BY DEF RowsSettle, StagedIInv, RowsTyped
  <2>6. work'[j] # "none" => status'[j] \in Live \cup {"cancelled", "gone"}
    BY <2>1, <2>2, <2>3, <2>5 DEF BytesFit, Tidy, Statuses, Terminal, Live
  <2>7. work'[j] \in {"register", "lease", "run", "mkdir", "fail", "failed"} => disk'[j] = "none"
    BY <2>1, <2>2 DEF BytesFit
  <2>8. (work'[j] = "ready" /\ status'[j] = "running") => j \in path'
    BY <2>1, <2>2, <2>3 DEF BytesFit, Tidy, Live
  <2>9. status'[j] \in {"failed", "expired"} => disk'[j] = "none"
    BY <2>1, <2>2 DEF BytesFit, Tidy
  <2>10. status'[j] = "ready" => j \in path' \/ disk'[j] = "none"
    BY <2>1, <2>2, <2>3 DEF BytesFit, Tidy
  <2>11. j \in expired' \cup late' => work'[j] = "none" /\ status'[j] \notin Live
    BY <2>1, <2>2, <2>3, <2>4 DEF BytesFit, LateKept
  <2>12. j > created' => disk'[j] = "none" /\ work'[j] = "none"
    BY <2>1, <2>2 DEF BytesFit
  <2>13. QED
    BY <2>6, <2>7, <2>8, <2>9, <2>10, <2>11, <2>12 DEF BytesFit
<1>2. QED
  BY <1>1

\* What they leave of another call.
LEMMA OthersStayFit ==
  ASSUME StagedIInv, BytesIInv, RowsSettle, WorkersKeep, DiskShrinks, LateKept,
         NEW p \in Calls, NEW q \in Calls, q # p, MutexMoves(p),
         pc'[q] = pc[q], job'[q] = job[q], list'[q] = list[q]
  PROVE  ClearsFit(q)' /\ SweepFits(q)'
<1>1. ClearsFit(q) /\ SweepFits(q)
  BY DEF BytesIInv
<1>2. ASSUME pc[q] \in Sweeping
      PROVE  mutex' = q /\ late' \subseteq late /\ \A j \in list'[q] : status'[j] \notin Live
  <2>1. mutex = q /\ mutex # "free" /\ \A j \in list[q] : status[j] \notin Live
    BY <1>1, <1>2, FreeAssumption DEF SweepFits
  <2>2. mutex' = q /\ late' \subseteq late
    BY <2>1 DEF MutexMoves, LateKept
  <2>3. \A j \in list[q] : j \in Jobs
    BY JobOf, Numbers
  <2>4. QED
    BY <2>1, <2>2, <2>3 DEF RowsSettle
<1>3. SweepFits(q)'
  BY <1>2 DEF SweepFits
<1>4. ASSUME pc[q] \in Clearing PROVE ClearsFit(q)'
  <2>1. job[q] \in Jobs
    BY <1>4, JobTaken DEF Clearing, Dealing
  <2> DEFINE j == job[q]
  <2>2. work'[j] = work[j] /\ disk'[j] \in {disk[j], "none"}
    BY <2>1 DEF WorkersKeep, DiskShrinks
  <2>3. status'[j] = status[j] \/ status'[j] \notin Live \cup {"ready"}
    BY <2>1 DEF RowsSettle
  <2>4. pc[q] \in {"w_path", "w_status"} => late' \subseteq late
    BY <1>2 DEF Sweeping
  <2>5. QED
    BY <1>1, <2>2, <2>3, <2>4 DEF ClearsFit
<1>5. ASSUME pc[q] \notin Clearing PROVE ClearsFit(q)'
  BY <1>5 DEF Clearing, ClearsFit
<1>6. QED
  BY <1>3, <1>4, <1>5

\* A step of one call keeps the invariant when it is tidy and leaves the call itself
\* where it may be.
LEMMA BytesCall ==
  ASSUME StagedIInv, BytesIInv, RowsSettle, WorkersKeep, DiskShrinks, LateKept,
         \A j \in Jobs : Tidy(j), UNCHANGED resuming,
         NEW p \in Calls, MutexMoves(p), ClearsFit(p)', SweepFits(p)',
         \A q \in Calls \ {p} : pc'[q] = pc[q] /\ job'[q] = job[q] /\ list'[q] = list[q]
  PROVE  BytesIInv'
<1>1. \A j \in Jobs : BytesFit(j)'
  BY JobsStayFit
<1>2. \A q \in Calls : ClearsFit(q)' /\ SweepFits(q)'
  BY OthersStayFit
<1>3. QED
  BY <1>1, <1>2 DEF BytesIInv

LEMMA TidySame ==
  ASSUME UNCHANGED rowVars
  PROVE  \A j : Tidy(j)
  BY DEF Tidy, rowVars

LEMMA TidyDelete ==
  ASSUME StagedIInv, NEW j, DeleteRow(j)
  PROVE  \A i \in Jobs : Tidy(i)
<1>1. status' = [status EXCEPT ![j] = "gone"] /\ path' = path \ {j} /\ status \in [Jobs -> Statuses]
  BY DEF DeleteRow, ClearPath, StagedIInv, RowsTyped
<1>2. ASSUME NEW i \in Jobs PROVE Tidy(i)
  <2>1. CASE i = j
    BY <1>1, <2>1 DEF Tidy, Live
  <2>2. CASE i # j
    BY <1>1, <2>2 DEF Tidy
  <2>3. QED
    BY <2>1, <2>2
<1>3. QED
  BY <1>2

\* The steps of a call at which there is nothing more to know of it.
LEMMA BytesPlain ==
  ASSUME StagedIInv, BytesIInv, RowsSettle, WorkersKeep, DiskShrinks,
         \A j \in Jobs : Tidy(j), UNCHANGED <<late, resuming>>,
         NEW p \in Calls, NEW step, step \notin Clearing \cup Sweeping, Goto(p, step), MutexMoves(p),
         \A q \in Calls \ {p} : job'[q] = job[q] /\ list'[q] = list[q]
  PROVE  BytesIInv'
<1>1. pc'[p] = step /\ \A q \in Calls \ {p} : pc'[q] = pc[q]
  BY DEF Goto, StagedIInv, CallsTyped
<1>2. ClearsFit(p)' /\ SweepFits(p)'
  BY <1>1 DEF ClearsFit, SweepFits, Clearing, Sweeping
<1>3. LateKept
  BY DEF LateKept
<1>4. QED
  BY <1>1, <1>2, <1>3, BytesCall

LEMMA BytesReturn ==
  ASSUME StagedIInv, BytesIInv, RowsSettle, WorkersKeep, DiskShrinks, \A j \in Jobs : Tidy(j),
         NEW p \in Calls, Return(p)
  PROVE  BytesIInv'
<1>1. \A q \in Calls \ {p} : job'[q] = job[q] /\ list'[q] = list[q]
  BY DEF Return, StagedIInv, CallsTyped, LocalsTyped
<1>2. Goto(p, "idle") /\ MutexMoves(p) /\ UNCHANGED <<late, resuming>>
  BY DEF Return, MutexMoves, sweepVars
<1>3. "idle" \notin Clearing \cup Sweeping
  BY DEF Clearing, Sweeping
<1>4. QED
  BY <1>1, <1>2, <1>3, BytesPlain

LEMMA BytesContinue ==
  ASSUME StagedIInv, BytesIInv, RowsSettle, WorkersKeep, DiskShrinks, \A j \in Jobs : Tidy(j),
         NEW p \in Calls, NEW step, step \notin Clearing \cup Sweeping, Continue(p, step)
  PROVE  BytesIInv'
<1>1. Goto(p, step) /\ MutexMoves(p) /\ UNCHANGED <<job, list, late, resuming>>
  BY DEF Continue, MutexMoves, localVars, sweepVars
<1>2. QED
  BY <1>1, BytesPlain

LEMMA BytesTakeUp ==
  ASSUME StagedIInv, BytesIInv, RowsSettle, WorkersKeep, DiskShrinks, \A j \in Jobs : Tidy(j),
         NEW p \in Calls, NEW j, NEW step, step \notin Clearing \cup Sweeping, TakeUp(p, j, step)
  PROVE  BytesIInv'
<1>1. Goto(p, step) /\ MutexMoves(p) /\ UNCHANGED <<list, late, resuming>>
  BY DEF TakeUp, MutexMoves, sweepVars
<1>2. \A q \in Calls \ {p} : job'[q] = job[q]
  BY DEF TakeUp, StagedIInv, CallsTyped, LocalsTyped
<1>3. QED
  BY <1>1, <1>2, BytesPlain

\* A step of a call that touches no row and no worker and takes up a new job or none.
LEMMA BytesQuiet ==
  ASSUME StagedIInv, BytesIInv, UNCHANGED <<rowVars, disk, workerVars, envVars>>
  PROVE  RowsSettle /\ WorkersKeep /\ DiskShrinks /\ \A j \in Jobs : Tidy(j)
  BY SettleSame, KeepsSame, ShrinkSame, TidySame

LEMMA BytesStartStep ==
  ASSUME StagedIInv, BytesIInv, NEW s \in Calls, StartStep(s), ~Insert(s)
  PROVE  BytesIInv'
<1>1. CASE DropRow(s)
  <2>1. RowsSettle /\ WorkersKeep /\ DiskShrinks /\ \A j \in Jobs : Tidy(j)
    BY <1>1, SettleDelete, KeepsSame, ShrinkSame, TidyDelete DEF DropRow
  <2>2. "lock" \notin Clearing \cup Sweeping /\ TakeUp(s, 0, "lock")
    BY <1>1 DEF Clearing, Sweeping, DropRow
  <2>3. QED
    BY <2>1, <2>2, BytesTakeUp
<1>2. CASE LockStage(s)
  <2>1. RowsSettle /\ WorkersKeep /\ DiskShrinks /\ \A j \in Jobs : Tidy(j)
    BY <1>2, BytesQuiet DEF LockStage
  <2>2. CASE Return(s)
    BY <2>1, <2>2, BytesReturn
  <2>3. CASE mutex = "free" /\ mutex' = s /\ Goto(s, "room") /\ UNCHANGED <<localVars, sweepVars>>
    <3>1. MutexMoves(s) /\ UNCHANGED <<job, list, late, resuming>> /\ "room" \notin Clearing \cup Sweeping
      BY <2>3 DEF MutexMoves, localVars, sweepVars, Clearing, Sweeping
    <3>2. QED
      BY <2>1, <2>3, <3>1, BytesPlain
  <2>4. QED
    BY <1>2, <2>2, <2>3 DEF LockStage
<1>3. CASE Room(s)
  <2>1. RowsSettle /\ WorkersKeep /\ DiskShrinks /\ \A j \in Jobs : Tidy(j)
    BY <1>3, BytesQuiet DEF Room
  <2>2. PICK step \in {"insert", "candidates"} : Goto(s, step)
    BY <1>3 DEF Room
  <2>3. MutexMoves(s) /\ UNCHANGED <<job, list, late, resuming>> /\ step \notin Clearing \cup Sweeping
    BY <1>3 DEF Room, MutexMoves, sweepVars, Clearing, Sweeping
  <2>4. QED
    BY <2>1, <2>2, <2>3, BytesPlain
<1>4. CASE Candidates(s)
  <2>1. RowsSettle /\ WorkersKeep /\ DiskShrinks /\ \A j \in Jobs : Tidy(j)
    BY <1>4, BytesQuiet DEF Candidates
  <2>2. MutexMoves(s) /\ UNCHANGED <<job, late, resuming>> /\ "evict" \notin Clearing \cup Sweeping
    BY <1>4 DEF Candidates, MutexMoves, sweepVars, Clearing, Sweeping
  <2>3. Goto(s, "evict") /\ \A q \in Calls \ {s} : list'[q] = list[q]
    BY <1>4 DEF Candidates, StagedIInv, CallsTyped, LocalsTyped
  <2>4. QED
    BY <2>1, <2>2, <2>3, BytesPlain
<1>5. CASE Evict(s)
  <2>1. RowsSettle /\ WorkersKeep /\ \A j \in Jobs : Tidy(j)
    BY <1>5, SettleSame, KeepsSame, TidySame DEF Evict
  <2>2. CASE Continue(s, "insert") /\ UNCHANGED disk
    <3>1. DiskShrinks /\ "insert" \notin Clearing \cup Sweeping
      BY <2>2, ShrinkSame DEF Clearing, Sweeping
    <3>2. QED
      BY <2>1, <2>2, <3>1, BytesContinue
  <2>3. CASE Return(s) /\ UNCHANGED disk
    BY <2>1, <2>3, ShrinkSame, BytesReturn
  <2>4. ASSUME NEW j \in list[s],
               disk' = [disk EXCEPT ![j] = "none"], job' = [job EXCEPT ![s] = j],
               list' = [list EXCEPT ![s] = @ \ {j}], Goto(s, "evictRow"),
               UNCHANGED <<mutex, file, used, cap, sweepVars>>
        PROVE  BytesIInv'
    <3>1. DiskShrinks /\ "evictRow" \notin Clearing \cup Sweeping
      BY <2>4, ShrinkRemove DEF Clearing, Sweeping
    <3>2. MutexMoves(s) /\ UNCHANGED <<late, resuming>>
      BY <2>4 DEF MutexMoves, sweepVars
    <3>3. \A q \in Calls \ {s} : job'[q] = job[q] /\ list'[q] = list[q]
      BY <2>4 DEF StagedIInv, CallsTyped, LocalsTyped
    <3>4. QED
      BY <2>1, <2>4, <3>1, <3>2, <3>3, BytesPlain
  <2>5. QED
    BY <1>5, <2>2, <2>3, <2>4 DEF Evict
<1>6. CASE EvictRow(s)
  <2>1. WorkersKeep /\ DiskShrinks
    BY <1>6, KeepsSame, ShrinkSame DEF EvictRow
  <2>2. RowsSettle /\ \A j \in Jobs : Tidy(j)
    BY <1>6, SettleDelete, SettleSame, TidyDelete, TidySame DEF EvictRow, rowVars
  <2>3. Goto(s, "evict") /\ MutexMoves(s) /\ UNCHANGED <<list, late, resuming>>
        /\ "evict" \notin Clearing \cup Sweeping
    BY <1>6 DEF EvictRow, MutexMoves, sweepVars, Clearing, Sweeping
  <2>4. \A q \in Calls \ {s} : job'[q] = job[q]
    BY <1>6 DEF EvictRow, StagedIInv, CallsTyped, LocalsTyped
  <2>5. QED
    BY <2>1, <2>2, <2>3, <2>4, BytesPlain
<1>7. QED
  BY <1>1, <1>2, <1>3, <1>4, <1>5, <1>6 DEF StartStep

LEMMA BytesStartStaged ==
  ASSUME StagedIInv, BytesIInv, NEW s \in Calls, NEW f \in Files, StartStaged(s, f)
  PROVE  BytesIInv'
<1>1. RowsSettle /\ WorkersKeep /\ DiskShrinks /\ \A j \in Jobs : Tidy(j)
  BY BytesQuiet DEF StartStaged
<1>2. PICK step \in {"lock", "drop"} : Goto(s, step)
  BY DEF StartStaged
<1>3. MutexMoves(s) /\ UNCHANGED <<list, late, resuming>> /\ step \notin Clearing \cup Sweeping
  BY DEF StartStaged, MutexMoves, sweepVars, Clearing, Sweeping
<1>4. \A q \in Calls \ {s} : job'[q] = job[q]
  BY DEF StartStaged, StagedIInv, CallsTyped, LocalsTyped
<1>5. QED
  BY <1>1, <1>2, <1>3, <1>4, BytesPlain

LEMMA BytesInsert ==
  ASSUME StagedIInv, BytesIInv, NEW s \in Calls, Insert(s)
  PROVE  BytesIInv'
<1>1. pc[s] = "insert" /\ Return(s) /\ UNCHANGED <<path, expired, disk, reg, dead, envVars>>
  BY DEF Insert
<1>2. CASE UNCHANGED <<created, fileOf, status, runs, work>>
  <2>1. RowsSettle /\ WorkersKeep /\ DiskShrinks /\ \A j \in Jobs : Tidy(j)
    BY <1>1, <1>2, BytesQuiet DEF rowVars, workerVars
  <2>2. QED
    BY <1>1, <2>1, BytesReturn
<1>3. CASE /\ created < MaxJobs /\ created' = created + 1
           /\ fileOf' = [fileOf EXCEPT ![created + 1] = file[s]]
           /\ status' = [status EXCEPT ![created + 1] = "pending"]
           /\ Schedule(created + 1)
  <2> DEFINE j == created + 1
  <2>1. created \in Nat /\ j \in Jobs /\ j \notin 1..created /\ j > created /\ \A i \in Jobs : i \in Nat
    BY <1>3, Numbers DEF Jobs
  <2>2. /\ status' = [status EXCEPT ![j] = "pending"] /\ status \in [Jobs -> Statuses]
        /\ work \in [Jobs -> WorkerSteps]
    BY <1>3 DEF StagedIInv, RowsTyped, WorkersTyped
  <2>3. BytesFit(j) /\ work[j] = "none" /\ disk[j] = "none" /\ j \notin runs
    BY <2>1 DEF BytesIInv, BytesFit, StagedIInv, WorkersTyped
  <2>4. work' = [work EXCEPT ![j] = "register"]
    BY <1>3, <2>3 DEF Schedule
  <2>5. status'[j] = "pending" /\ work'[j] = "register"
        /\ \A i \in Jobs \ {j} : status'[i] = status[i] /\ work'[i] = work[i]
    BY <2>1, <2>2, <2>4
  <2>6. j \notin expired /\ j \notin late /\ late' = late /\ resuming' = resuming
    BY <1>1, <2>1 DEF StagedIInv, RowsTyped, CallsTyped, LocalsTyped, Return, sweepVars
  <2>7. ASSUME NEW i \in Jobs PROVE BytesFit(i)'
    <3>1. CASE i = j
      <4>1. ~(j > created')
        BY <1>3, <2>1
      <4>2. QED
        BY <1>1, <2>3, <2>5, <2>6, <3>1, <4>1 DEF BytesFit, Live
    <3>2. CASE i # j
      <4>1. BytesFit(i) /\ (i > created' => i > created)
        BY <1>3, <2>1 DEF BytesIInv
      <4>2. QED
        BY <1>1, <2>5, <2>6, <3>2, <4>1 DEF BytesFit
    <3>3. QED
      BY <3>1, <3>2
  <2>8. ASSUME NEW q \in Calls PROVE ClearsFit(q)' /\ SweepFits(q)'
    <3>1. CASE q = s
      <4>1. pc'[s] = "idle"
        BY <1>1 DEF Return, Goto, StagedIInv, CallsTyped
      <4>2. QED
        BY <3>1, <4>1 DEF ClearsFit, SweepFits, Sweeping
    <3>2. CASE q # s
      <4>1. pc'[q] = pc[q] /\ job'[q] = job[q] /\ list'[q] = list[q]
        BY <1>1, <3>2 DEF Return, Goto, StagedIInv, CallsTyped, LocalsTyped
      <4>2. mutex = s
        BY <1>1 DEF StagedIInv, Starts, Making
      <4>3. ClearsFit(q) /\ SweepFits(q)
        BY DEF BytesIInv
      <4>4. pc[q] \notin Sweeping
        BY <3>2, <4>2, <4>3 DEF SweepFits
      <4>5. ASSUME pc[q] \in Clearing PROVE job[q] \in Jobs \ {j}
        BY <2>1, <4>5, JobTaken DEF Clearing, Dealing
      <4>6. ClearsFit(q)'
        BY <1>1, <2>5, <2>6, <4>1, <4>3, <4>5 DEF ClearsFit, Clearing
      <4>7. QED
        BY <4>1, <4>4, <4>6 DEF SweepFits
    <3>3. QED
      BY <3>1, <3>2
  <2>9. QED
    BY <2>6, <2>7, <2>8 DEF BytesIInv
<1>4. QED
  BY <1>2, <1>3 DEF Insert

LEMMA BytesAbandon ==
  ASSUME StagedIInv, BytesIInv, NEW k \in Calls, Abandon(k)
  PROVE  BytesIInv'
  BY BytesQuiet, BytesReturn DEF Abandon

LEMMA BytesCancelStaged ==
  ASSUME StagedIInv, BytesIInv, NEW k \in Calls, NEW j \in Jobs, CancelStaged(k, j)
  PROVE  BytesIInv'
<1>1. RowsSettle /\ WorkersKeep /\ DiskShrinks /\ \A i \in Jobs : Tidy(i)
  BY SettleSame, KeepsInterrupt, ShrinkSame, TidySame DEF CancelStaged
<1>2. TakeUp(k, j, "k_remove") /\ "k_remove" \notin Clearing \cup Sweeping
  BY DEF CancelStaged, Clearing, Sweeping
<1>3. QED
  BY <1>1, <1>2, BytesTakeUp

LEMMA BytesCancelStep ==
  ASSUME StagedIInv, BytesIInv, NEW k \in Calls, CancelStep(k)
  PROVE  BytesIInv'
<1>1. CASE RemoveStagedFile(k, "k_remove", "k_status")
  <2>1. RowsSettle /\ WorkersKeep /\ DiskShrinks /\ \A j \in Jobs : Tidy(j)
    BY <1>1, SettleSame, KeepsSame, ShrinkRemove, TidySame DEF RemoveStagedFile
  <2>2. Continue(k, "k_status") /\ "k_status" \notin Clearing \cup Sweeping
    BY <1>1 DEF RemoveStagedFile, Clearing, Sweeping
  <2>3. QED
    BY <2>1, <2>2, BytesContinue
<1>2. CASE CancelStatus(k)
  <2> DEFINE j == job[k]
  <2>1. j \in Jobs /\ status \in [Jobs -> Statuses] /\ "cancelled" \in Statuses
    BY <1>2, JobTaken DEF CancelStatus, Dealing, StagedIInv, RowsTyped, Statuses, Terminal
  <2>2. WorkersKeep /\ DiskShrinks /\ UNCHANGED <<created, fileOf, path, expired>>
    BY <1>2, KeepsSame, ShrinkSame DEF CancelStatus
  <2>3. \A i \in Jobs \ {j} : status'[i] = status[i]
    BY <1>2, <2>1 DEF CancelStatus
  <2>4. status'[j] = IF status[j] \in Live \cup {"ready"} THEN "cancelled" ELSE status[j]
    BY <1>2, <2>1 DEF CancelStatus
  <2>5. status' \in [Jobs -> Statuses]
    BY <1>2, <2>1 DEF CancelStatus
  <2>6. /\ \A i \in Jobs : status'[i] = status[i] \/ status'[i] = "cancelled"
        /\ status'[j] \notin Live \cup {"ready"}
        /\ \A i \in Jobs : status[i] = "gone" => status'[i] = "gone"
    BY <2>3, <2>4 DEF Live
  <2>7. RowsSettle /\ \A i \in Jobs : Tidy(i)
    BY <2>2, <2>5, <2>6 DEF RowsSettle, Tidy, Live, StagedIInv, RowsTyped
  <2>8. UNCHANGED <<job, list, late, resuming>> /\ MutexMoves(k) /\ Goto(k, "k_path")
    BY <1>2 DEF CancelStatus, Continue, localVars, sweepVars, MutexMoves
  <2>9. pc'[k] = "k_path" /\ \A q \in Calls \ {k} : pc'[q] = pc[q]
    BY <2>8 DEF Goto, StagedIInv, CallsTyped
  <2>10. ClearsFit(k)' /\ SweepFits(k)'
    BY <2>6, <2>8, <2>9 DEF ClearsFit, SweepFits, Sweeping
  <2>11. LateKept
    BY <2>8 DEF LateKept
  <2>12. QED
    BY <2>2, <2>7, <2>8, <2>9, <2>10, <2>11, BytesCall
<1>3. CASE CancelPath(k)
  <2>1. RowsSettle /\ WorkersKeep /\ DiskShrinks
    BY <1>3, SettleClear, KeepsSame, ShrinkSame DEF CancelPath
  <2>2. status[job[k]] \notin Live \cup {"ready"}
    BY <1>3 DEF CancelPath, BytesIInv, ClearsFit
  <2>3. \A j \in Jobs : Tidy(j)
    BY <1>3, <2>2 DEF Tidy, CancelPath, ClearPath
  <2>4. "p_row" \notin Clearing \cup Sweeping
    BY DEF Clearing, Sweeping
  <2>5. CASE Continue(k, "p_row")
    BY <2>1, <2>3, <2>4, <2>5, BytesContinue
  <2>6. CASE Return(k)
    BY <2>1, <2>3, <2>6, BytesReturn
  <2>7. QED
    BY <1>3, <2>5, <2>6 DEF CancelPath
<1>4. QED
  BY <1>1, <1>2, <1>3 DEF CancelStep

LEMMA BytesDelete ==
  ASSUME StagedIInv, BytesIInv, NEW d \in Calls, NEW j \in Jobs,
         DeleteStaged(d, j) \/ PurgeHistory(d, j)
  PROVE  BytesIInv'
<1>1. RowsSettle /\ WorkersKeep /\ DiskShrinks /\ \A i \in Jobs : Tidy(i)
  BY SettleSame, KeepsInterrupt, KeepsSame, ShrinkSame, TidySame DEF DeleteStaged, PurgeHistory
<1>2. TakeUp(d, j, "d_remove") /\ "d_remove" \notin Clearing \cup Sweeping
  BY DEF DeleteStaged, PurgeHistory, Clearing, Sweeping
<1>3. QED
  BY <1>1, <1>2, BytesTakeUp

LEMMA BytesDeleteStep ==
  ASSUME StagedIInv, BytesIInv, NEW d \in Calls, DeleteStep(d)
  PROVE  BytesIInv'
<1>1. CASE RemoveStagedFile(d, "d_remove", "d_row")
  <2>1. RowsSettle /\ WorkersKeep /\ DiskShrinks /\ \A j \in Jobs : Tidy(j)
    BY <1>1, SettleSame, KeepsSame, ShrinkRemove, TidySame DEF RemoveStagedFile
  <2>2. Continue(d, "d_row") /\ "d_row" \notin Clearing \cup Sweeping
    BY <1>1 DEF RemoveStagedFile, Clearing, Sweeping
  <2>3. QED
    BY <2>1, <2>2, BytesContinue
<1>2. CASE DeleteDownload(d)
  <2>1. RowsSettle /\ WorkersKeep /\ DiskShrinks /\ \A j \in Jobs : Tidy(j)
    BY <1>2, SettleDelete, KeepsSame, ShrinkSame, TidyDelete DEF DeleteDownload
  <2>2. "p_rest" \notin Clearing \cup Sweeping
    BY DEF Clearing, Sweeping
  <2>3. CASE TakeUp(d, 0, "p_rest")
    BY <2>1, <2>2, <2>3, BytesTakeUp
  <2>4. CASE Return(d)
    BY <2>1, <2>4, BytesReturn
  <2>5. QED
    BY <1>2, <2>3, <2>4 DEF DeleteDownload
<1>3. QED
  BY <1>1, <1>2 DEF DeleteStep

LEMMA BytesStagedFile ==
  ASSUME StagedIInv, BytesIInv, NEW x \in Calls, NEW j \in Jobs, StagedFile(x, j)
  PROVE  BytesIInv'
<1>1. /\ RowsSettle /\ WorkersKeep /\ DiskShrinks /\ \A i \in Jobs : Tidy(i)
      /\ work' = work /\ status' = status
  BY BytesQuiet DEF StagedFile, rowVars, workerVars
<1>2. /\ UNCHANGED <<list, late, resuming>> /\ MutexMoves(x)
      /\ pc'[x] = "x_remove" /\ job'[x] = j
      /\ \A q \in Calls \ {x} : pc'[q] = pc[q] /\ job'[q] = job[q]
  BY DEF StagedFile, TakeUp, Goto, MutexMoves, sweepVars, StagedIInv, CallsTyped, LocalsTyped
<1>3. work[j] = "none" /\ status[j] \notin Live
  BY DEF StagedFile, BytesIInv, BytesFit, Live
<1>4. ClearsFit(x)' /\ SweepFits(x)'
  BY <1>1, <1>2, <1>3 DEF ClearsFit, SweepFits, Sweeping
<1>5. LateKept
  BY <1>2 DEF LateKept
<1>6. QED
  BY <1>1, <1>2, <1>4, <1>5, BytesCall

\* A path is cleared by StagedFile or by a sweep.
LEMMA BytesExpirePath ==
  ASSUME StagedIInv, BytesIInv, NEW x \in Calls, NEW from, NEW to, ExpirePath(x, from, to),
         <<from, to>> \in {<<"x_path", "x_status">>, <<"w_path", "w_status">>}
  PROVE  BytesIInv'
<1>1. /\ RowsSettle /\ WorkersKeep /\ DiskShrinks /\ UNCHANGED <<status, disk, work>>
  BY SettleClear, KeepsSame, ShrinkSame DEF ExpirePath, workerVars
<1>2. ClearsFit(x) /\ SweepFits(x) /\ pc[x] = from
  BY DEF BytesIInv, ExpirePath
<1>3. \/ disk[job[x]] = "none" /\ work[job[x]] = "none" /\ status[job[x]] \notin Live
      \/ from = "w_path" /\ status[job[x]] \notin Live \cup {"ready"}
  BY <1>2 DEF ClearsFit
<1>4. \A j \in Jobs : Tidy(j)
  BY <1>1, <1>3 DEF Tidy, ExpirePath, ClearPath
<1>5. /\ UNCHANGED <<mutex, job, list, late, resuming>> /\ MutexMoves(x)
      /\ pc'[x] = to /\ \A q \in Calls \ {x} : pc'[q] = pc[q]
  BY DEF ExpirePath, Continue, Goto, MutexMoves, localVars, sweepVars, StagedIInv, CallsTyped
<1>6. ClearsFit(x)'
  BY <1>1, <1>2, <1>5 DEF ClearsFit
<1>7. SweepFits(x)'
  BY <1>1, <1>2, <1>5 DEF SweepFits, Sweeping
<1>8. LateKept
  BY <1>5 DEF LateKept
<1>9. QED
  BY <1>1, <1>4, <1>5, <1>6, <1>7, <1>8, BytesCall

LEMMA BytesReadStep ==
  ASSUME StagedIInv, BytesIInv, NEW x \in Calls, ReadStep(x)
  PROVE  BytesIInv'
<1>1. CASE RemoveStagedFile(x, "x_remove", "x_path")
  <2>1. /\ RowsSettle /\ WorkersKeep /\ DiskShrinks /\ \A j \in Jobs : Tidy(j)
        /\ UNCHANGED <<status, work>>
    BY <1>1, SettleSame, KeepsSame, ShrinkRemove, TidySame DEF RemoveStagedFile, rowVars, workerVars
  <2>2. /\ UNCHANGED <<mutex, job, list, late, resuming>> /\ MutexMoves(x)
        /\ pc'[x] = "x_path" /\ \A q \in Calls \ {x} : pc'[q] = pc[q]
    BY <1>1 DEF RemoveStagedFile, Continue, Goto, MutexMoves, localVars, sweepVars, StagedIInv, CallsTyped
  <2>3. work[job[x]] = "none" /\ status[job[x]] \notin Live
    BY <1>1 DEF RemoveStagedFile, BytesIInv, ClearsFit
  <2>4. disk'[job[x]] = "none"
    BY <1>1, JobTaken DEF RemoveStagedFile, Dealing, StagedIInv
  <2>5. ClearsFit(x)' /\ SweepFits(x)'
    BY <2>1, <2>2, <2>3, <2>4 DEF ClearsFit, SweepFits, Sweeping
  <2>6. LateKept
    BY <2>2 DEF LateKept
  <2>7. QED
    BY <2>1, <2>2, <2>5, <2>6, BytesCall
<1>2. CASE ExpirePath(x, "x_path", "x_status")
  BY <1>2, BytesExpirePath
<1>3. CASE ExpireStatus(x)
  <2> DEFINE j == job[x]
  <2>1. j \in Jobs /\ status \in [Jobs -> Statuses]
    BY <1>3, JobTaken DEF ExpireStatus, Dealing, StagedIInv, RowsTyped
  <2>2. WorkersKeep /\ DiskShrinks /\ Return(x) /\ UNCHANGED <<created, fileOf, path, expired, disk>>
    BY <1>3, KeepsSame, ShrinkSame DEF ExpireStatus
  <2>3. (status' = [status EXCEPT ![j] = "expired"] /\ Row(j)) \/ status' = status
    BY <1>3, <2>1 DEF ExpireStatus
  <2>4. RowsSettle
    BY <2>1, <2>2, <2>3, SettleExpired
  <2>5. disk[j] = "none" /\ work[j] = "none"
    BY <1>3 DEF ExpireStatus, BytesIInv, ClearsFit
  <2>6. \A i \in Jobs : Tidy(i)
    BY <2>1, <2>2, <2>3, <2>5 DEF Tidy
  <2>7. QED
    BY <2>2, <2>4, <2>6, BytesReturn
<1>4. QED
  BY <1>1, <1>2, <1>3 DEF ReadStep

LEMMA BytesSweepCache ==
  ASSUME StagedIInv, BytesIInv, NEW w \in Calls, SweepCache(w)
  PROVE  BytesIInv'
<1>1. /\ RowsSettle /\ WorkersKeep /\ DiskShrinks /\ \A i \in Jobs : Tidy(i)
      /\ status' = status
  BY BytesQuiet DEF SweepCache, rowVars
<1>2. /\ UNCHANGED <<job, resuming>> /\ MutexMoves(w) /\ mutex' = w
      /\ pc'[w] = "w_usage" /\ \A q \in Calls \ {w} : pc'[q] = pc[q] /\ list'[q] = list[q]
  BY DEF SweepCache, Goto, MutexMoves, StagedIInv, CallsTyped, LocalsTyped
<1>3. LateKept
  BY DEF SweepCache, LateKept
<1>4. \A j \in list'[w] : status[j] \notin Live
  BY DEF SweepCache, Evictable, Terminal, Live, StagedIInv, CallsTyped, LocalsTyped
<1>5. ClearsFit(w)' /\ SweepFits(w)'
  BY <1>1, <1>2, <1>4 DEF ClearsFit, SweepFits
<1>6. QED
  BY <1>1, <1>2, <1>3, <1>5, BytesCall

\* A step within a sweep that reads nothing new and goes on to a step at which there
\* is no path to clear.
LEMMA BytesSweeps ==
  ASSUME StagedIInv, BytesIInv, RowsSettle, WorkersKeep, DiskShrinks, \A j \in Jobs : Tidy(j),
         UNCHANGED <<mutex, list, late, resuming>>, NEW w \in Calls, pc[w] \in Sweeping,
         NEW step \in {"w_next", "w_trim"}, Goto(w, step), \A q \in Calls \ {w} : job'[q] = job[q]
  PROVE  BytesIInv'
<1>1. pc'[w] = step /\ \A q \in Calls \ {w} : pc'[q] = pc[q]
  BY DEF Goto, StagedIInv, CallsTyped
<1>2. \A j \in list[w] : status'[j] \notin Live
  <2>1. \A j \in list[w] : j \in Jobs /\ status[j] \notin Live
    BY JobOf, Numbers DEF BytesIInv, SweepFits
  <2>2. QED
    BY <2>1 DEF RowsSettle
<1>3. mutex' = w /\ MutexMoves(w) /\ LateKept
  BY DEF BytesIInv, SweepFits, MutexMoves, LateKept
<1>4. ClearsFit(w)' /\ SweepFits(w)'
  BY <1>1, <1>2, <1>3 DEF ClearsFit, SweepFits
<1>5. QED
  BY <1>1, <1>3, <1>4, BytesCall

LEMMA BytesSweepNext ==
  ASSUME StagedIInv, BytesIInv, NEW w \in Calls, SweepNext(w)
  PROVE  BytesIInv'
<1>1. /\ RowsSettle /\ WorkersKeep /\ \A i \in Jobs : Tidy(i)
      /\ UNCHANGED <<mutex, late, resuming, status, work>> /\ pc[w] \in Sweeping
  BY SettleSame, KeepsSame, TidySame DEF SweepNext, rowVars, workerVars, Sweeping
<1>2. MutexMoves(w) /\ LateKept
  BY <1>1 DEF MutexMoves, LateKept
<1>3. mutex = w /\ \A j \in list[w] : status[j] \notin Live /\ j \in Jobs
  BY <1>1, JobOf, Numbers DEF BytesIInv, SweepFits
<1>4. ASSUME NEW j \in list[w],
             job' = [job EXCEPT ![w] = j], list' = [list EXCEPT ![w] = @ \ {j}],
             disk' = [disk EXCEPT ![j] = "none"], Goto(w, "w_path")
      PROVE  BytesIInv'
  <2>1. DiskShrinks
    BY <1>4, ShrinkRemove
  <2>2. /\ pc'[w] = "w_path" /\ job'[w] = j /\ list'[w] \subseteq list[w] /\ disk'[j] = "none"
        /\ \A q \in Calls \ {w} : pc'[q] = pc[q] /\ job'[q] = job[q] /\ list'[q] = list[q]
    BY <1>3, <1>4 DEF Goto, StagedIInv, CallsTyped, LocalsTyped
  <2>3. j \in Jobs /\ status[j] \notin Live /\ BytesFit(j)
    BY <1>3 DEF BytesIInv
  <2>4. work[j] = "none" \/ status[j] \notin Live \cup {"ready"}
    BY <2>3 DEF BytesFit
  <2>5. ClearsFit(w)'
    BY <1>1, <2>2, <2>3, <2>4 DEF ClearsFit
  <2>6. SweepFits(w)'
    BY <1>1, <1>3, <2>2 DEF SweepFits
  <2>7. QED
    BY <1>1, <1>2, <2>1, <2>2, <2>5, <2>6, BytesCall
<1>5. ASSUME NEW j \in trim, job' = [job EXCEPT ![w] = j], disk' = [disk EXCEPT ![j] = "none"],
             Goto(w, "w_trim"), UNCHANGED list
      PROVE  BytesIInv'
  <2>1. DiskShrinks /\ \A q \in Calls \ {w} : job'[q] = job[q]
    BY <1>5, ShrinkRemove DEF StagedIInv, CallsTyped, LocalsTyped
  <2>2. QED
    BY <1>1, <1>5, <2>1, BytesSweeps
<1>6. CASE Goto(w, "orphans") /\ UNCHANGED <<job, list, disk>>
  <2>1. DiskShrinks /\ "orphans" \notin Clearing \cup Sweeping
    BY <1>6, ShrinkSame DEF Clearing, Sweeping
  <2>2. QED
    BY <1>1, <1>2, <1>6, <2>1, BytesPlain
<1>7. QED
  BY <1>4, <1>5, <1>6 DEF SweepNext

LEMMA OrphansShrink ==
  ASSUME StagedIInv, NEW p, RemoveOrphans(p)
  PROVE  DiskShrinks
<1>1. disk \in [Jobs -> DiskStates] /\ "none" \in DiskStates
  BY DEF StagedIInv, DiskStates
<1>2. QED
  BY <1>1 DEF RemoveOrphans, DiskShrinks

LEMMA BytesOrphans ==
  ASSUME StagedIInv, BytesIInv, NEW p \in Calls, RemoveOrphans(p)
  PROVE  BytesIInv'
<1>1. RowsSettle /\ WorkersKeep /\ Return(p) /\ \A j \in Jobs : Tidy(j)
  BY SettleSame, KeepsSame, TidySame DEF RemoveOrphans
<1>2. QED
  BY <1>1, OrphansShrink, BytesReturn

LEMMA BytesSweepStep ==
  ASSUME StagedIInv, BytesIInv, NEW w \in Calls, SweepStep(w)
  PROVE  BytesIInv'
<1>1. CASE SweepUsage(w)
  <2>1. RowsSettle /\ WorkersKeep /\ DiskShrinks /\ \A j \in Jobs : Tidy(j)
    BY <1>1, BytesQuiet DEF SweepUsage
  <2>2. Goto(w, "w_next") /\ pc[w] \in Sweeping /\ UNCHANGED <<mutex, job, list, late, resuming>>
    BY <1>1 DEF SweepUsage, Sweeping, sweepVars
  <2>3. QED
    BY <2>1, <2>2, BytesSweeps
<1>2. CASE SweepNext(w)
  BY <1>2, BytesSweepNext
<1>3. CASE ExpirePath(w, "w_path", "w_status")
  BY <1>3, BytesExpirePath
<1>4. CASE SweepStatus(w)
  <2> DEFINE j == job[w]
  <2>1. j \in Jobs /\ status \in [Jobs -> Statuses]
    BY <1>4, JobTaken DEF SweepStatus, Dealing, StagedIInv, RowsTyped
  <2>2. WorkersKeep /\ DiskShrinks /\ UNCHANGED <<created, fileOf, path, expired, disk>>
    BY <1>4, KeepsSame, ShrinkSame DEF SweepStatus
  <2>3. (status' = [status EXCEPT ![j] = "expired"] /\ Row(j) /\ j \in late) \/ status' = status
    BY <1>4, <2>1 DEF SweepStatus
  <2>4. RowsSettle
    BY <2>1, <2>2, <2>3, SettleExpired
  <2>5. j \in late => disk[j] = "none" /\ work[j] = "none"
    BY <1>4, <2>1 DEF SweepStatus, BytesIInv, BytesFit, ClearsFit
  <2>6. \A i \in Jobs : Tidy(i)
    BY <2>1, <2>2, <2>3, <2>5 DEF Tidy
  <2>7. Goto(w, "w_next") /\ pc[w] \in Sweeping /\ UNCHANGED <<mutex, list, late, resuming>>
    BY <1>4 DEF SweepStatus, Sweeping, TakeUp, sweepVars
  <2>8. \A q \in Calls \ {w} : job'[q] = job[q]
    BY <1>4 DEF SweepStatus, TakeUp, StagedIInv, CallsTyped, LocalsTyped
  <2>9. QED
    BY <2>2, <2>4, <2>6, <2>7, <2>8, BytesSweeps
<1>5. CASE SweepTrim(w)
  <2>1. RowsSettle /\ WorkersKeep /\ DiskShrinks /\ \A j \in Jobs : Tidy(j)
    BY <1>5, SettleDelete, KeepsSame, ShrinkSame, TidyDelete DEF SweepTrim
  <2>2. Goto(w, "w_next") /\ pc[w] \in Sweeping /\ UNCHANGED <<mutex, list, late, resuming>>
    BY <1>5 DEF SweepTrim, Sweeping, sweepVars
  <2>3. \A q \in Calls \ {w} : job'[q] = job[q]
    BY <1>5 DEF SweepTrim, StagedIInv, CallsTyped, LocalsTyped
  <2>4. QED
    BY <2>1, <2>2, <2>3, BytesSweeps
<1>6. CASE RemoveOrphans(w)
  BY <1>6, BytesOrphans
<1>7. QED
  BY <1>1, <1>2, <1>3, <1>4, <1>5, <1>6 DEF SweepStep

LEMMA BytesPurgeCache ==
  ASSUME StagedIInv, BytesIInv, NEW p \in Calls, PurgeCache(p)
  PROVE  BytesIInv'
<1>1. RowsSettle /\ WorkersKeep /\ DiskShrinks /\ \A j \in Jobs : Tidy(j)
  BY BytesQuiet DEF PurgeCache
<1>2. MutexMoves(p) /\ UNCHANGED <<job, late, resuming>> /\ "p_next" \notin Clearing \cup Sweeping
  BY DEF PurgeCache, MutexMoves, sweepVars, Clearing, Sweeping
<1>3. Goto(p, "p_next") /\ \A q \in Calls \ {p} : list'[q] = list[q]
  BY DEF PurgeCache, StagedIInv, CallsTyped, LocalsTyped
<1>4. QED
  BY <1>1, <1>2, <1>3, BytesPlain

LEMMA BytesTakesNext ==
  ASSUME StagedIInv, BytesIInv, RowsSettle, WorkersKeep, DiskShrinks, \A j \in Jobs : Tidy(j),
         NEW p \in Calls, NEW j \in list[p],
         job' = [job EXCEPT ![p] = j], list' = [list EXCEPT ![p] = @ \ {j}],
         NEW step, step \notin Clearing \cup Sweeping, Goto(p, step),
         UNCHANGED <<mutex, file, used, cap, sweepVars>>
  PROVE  BytesIInv'
<1>1. MutexMoves(p) /\ UNCHANGED <<late, resuming>>
  BY DEF MutexMoves, sweepVars
<1>2. \A q \in Calls \ {p} : job'[q] = job[q] /\ list'[q] = list[q]
  BY DEF StagedIInv, CallsTyped, LocalsTyped
<1>3. QED
  BY <1>1, <1>2, BytesPlain

LEMMA BytesPurgeStep ==
  ASSUME StagedIInv, BytesIInv, NEW p \in Calls, PurgeStep(p)
  PROVE  BytesIInv'
<1>1. CASE PurgeNext(p)
  <2>1. RowsSettle /\ DiskShrinks /\ UNCHANGED envVars /\ \A j \in Jobs : Tidy(j)
    BY <1>1, SettleSame, ShrinkSame, TidySame DEF PurgeNext
  <2>2. "k_remove" \notin Clearing \cup Sweeping /\ "p_list" \notin Clearing \cup Sweeping
    BY DEF Clearing, Sweeping
  <2>3. ASSUME NEW j \in list[p], Interrupt(j),
               job' = [job EXCEPT ![p] = j], list' = [list EXCEPT ![p] = @ \ {j}],
               Goto(p, "k_remove"), UNCHANGED <<mutex, file, used, cap, sweepVars>>
        PROVE  BytesIInv'
    <3>1. WorkersKeep
      BY <2>1, <2>3, KeepsInterrupt
    <3>2. QED
      BY <2>1, <2>2, <2>3, <3>1, BytesTakesNext
  <2>4. CASE Return(p) /\ UNCHANGED workerVars
    BY <2>1, <2>4, KeepsSame, BytesReturn
  <2>5. CASE Continue(p, "p_list") /\ UNCHANGED workerVars
    BY <2>1, <2>2, <2>5, KeepsSame, BytesContinue
  <2>6. QED
    BY <1>1, <2>3, <2>4, <2>5 DEF PurgeNext
<1>2. CASE CancelStep(p)
  BY <1>2, BytesCancelStep
<1>3. CASE PurgeRow(p)
  <2>1. RowsSettle /\ WorkersKeep /\ DiskShrinks /\ \A j \in Jobs : Tidy(j)
    BY <1>3, SettleDelete, KeepsSame, ShrinkSame, TidyDelete DEF PurgeRow
  <2>2. "p_next" \notin Clearing \cup Sweeping /\ TakeUp(p, 0, "p_next")
    BY <1>3 DEF Clearing, Sweeping, PurgeRow
  <2>3. QED
    BY <2>1, <2>2, BytesTakeUp
<1>4. CASE PurgeList(p)
  <2>1. RowsSettle /\ WorkersKeep /\ DiskShrinks /\ \A j \in Jobs : Tidy(j)
    BY <1>4, BytesQuiet DEF PurgeList
  <2>2. MutexMoves(p) /\ UNCHANGED <<job, late, resuming>> /\ "p_rest" \notin Clearing \cup Sweeping
    BY <1>4 DEF PurgeList, MutexMoves, sweepVars, Clearing, Sweeping
  <2>3. Goto(p, "p_rest") /\ \A q \in Calls \ {p} : list'[q] = list[q]
    BY <1>4 DEF PurgeList, StagedIInv, CallsTyped, LocalsTyped
  <2>4. QED
    BY <2>1, <2>2, <2>3, BytesPlain
<1>5. CASE PurgeRest(p)
  <2>1. RowsSettle /\ WorkersKeep /\ DiskShrinks /\ \A j \in Jobs : Tidy(j)
    BY <1>5, BytesQuiet DEF PurgeRest
  <2>2. "d_remove" \notin Clearing \cup Sweeping /\ "orphans" \notin Clearing \cup Sweeping
    BY DEF Clearing, Sweeping
  <2>3. ASSUME NEW j \in list[p],
               job' = [job EXCEPT ![p] = j], list' = [list EXCEPT ![p] = @ \ {j}],
               Goto(p, "d_remove"), UNCHANGED <<mutex, file, used, cap, sweepVars>>
        PROVE  BytesIInv'
    BY <2>1, <2>2, <2>3, BytesTakesNext
  <2>4. CASE Continue(p, "orphans")
    BY <2>1, <2>2, <2>4, BytesContinue
  <2>5. QED
    BY <1>5, <2>3, <2>4 DEF PurgeRest
<1>6. CASE DeleteStep(p)
  BY <1>6, BytesDeleteStep
<1>7. CASE SkipRow(p)
  <2>1. RowsSettle /\ WorkersKeep /\ DiskShrinks /\ \A j \in Jobs : Tidy(j)
    BY <1>7, BytesQuiet DEF SkipRow
  <2>2. "p_rest" \notin Clearing \cup Sweeping /\ TakeUp(p, 0, "p_rest")
    BY <1>7 DEF Clearing, Sweeping, SkipRow
  <2>3. QED
    BY <2>1, <2>2, BytesTakeUp
<1>8. CASE RemoveOrphans(p)
  BY <1>8, BytesOrphans
<1>9. QED
  BY <1>1, <1>2, <1>3, <1>4, <1>5, <1>6, <1>7, <1>8 DEF PurgeStep

\* A step of one worker keeps the invariant when its own job stays as it should be:
\* no call is about to clear a path or to write a row off behind a worker's back.
LEMMA BytesWorker ==
  ASSUME StagedIInv, BytesIInv, NEW j \in Jobs, work[j] # "none",
         UNCHANGED <<created, callVars>>,
         status'[j] \in Live => status[j] \in Live,
         status'[j] = "ready" => status[j] \in Live,
         \A i \in Jobs \ {j} : /\ status'[i] = status[i] /\ work'[i] = work[i] /\ disk'[i] = disk[i]
                               /\ (i \in path <=> i \in path') /\ (i \in expired <=> i \in expired'),
         BytesFit(j)'
  PROVE  BytesIInv'
<1>1. UNCHANGED <<mutex, pc, job, list, late, resuming>>
  BY DEF callVars, localVars, sweepVars
<1>2. ASSUME NEW i \in Jobs PROVE BytesFit(i)'
  <2>1. CASE i # j
    <3>1. BytesFit(i)
      BY DEF BytesIInv
    <3>2. QED
      BY <1>1, <2>1, <3>1 DEF BytesFit
  <2>2. QED
    BY <2>1
<1>3. ASSUME NEW q \in Calls PROVE ClearsFit(q)'
  <2>1. ClearsFit(q) /\ BytesFit(j)
    BY DEF BytesIInv
  <2>2. CASE pc[q] \in Clearing
    <3>1. job[q] \in Jobs
      BY <2>2, JobTaken DEF Clearing, Dealing
    <3>2. CASE job[q] = j
      BY <1>1, <2>1, <3>2 DEF ClearsFit, BytesFit
    <3>3. CASE job[q] # j
      BY <1>1, <2>1, <3>1, <3>3 DEF ClearsFit
    <3>4. QED
      BY <3>2, <3>3
  <2>3. CASE pc[q] \notin Clearing
    BY <1>1, <2>3 DEF ClearsFit, Clearing
  <2>4. QED
    BY <2>2, <2>3
<1>4. ASSUME NEW q \in Calls PROVE SweepFits(q)'
  <2>1. SweepFits(q) /\ \A i \in list[q] : i \in Jobs
    BY JobOf, Numbers DEF BytesIInv
  <2>2. \A i \in Jobs : status'[i] \in Live => status[i] \in Live
    OBVIOUS
  <2>3. QED
    BY <1>1, <2>1, <2>2 DEF SweepFits
<1>5. QED
  BY <1>1, <1>2, <1>3, <1>4 DEF BytesIInv

\* What holds of a job with a worker.
LEMMA Working ==
  ASSUME StagedIInv, BytesIInv, NEW j \in Jobs, work[j] # "none"
  PROVE  /\ status[j] \in Live \cup {"cancelled", "gone"}
         /\ j \notin expired /\ j \notin late /\ ~(j > created)
         /\ status \in [Jobs -> Statuses] /\ disk \in [Jobs -> DiskStates]
         /\ work \in [Jobs -> WorkerSteps] /\ BytesFit(j)
  BY DEF BytesIInv, BytesFit, StagedIInv, RowsTyped, WorkersTyped

\* A step of a worker that touches neither its row nor the disk.
LEMMA BytesGoesOn ==
  ASSUME StagedIInv, BytesIInv, NEW j \in Jobs, work[j] # "none",
         UNCHANGED <<rowVars, disk, callVars>>, NEW step,
         work'[j] = step, \A i \in Jobs \ {j} : work'[i] = work[i],
         step \in {"register", "lease", "run", "mkdir", "fail", "failed"} => disk[j] = "none",
         step = "ready" => work[j] = "ready"
  PROVE  BytesIInv'
<1>1. UNCHANGED <<created, status, path, expired, late>>
  BY DEF rowVars, callVars, sweepVars
<1>2. BytesFit(j)'
  BY <1>1, Working DEF BytesFit, Live
<1>3. status[j] # "ready"
  BY Working DEF Live
<1>4. QED
  BY <1>1, <1>2, <1>3, BytesWorker

LEMMA BytesRegister ==
  ASSUME StagedIInv, BytesIInv, NEW j \in Jobs, Register(j)
  PROVE  BytesIInv'
<1>1. work[j] # "none" /\ work'[j] = "lease" /\ \A i \in Jobs \ {j} : work'[i] = work[i]
  BY DEF Register, StagedIInv, WorkersTyped
<1>2. disk[j] = "none"
  BY <1>1, Working DEF Register, BytesFit
<1>3. QED
  BY <1>1, <1>2, BytesGoesOn DEF Register

LEMMA BytesLease ==
  ASSUME StagedIInv, BytesIInv, NEW j \in Jobs, Lease(j)
  PROVE  BytesIInv'
<1>1. work[j] # "none" /\ disk[j] = "none"
  BY Working DEF Lease, BytesFit
<1>2. PICK step \in {"run", "fail", "none"} :
        work'[j] = step /\ \A i \in Jobs \ {j} : work'[i] = work[i]
  BY Thens, Exits, WorkerStepsExist DEF Lease
<1>3. QED
  BY <1>1, <1>2, BytesGoesOn DEF Lease

LEMMA BytesRun ==
  ASSUME StagedIInv, BytesIInv, NEW j \in Jobs, Run(j)
  PROVE  BytesIInv'
<1>1. work[j] # "none" /\ disk[j] = "none"
  BY Working DEF Run, BytesFit
<1>2. CASE Exit(j) /\ UNCHANGED status
  <2>1. work'[j] = "none" /\ \A i \in Jobs \ {j} : work'[i] = work[i]
    BY <1>2, Exits
  <2>2. UNCHANGED <<rowVars, disk, callVars>>
    BY <1>2 DEF Run, rowVars
  <2>3. QED
    BY <1>1, <2>1, <2>2, BytesGoesOn
<1>3. CASE status[j] \in Live /\ status' = [status EXCEPT ![j] = "running"] /\ Then(j, "mkdir")
  <2>1. work'[j] = "mkdir" /\ \A i \in Jobs \ {j} : work'[i] = work[i]
    BY <1>1, <1>3, Thens, WorkerStepsExist
  <2>2. status'[j] = "running" /\ \A i \in Jobs \ {j} : status'[i] = status[i]
    BY <1>1, <1>3, Working
  <2>3. UNCHANGED <<created, path, expired, disk, callVars, late>>
    BY DEF Run, callVars, sweepVars
  <2>4. BytesFit(j)'
    BY <1>1, <2>1, <2>2, <2>3, Working DEF BytesFit, Live
  <2>5. QED
    BY <1>1, <1>3, <2>1, <2>2, <2>3, <2>4, BytesWorker
<1>4. QED
  BY <1>2, <1>3 DEF Run

\* A step of a worker that writes or removes its copy.
LEMMA BytesWrites ==
  ASSUME StagedIInv, BytesIInv, NEW j \in Jobs, work[j] # "none",
         UNCHANGED <<rowVars, callVars>>, NEW x, disk' = [disk EXCEPT ![j] = x], NEW step,
         work'[j] = step, \A i \in Jobs \ {j} : work'[i] = work[i],
         step \in {"register", "lease", "run", "mkdir", "fail", "failed"} => x = "none",
         step # "ready"
  PROVE  BytesIInv'
<1>1. UNCHANGED <<created, status, path, expired, late>>
  BY DEF rowVars, callVars, sweepVars
<1>2. disk'[j] = x /\ \A i \in Jobs \ {j} : disk'[i] = disk[i]
  BY Working
<1>3. BytesFit(j)'
  BY <1>1, <1>2, Working DEF BytesFit, Live
<1>4. status[j] # "ready"
  BY Working DEF Live
<1>5. QED
  BY <1>1, <1>2, <1>3, <1>4, BytesWorker

LEMMA BytesMkdir ==
  ASSUME StagedIInv, BytesIInv, NEW j \in Jobs, Mkdir(j)
  PROVE  BytesIInv'
<1>1. work[j] # "none" /\ disk[j] = "none" /\ UNCHANGED <<rowVars, callVars>>
  BY Working DEF Mkdir, BytesFit
<1>2. CASE disk' = [disk EXCEPT ![j] = IF @ = "none" THEN "dir" ELSE @] /\ Then(j, "dest")
  <2>1. work'[j] = "dest" /\ \A i \in Jobs \ {j} : work'[i] = work[i]
    BY <1>1, <1>2, Thens, WorkerStepsExist
  <2>2. disk' = [disk EXCEPT ![j] = "dir"]
    BY <1>1, <1>2, Working
  <2>3. QED
    BY <1>1, <2>1, <2>2, BytesWrites
<1>3. CASE Then(j, "fail") /\ UNCHANGED disk
  <2>1. work'[j] = "fail" /\ \A i \in Jobs \ {j} : work'[i] = work[i]
    BY <1>1, <1>3, Thens, WorkerStepsExist
  <2>2. QED
    BY <1>1, <1>3, <2>1, BytesGoesOn
<1>4. QED
  BY <1>2, <1>3 DEF Mkdir

LEMMA BytesCreate ==
  ASSUME StagedIInv, BytesIInv, NEW j \in Jobs, Create(j)
  PROVE  BytesIInv'
<1>1. work[j] # "none" /\ UNCHANGED <<rowVars, callVars>>
  BY DEF Create
<1>2. PICK step \in {"copy", "cleanFail"} : work'[j] = step /\ \A i \in Jobs \ {j} : work'[i] = work[i]
  BY <1>1, Thens, WorkerStepsExist DEF Create
<1>3. CASE UNCHANGED disk
  BY <1>1, <1>2, <1>3, BytesGoesOn
<1>4. CASE disk' = [disk EXCEPT ![j] = "part"]
  BY <1>1, <1>2, <1>4, BytesWrites
<1>5. QED
  BY <1>3, <1>4 DEF Create

LEMMA BytesCopy ==
  ASSUME StagedIInv, BytesIInv, NEW j \in Jobs, Copy(j)
  PROVE  BytesIInv'
<1>1. work[j] # "none" /\ UNCHANGED <<rowVars, disk, callVars>>
  BY DEF Copy
<1>2. PICK step \in {"publish", "cleanFail"} : work'[j] = step /\ \A i \in Jobs \ {j} : work'[i] = work[i]
  BY <1>1, Thens, WorkerStepsExist DEF Copy
<1>3. QED
  BY <1>1, <1>2, BytesGoesOn

LEMMA BytesPublish ==
  ASSUME StagedIInv, BytesIInv, NEW j \in Jobs, Publish(j)
  PROVE  BytesIInv'
<1>1. work[j] # "none" /\ UNCHANGED <<rowVars, callVars>>
  BY DEF Publish
<1>2. PICK step \in {"date", "cleanFail"} : work'[j] = step /\ \A i \in Jobs \ {j} : work'[i] = work[i]
  BY <1>1, Thens, WorkerStepsExist DEF Publish
<1>3. CASE UNCHANGED disk
  BY <1>1, <1>2, <1>3, BytesGoesOn
<1>4. CASE disk' = [disk EXCEPT ![j] = "final"]
  BY <1>1, <1>2, <1>4, BytesWrites
<1>5. QED
  BY <1>3, <1>4 DEF Publish

\* The path is recorded before bytes move, and again with the expiry.
LEMMA BytesRecord ==
  ASSUME StagedIInv, BytesIInv, NEW j \in Jobs, Dest(j) \/ Date(j)
  PROVE  BytesIInv'
<1>1. work[j] # "none" /\ UNCHANGED <<created, status, disk, callVars, late>>
  BY DEF Dest, Date, callVars, sweepVars
<1>2. CASE Then(j, "cleanFail") /\ UNCHANGED <<path, expired>>
  <2>1. work'[j] = "cleanFail" /\ \A i \in Jobs \ {j} : work'[i] = work[i]
    BY <1>1, <1>2, Thens, WorkerStepsExist
  <2>2. UNCHANGED <<rowVars, disk, callVars>>
    BY <1>2 DEF Dest, Date, rowVars
  <2>3. QED
    BY <1>1, <2>1, <2>2, BytesGoesOn
<1>3. CASE /\ path' = path \cup {j} /\ expired' = expired \ {j}
           /\ Then(j, "create") \/ Then(j, "ready")
  <2>1. PICK step \in {"create", "ready"} : work'[j] = step /\ \A i \in Jobs \ {j} : work'[i] = work[i]
    BY <1>1, <1>3, Thens, WorkerStepsExist
  <2>2. BytesFit(j)'
    BY <1>1, <1>3, <2>1, Working DEF BytesFit, Live
  <2>3. status[j] # "ready"
    BY <1>1, Working DEF Live
  <2>4. QED
    BY <1>1, <1>3, <2>1, <2>2, <2>3, BytesWorker
<1>4. QED
  BY <1>2, <1>3 DEF Dest, Date

LEMMA BytesReady ==
  ASSUME StagedIInv, BytesIInv, NEW j \in Jobs, Ready(j)
  PROVE  BytesIInv'
<1>1. work[j] = "ready" /\ work[j] # "none" /\ UNCHANGED <<created, path, expired, disk, callVars, late>>
  BY DEF Ready, callVars, sweepVars
<1>2. CASE status[j] = "running" /\ status' = [status EXCEPT ![j] = "ready"] /\ Exit(j)
  <2>1. work'[j] = "none" /\ \A i \in Jobs \ {j} : work'[i] = work[i]
    BY <1>2, Exits
  <2>2. status'[j] = "ready" /\ \A i \in Jobs \ {j} : status'[i] = status[i]
    BY <1>1, <1>2, Working
  <2>3. j \in path
    BY <1>1, <1>2, Working DEF BytesFit
  <2>4. BytesFit(j)'
    BY <1>1, <2>1, <2>2, <2>3, Working DEF BytesFit, Live
  <2>5. status[j] \in Live
    BY <1>2 DEF Live
  <2>6. QED
    BY <1>1, <2>1, <2>2, <2>4, <2>5, BytesWorker
<1>3. CASE Then(j, "cleanExit") /\ UNCHANGED status
  <2>1. work'[j] = "cleanExit" /\ \A i \in Jobs \ {j} : work'[i] = work[i]
    BY <1>1, <1>3, Thens, WorkerStepsExist
  <2>2. UNCHANGED <<rowVars, disk, callVars>>
    BY <1>3 DEF Ready, rowVars
  <2>3. QED
    BY <1>1, <2>1, <2>2, BytesGoesOn
<1>4. QED
  BY <1>2, <1>3 DEF Ready

LEMMA BytesClean ==
  ASSUME StagedIInv, BytesIInv, NEW j \in Jobs, Clean(j)
  PROVE  BytesIInv'
<1>1. work[j] # "none" /\ UNCHANGED <<rowVars, callVars>> /\ disk' = [disk EXCEPT ![j] = "none"]
  BY DEF Clean
<1>2. PICK step \in {"none", "fail"} : work'[j] = step /\ \A i \in Jobs \ {j} : work'[i] = work[i]
  BY <1>1, Thens, Exits, WorkerStepsExist DEF Clean
<1>3. QED
  BY <1>1, <1>2, BytesWrites

LEMMA BytesFail ==
  ASSUME StagedIInv, BytesIInv, NEW j \in Jobs, Fail(j)
  PROVE  BytesIInv'
<1>1. work[j] # "none" /\ disk[j] = "none" /\ UNCHANGED <<created, status, disk, callVars, late>>
  BY Working DEF Fail, BytesFit, callVars, sweepVars
<1>2. PICK step \in {"none", "failed"} : work'[j] = step /\ \A i \in Jobs \ {j} : work'[i] = work[i]
  BY <1>1, Thens, Exits, WorkerStepsExist DEF Fail
<1>3. /\ path' \subseteq path /\ path \ {j} \subseteq path'
      /\ expired' \subseteq expired /\ expired \ {j} \subseteq expired'
  BY DEF Fail, ClearPath
<1>4. BytesFit(j)'
  BY <1>1, <1>2, <1>3, Working DEF BytesFit, Live
<1>5. status[j] # "ready"
  BY <1>1, Working DEF Live
<1>6. QED
  BY <1>1, <1>2, <1>3, <1>4, <1>5, BytesWorker

LEMMA BytesFailed ==
  ASSUME StagedIInv, BytesIInv, NEW j \in Jobs, Failed(j)
  PROVE  BytesIInv'
<1>1. work[j] # "none" /\ disk[j] = "none" /\ UNCHANGED <<created, path, expired, disk, callVars, late>>
  BY Working DEF Failed, BytesFit, callVars, sweepVars
<1>2. work'[j] = "none" /\ \A i \in Jobs \ {j} : work'[i] = work[i]
  BY Exits DEF Failed
<1>3. /\ status'[j] = (IF status[j] \in Live THEN "failed" ELSE status[j])
      /\ \A i \in Jobs \ {j} : status'[i] = status[i]
  BY <1>1, Working DEF Failed
<1>4. status'[j] \notin Live /\ status'[j] # "ready"
  BY <1>1, <1>3, Working DEF Live
<1>5. BytesFit(j)'
  BY <1>1, <1>2, <1>4, Working DEF BytesFit
<1>6. QED
  BY <1>1, <1>2, <1>3, <1>4, <1>5, BytesWorker

LEMMA BytesExpire ==
  ASSUME StagedIInv, BytesIInv, NEW j \in Jobs, Expire(j)
  PROVE  BytesIInv'
<1>1. UNCHANGED <<created, status, path, disk, work, mutex, pc, job, list, late, resuming>>
  BY DEF Expire, workerVars, callVars, localVars, sweepVars
<1>2. expired' = expired \cup {j} /\ status[j] = "ready"
  BY DEF Expire
<1>3. ASSUME NEW i \in Jobs PROVE BytesFit(i)'
  <2>1. BytesFit(i)
    BY DEF BytesIInv
  <2>2. QED
    BY <1>1, <1>2, <2>1 DEF BytesFit, Live
<1>4. \A q \in Calls : ClearsFit(q)' /\ SweepFits(q)'
  BY <1>1 DEF BytesIInv, ClearsFit, SweepFits
<1>5. QED
  BY <1>1, <1>3, <1>4 DEF BytesIInv

LEMMA BytesSame ==
  ASSUME BytesIInv, UNCHANGED <<rowVars, disk, workerVars, callVars>>
  PROVE  BytesIInv'
<1>1. UNCHANGED <<created, status, path, expired, disk, work, mutex, pc, job, list, late, resuming>>
  BY DEF rowVars, workerVars, callVars, localVars, sweepVars
<1>2. \A j \in Jobs : BytesFit(j)'
  BY <1>1 DEF BytesIInv, BytesFit
<1>3. \A q \in Calls : ClearsFit(q)' /\ SweepFits(q)'
  BY <1>1 DEF BytesIInv, ClearsFit, SweepFits
<1>4. QED
  BY <1>1, <1>2, <1>3 DEF BytesIInv

LEMMA BytesInit == Init => BytesIInv
<1>1. SUFFICES ASSUME Init PROVE BytesIInv
  OBVIOUS
<1>2. \A j \in Jobs : status[j] = "gone" /\ disk[j] = "none" /\ work[j] = "none"
  BY <1>1 DEF Init
<1>3. path = {} /\ expired = {} /\ late = {} /\ resuming = {}
  BY <1>1 DEF Init
<1>4. \A j \in Jobs : BytesFit(j)
  BY <1>2, <1>3 DEF BytesFit, Live
<1>5. \A p \in Calls : pc[p] = "idle"
  BY <1>1 DEF Init
<1>6. \A p \in Calls : ClearsFit(p) /\ SweepFits(p)
  BY <1>5 DEF ClearsFit, SweepFits, Sweeping
<1>7. QED
  BY <1>3, <1>4, <1>6 DEF BytesIInv

LEMMA BytesNext ==
  ASSUME MaxCrashes = 0, MaxResumes = 0
  PROVE  StagedIInv /\ BytesIInv /\ [Next]_vars => BytesIInv'
<1>1. SUFFICES ASSUME StagedIInv, BytesIInv, [Next]_vars PROVE BytesIInv'
  OBVIOUS
<1>2. ASSUME NEW s \in Starters, StartStep(s) \/ Abandon(s) \/ \E f \in Files : StartStaged(s, f)
      PROVE  BytesIInv'
  BY <1>1, <1>2, BytesStartStep, BytesInsert, BytesAbandon, BytesStartStaged DEF Calls
<1>3. ASSUME NEW k \in Cancellers, CancelStep(k) \/ Abandon(k) \/ \E j \in Jobs : CancelStaged(k, j)
      PROVE  BytesIInv'
  BY <1>1, <1>3, BytesCancelStep, BytesAbandon, BytesCancelStaged DEF Calls
<1>4. ASSUME NEW d \in Deleters,
             DeleteStep(d) \/ Abandon(d) \/ \E j \in Jobs : DeleteStaged(d, j) \/ PurgeHistory(d, j)
      PROVE  BytesIInv'
  BY <1>1, <1>4, BytesDeleteStep, BytesAbandon, BytesDelete DEF Calls
<1>5. ASSUME NEW x \in Readers, ReadStep(x) \/ Abandon(x) \/ \E j \in Jobs : StagedFile(x, j)
      PROVE  BytesIInv'
  BY <1>1, <1>5, BytesReadStep, BytesAbandon, BytesStagedFile DEF Calls
<1>6. ASSUME NEW w \in Sweepers, SweepCache(w) \/ SweepStep(w)
      PROVE  BytesIInv'
  BY <1>1, <1>6, BytesSweepCache, BytesSweepStep DEF Calls
<1>7. ASSUME NEW p \in Purgers, PurgeCache(p) \/ PurgeStep(p) \/ Abandon(p)
      PROVE  BytesIInv'
  BY <1>1, <1>7, BytesPurgeCache, BytesPurgeStep, BytesAbandon DEF Calls
<1>8. ASSUME NEW j \in Jobs, WorkerStep(j)
      PROVE  BytesIInv'
  BY <1>1, <1>8, BytesRegister, BytesLease, BytesRun, BytesMkdir, BytesRecord, BytesCreate, BytesCopy,
     BytesPublish, BytesReady, BytesClean, BytesFail, BytesFailed DEF WorkerStep
<1>9. ASSUME NEW j \in Jobs, ResumeJob(j) \/ Expire(j)
      PROVE  BytesIInv'
  <2>1. ~ResumeJob(j)
    BY <1>1 DEF BytesIInv, ResumeJob
  <2>2. QED
    BY <1>1, <1>9, <2>1, BytesExpire
<1>10. ASSUME ResumeStaged \/ (\E n \in Limits : SetLimit(n)) \/ Crash
       PROVE  BytesIInv'
  <2>1. resumes \in 0..0 /\ crashes \in 0..0
    BY <1>1 DEF StagedIInv, ServerTyped
  <2>2. ~ResumeStaged /\ ~Crash
    BY <2>1 DEF ResumeStaged, Crash
  <2>3. QED
    BY <1>1, <1>10, <2>2, BytesSame DEF SetLimit
<1>11. CASE UNCHANGED vars
  BY <1>1, <1>11, BytesSame DEF vars, rowVars, workerVars, callVars, localVars, sweepVars
<1>12. CASE Next
  BY <1>2, <1>3, <1>4, <1>5, <1>6, <1>7, <1>8, <1>9, <1>10, <1>12 DEF Next, NextOf
<1>13. QED
  BY <1>1, <1>11, <1>12

\* Without a restart or a resumption no byte of a job that was not cancelled is lost:
\* when everybody is done with it its copy is gone, or its row has the path, whatever
\* fails, expires, is deleted, swept or cleared at once (runStaged, StagedFile,
\* SweepCache, CancelStaged).
THEOREM NoBytesLost ==
  ASSUME MaxCrashes = 0, MaxResumes = 0
  PROVE  Spec => []NoLostBytes
<1>1. Spec => []BytesIInv
  BY BytesInit, BytesNext, StagedInvariantHolds, PTL DEF Spec
<1>2. QED
  BY <1>1, BytesFollow, PTL

=============================================================================
