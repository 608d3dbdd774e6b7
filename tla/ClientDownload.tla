--------------------------- MODULE ClientDownload ---------------------------
(***************************************************************************)
(* The record of a download that the client pulls itself, a WebDAV read    *)
(* (internal/drive/clientdownload.go, internal/dav/handles.go).  Range     *)
(* requests of one session share an entry; when the last of them has been  *)
(* gone for the grace period a timer settles the entry and its row.  The   *)
(* transfer panel cancels through the entry and through the row.           *)
(*                                                                         *)
(* One session is modelled; its successive downloads are numbered and an   *)
(* entry, its row and its job share the number.  A download has Size       *)
(* pieces and each read delivers one.                                      *)
(***************************************************************************)
EXTENDS Integers, FiniteSets

CONSTANTS Ranges,        \* WebDAV requests, each one read handle at a time
          Panels,        \* cancellations from the transfer panel
          Size,          \* pieces of the file
          MaxDownloads,  \* bound: downloads of the session
          MaxFired,      \* bound: fired timers of a download that wait for the mutex
          MaxOverrun     \* bound: pieces delivered more than once

ASSUME RangesAssumption == IsFiniteSet(Ranges) /\ Size \in Nat

VARIABLES dlEntry,     \* number -> clientDownload
          dlCurrent,   \* clientDownloads[key], 0 for none
          jobsMap,     \* entries in clientJobs
          fired,       \* callbacks of timers that fired and wait for the mutex
          settling,    \* settleClientDownload after the mutex: the status to write
          uncounted,   \* settlements that have not come to the final count yet
          dlRow,       \* number -> status in download_jobs
          downloaded,  \* number -> progress in download_jobs
          readHandle,  \* range -> entry of its ClientRead, 0 without, and what it reports
          panelCall,   \* panel -> the job it cancels
          astray,      \* rows that a failed call or a restart left behind
          unrecorded   \* history: downloads whose final count could not be written

tallyVars == <<uncounted, unrecorded>>
cdVars == <<dlEntry, dlCurrent, jobsMap, fired, settling, dlRow, downloaded, readHandle, panelCall, astray,
            tallyVars>>

Downloads == 1..MaxDownloads
NoHandle == [open |-> FALSE, of |-> 0, report |-> -1]
NoDownload == [received |-> 0, active |-> 0, idle |-> "none", cancelled |-> FALSE, settled |-> TRUE]
NewDownloads == {d \in Downloads : dlRow[d] = "none"}

CdInit ==
  /\ dlEntry = [d \in Downloads |-> NoDownload]
  /\ dlCurrent = 0 /\ jobsMap = {}
  /\ fired = [d \in Downloads |-> 0]
  /\ settling = [d \in Downloads |-> "none"]
  /\ dlRow = [d \in Downloads |-> "none"]
  /\ downloaded = [d \in Downloads |-> 0]
  /\ readHandle = [r \in Ranges |-> NoHandle]
  /\ panelCall = [p \in Panels |-> [pc |-> "idle", of |-> 0]]
  /\ astray = {} /\ uncounted = {} /\ unrecorded = {}

\* The entry a request may join.
Joinable == dlCurrent # 0 /\ ~dlEntry[dlCurrent].settled

\* ensure and TrackClientDownload: a request that joins stops the timer, whose
\* callback may already be waiting for the mutex.
JoinRead(r) ==
  /\ ~readHandle[r].open /\ Joinable
  /\ dlEntry' = [dlEntry EXCEPT ![dlCurrent].idle = "none", ![dlCurrent].active = @ + 1]
  /\ readHandle' = [readHandle EXCEPT ![r] = [open |-> TRUE, of |-> dlCurrent, report |-> -1]]
  /\ UNCHANGED <<dlCurrent, jobsMap, fired, settling, dlRow, downloaded, panelCall, astray, tallyVars>>

\* Or it opens a row; when the second statement fails the row stays, and the
\* read goes on without a record.
OpenRead(r) ==
  /\ ~readHandle[r].open /\ ~Joinable
  /\ \E d \in NewDownloads :
         /\ \A e \in NewDownloads : d <= e
         /\ dlRow' = [dlRow EXCEPT ![d] = "running"]
         /\ \/ /\ dlEntry' = [dlEntry EXCEPT ![d] = [NoDownload EXCEPT !.active = 1, !.settled = FALSE]]
               /\ dlCurrent' = d /\ jobsMap' = jobsMap \cup {d}
               /\ readHandle' = [readHandle EXCEPT ![r] = [open |-> TRUE, of |-> d, report |-> -1]]
               /\ UNCHANGED astray
            \/ /\ readHandle' = [readHandle EXCEPT ![r] = [open |-> TRUE, of |-> 0, report |-> -1]]
               /\ astray' = astray \cup {d}
               /\ UNCHANGED <<dlEntry, dlCurrent, jobsMap>>
  /\ UNCHANGED <<fired, settling, downloaded, panelCall, tallyVars>>

\* Read and Add: the piece is counted unless the download was cancelled, and
\* the count may be due for a report.
AddBytes(r) ==
  LET d == readHandle[r].of
  IN  /\ readHandle[r].open /\ readHandle[r].report = -1 /\ d # 0
      /\ ~dlEntry[d].cancelled /\ dlEntry[d].received < Size + MaxOverrun
      /\ dlEntry' = [dlEntry EXCEPT ![d].received = @ + 1]
      /\ \/ readHandle' = [readHandle EXCEPT ![r].report = dlEntry[d].received + 1]
         \/ UNCHANGED readHandle
      /\ UNCHANGED <<dlCurrent, jobsMap, fired, settling, dlRow, downloaded, panelCall, astray, tallyVars>>

\* recordClientProgress, after the mutex; a statement that fails is only logged.
RecordProgress(r) ==
  /\ readHandle[r].report # -1
  /\ \/ downloaded' = [downloaded EXCEPT ![readHandle[r].of] = readHandle[r].report]
     \/ UNCHANGED downloaded
  /\ readHandle' = [readHandle EXCEPT ![r].report = -1]
  /\ UNCHANGED <<dlEntry, dlCurrent, jobsMap, fired, settling, dlRow, panelCall, astray, tallyVars>>

\* releaseClientRead: the last one out arms the timer.
ReleaseClientRead(e) ==
  LET left == IF e.active > 0 THEN e.active - 1 ELSE 0
  IN  [e EXCEPT !.active = left, !.idle =
        IF left > 0 \/ e.idle # "none" \/ e.settled THEN @ ELSE "armed"]

CloseRead(r) ==
  LET d == readHandle[r].of
  IN  /\ readHandle[r].open /\ readHandle[r].report = -1
      /\ dlEntry' = IF d = 0 THEN dlEntry ELSE [dlEntry EXCEPT ![d] = ReleaseClientRead(@)]
      /\ readHandle' = [readHandle EXCEPT ![r] = NoHandle]
      /\ UNCHANGED <<dlCurrent, jobsMap, fired, settling, dlRow, downloaded, panelCall, astray, tallyVars>>

\* The timer fires; entry.idle keeps pointing at it until the callback runs.
GraceExpires(d) ==
  /\ dlEntry[d].idle = "armed" /\ fired[d] < MaxFired
  /\ dlEntry' = [dlEntry EXCEPT ![d].idle = "fired"]
  /\ fired' = [fired EXCEPT ![d] = @ + 1]
  /\ UNCHANGED <<dlCurrent, jobsMap, settling, dlRow, downloaded, readHandle, panelCall, astray, tallyVars>>

\* A reader is in, or another callback was first.
InUse(e) == e.active > 0 \/ e.settled

\* What settleClientDownload makes of the entry.
FinalStatus_Received(e) == IF e.received < Size THEN "cancelled" ELSE "complete"
FinalStatus(e) == IF e.cancelled \/ e.received < Size THEN "cancelled" ELSE "complete"

\* settleClientDownload, its part under the mutex.
SettleDownload(d) ==
  /\ fired[d] > 0
  /\ fired' = [fired EXCEPT ![d] = @ - 1]
  /\ IF InUse(dlEntry[d])
     THEN /\ dlEntry' = [dlEntry EXCEPT ![d].idle = "none"]
          /\ UNCHANGED <<dlCurrent, jobsMap, settling, uncounted>>
     ELSE /\ dlEntry' = [dlEntry EXCEPT ![d].idle = "none", ![d].settled = TRUE]
          /\ dlCurrent' = IF dlCurrent = d THEN 0 ELSE dlCurrent
          /\ jobsMap' = jobsMap \ {d}
          /\ settling' = [settling EXCEPT ![d] = FinalStatus(dlEntry[d])]
          /\ uncounted' = uncounted \cup {d}
  /\ UNCHANGED <<dlRow, downloaded, readHandle, panelCall, astray, unrecorded>>

SetDownloadStatusIf_Always(d, status) == [dlRow EXCEPT ![d] = status]
SetDownloadStatusIf(d, status) ==
  IF dlRow[d] \in {"pending", "running"} THEN [dlRow EXCEPT ![d] = status] ELSE dlRow

\* Its part after the mutex, two statements: the final count, then the status.
\* The first may fail, which is only logged, and the second is made all the same.
SettleDownloadCount(d) ==
  /\ d \in uncounted
  /\ uncounted' = uncounted \ {d}
  /\ \/ downloaded' = [downloaded EXCEPT ![d] = dlEntry[d].received] /\ UNCHANGED unrecorded
     \/ unrecorded' = unrecorded \cup {d} /\ UNCHANGED downloaded
  /\ UNCHANGED <<dlEntry, dlCurrent, jobsMap, fired, settling, dlRow, readHandle, panelCall, astray>>

\* So may the second.
SettleDownloadRow(d) ==
  /\ settling[d] # "none" /\ d \notin uncounted
  /\ \/ dlRow' = SetDownloadStatusIf(d, settling[d]) /\ UNCHANGED astray
     \/ dlRow' = dlRow /\ astray' = astray \cup {d}
  /\ settling' = [settling EXCEPT ![d] = "none"]
  /\ UNCHANGED <<dlEntry, dlCurrent, jobsMap, fired, downloaded, readHandle, panelCall, tallyVars>>

\* handleCancelDownload: the entry first, when there is one, then the row.
CancelDownload(p, d) ==
  /\ panelCall[p].pc = "idle" /\ dlRow[d] # "none"
  /\ dlEntry' = IF d \in jobsMap THEN [dlEntry EXCEPT ![d].cancelled = TRUE] ELSE dlEntry
  /\ panelCall' = [panelCall EXCEPT ![p] = [pc |-> "row", of |-> d]]
  /\ UNCHANGED <<dlCurrent, jobsMap, fired, settling, dlRow, downloaded, readHandle, astray, tallyVars>>

\* The row, unless the caller hung up.
CancelDownloadRow(p) ==
  /\ panelCall[p].pc = "row"
  /\ \/ dlRow' = SetDownloadStatusIf(panelCall[p].of, "cancelled")
     \/ dlRow' = dlRow
  /\ panelCall' = [panelCall EXCEPT ![p] = [pc |-> "idle", of |-> 0]]
  /\ UNCHANGED <<dlEntry, dlCurrent, jobsMap, fired, settling, downloaded, readHandle, astray, tallyVars>>

\* The server restarts: the entries are gone and nothing goes through the rows.
ServerRestart ==
  /\ dlEntry' = [d \in Downloads |-> NoDownload]
  /\ dlCurrent' = 0 /\ jobsMap' = {}
  /\ fired' = [d \in Downloads |-> 0] /\ settling' = [d \in Downloads |-> "none"]
  /\ readHandle' = [r \in Ranges |-> NoHandle]
  /\ panelCall' = [p \in Panels |-> [pc |-> "idle", of |-> 0]]
  /\ astray' = astray \cup {d \in Downloads : dlRow[d] = "running"}
  /\ uncounted' = {}
  /\ UNCHANGED <<dlRow, downloaded, unrecorded>>

CdNext ==
  \/ \E r \in Ranges : JoinRead(r) \/ OpenRead(r) \/ AddBytes(r) \/ RecordProgress(r) \/ CloseRead(r)
  \/ \E d \in Downloads :
       GraceExpires(d) \/ SettleDownload(d) \/ SettleDownloadCount(d) \/ SettleDownloadRow(d)
  \/ \E p \in Panels : CancelDownloadRow(p) \/ \E d \in Downloads : CancelDownload(p, d)
  \/ ServerRestart

CdSpec == CdInit /\ [][CdNext]_cdVars

-----------------------------------------------------------------------------
\* A row never stays "running" with nobody to end it: unless a statement failed
\* or the server restarted, its entry is unsettled and has a reader, an armed
\* timer or a callback on its way, or its final write is pending.
RowHasOwner ==
  \A d \in Downloads :
    (dlRow[d] = "running" /\ d \notin astray) =>
      \/ settling[d] # "none"
      \/ /\ ~dlEntry[d].settled /\ dlCurrent = d /\ d \in jobsMap
         /\ dlEntry[d].active > 0 \/ dlEntry[d].idle = "armed" \/ fired[d] > 0

\* What the history says of a download is what happened to it: "complete" is
\* only said of one that was not cancelled and had as many pieces as the file,
\* and the count is that of the pieces read once the settlement is through,
\* whatever reports were written late.  Exempt is the count of a download whose
\* final SetDownloadProgress failed (unrecorded): the code logs that, and the
\* row keeps the last report beside its status.
HistoryExact ==
  \A d \in Downloads : LET e == dlEntry[d] IN
    /\ dlRow[d] = "complete" => e.settled
    /\ (dlRow[d] = "complete" /\ e # NoDownload) =>
         /\ ~e.cancelled /\ e.received >= Size
         /\ \A r \in Ranges : readHandle[r].of # d
    /\ (e.settled /\ e # NoDownload /\ settling[d] = "none" /\ d \notin unrecorded) =>
         downloaded[d] = e.received

\* The history of downloads is right in the end and there is somebody to end
\* each of them (the invariants above).
DownloadSound == RowHasOwner /\ HistoryExact

\* "Conditional, so a cancellation already written by the API is not overwritten
\* by this late completion": a row that ended does not change again.
EndedStays == \A d \in Downloads : dlRow[d] \in {"cancelled", "complete"} => dlRow'[d] = dlRow[d]
CancellationStays == [][EndedStays]_cdVars
=============================================================================
