----------------------------- MODULE FileRefs -----------------------------
(***************************************************************************)
(* The handles with which stored segments are read                         *)
(* (internal/drive/source.go). A handle is an access hash and a file       *)
(* reference minted for one Telegram account; the reference goes stale     *)
(* when it expires and when the message is edited. Every chunk of every    *)
(* stream looks for a handle of its own account: in its stream, in the     *)
(* cache, in the row if the account owns it, and otherwise resolves one in *)
(* a round trip that concurrent chunks share.                              *)
(*                                                                         *)
(* One segment, read by streams that each run on an account of their own   *)
(* choice and fetch several chunks at once.                                *)
(***************************************************************************)
EXTENDS Integers, FiniteSets

CONSTANTS
  RefAccounts,  \* accounts that read and rebuild
  RefStreams,   \* open streams over the segment
  Chunks,       \* parallel fetches: pairs of a stream and a number
  MaxStale,     \* bound: times the references go stale
  MaxRebuilds   \* bound: rebuilds of the index

ASSUME ChunksAssumption == \A c \in Chunks : c[1] \in RefStreams
\* "nobody" stands for the owner of a row that names none.
ASSUME NobodyAssumption == "nobody" \notin RefAccounts

VARIABLES
  issue,    \* generation of references Telegram honours now
  segRow,   \* [owner, handle]: the segments row
  refs,     \* refCache: the handle cached for each account
  source,   \* [account, seg, state] of each open stream: its segmentSource
  fetch,    \* [pc, handle, tries] of each chunk
  flight,   \* the shared round trip of each account: [lead, pc, handle]
  renaming, \* a rename has forgotten the cache and not yet edited the message
  rebuilds

refsVars == <<issue, segRow, refs, source, fetch, flight, renaming, rebuilds>>

Datacenters == {1, 2}
RealDC == 2

NoRef == [account |-> "nobody", issue |-> 0, dc |-> 0]
Minted(a) == [account |-> a, issue |-> issue, dc |-> RealDC]
NoFlight == [lead |-> <<>>, pc |-> "none", handle |-> NoRef]
Closed == [account |-> "nobody", seg |-> NoRef, owner |-> "nobody", state |-> NoRef]

Acct(c) == source[c[1]].account

---------------------------------------------------------------------------

(* OpenFile reads the row; the stream keeps this copy of it.               *)
OpenSource(s, a) ==
  /\ source[s] = Closed
  /\ source' = [source EXCEPT ![s] = [account |-> a, seg |-> segRow.handle,
                                      owner |-> segRow.owner, state |-> NoRef]]
  /\ UNCHANGED <<issue, segRow, refs, fetch, flight, renaming, rebuilds>>

(* Mutation: the row is taken for this account's own. *)
OwnsStoredHandle_Always(s) == source[s].owner # "nobody"

OwnsStoredHandle(s) == source[s].owner # "nobody" /\ source[s].owner = source[s].account

(* current: the stream's own handle, the cached one, the stored one.       *)
Current(s) ==
  CASE source[s].state # NoRef -> source[s].state
    [] source[s].state = NoRef /\ refs[source[s].account] # NoRef ->
         refs[source[s].account]
    [] OTHER -> IF OwnsStoredHandle(s) THEN source[s].seg ELSE NoRef

Goes(c, pc, h, tries) ==
  fetch' = [fetch EXCEPT ![c] = [pc |-> pc, handle |-> h, tries |-> tries]]

(* Chunk begins with the handle it finds, or resolves one.                 *)
ChunkBegin(c) ==
  /\ source[c[1]] # Closed
  /\ fetch[c].pc = "idle"
  /\ IF Current(c[1]) = NoRef
       THEN Goes(c, "drop", NoRef, 1)
       ELSE Goes(c, "read", Current(c[1]), 1)
  /\ UNCHANGED <<issue, segRow, refs, source, flight, renaming, rebuilds>>

(* remember: for the rest of this stream, and for others of the account.   *)
Remember(s, h) ==
  /\ source' = [source EXCEPT ![s].state = h]
  /\ refs' = [refs EXCEPT ![source[s].account] = h]

Honoured(c) == fetch[c].handle.account = Acct(c) /\ fetch[c].handle.issue = issue

(* ReadChunk, with one repair: the answer of a wrong datacenter names the  *)
(* right one, a stale reference is resolved again; a second failure, or    *)
(* any other one, fails the chunk.                                         *)
ReadChunk(c) ==
  /\ fetch[c].pc = "read"
  /\ \/ /\ Honoured(c) /\ fetch[c].handle.dc = RealDC
        /\ Goes(c, "idle", NoRef, 0)
        /\ UNCHANGED <<segRow, refs, source>>
     \/ /\ fetch[c].handle.dc # RealDC
        /\ LET moved == [fetch[c].handle EXCEPT !.dc = RealDC]
           IN  IF fetch[c].tries = 1
                 THEN /\ Goes(c, "read", moved, 2)
                      /\ Remember(c[1], moved)
                      /\ segRow' = [segRow EXCEPT !.handle.dc = RealDC]
                 ELSE /\ Goes(c, "idle", NoRef, 0)
                      /\ UNCHANGED <<segRow, refs, source>>
     \/ /\ ~Honoured(c)
        /\ IF fetch[c].tries = 1
             THEN Goes(c, "drop", NoRef, 2)
             ELSE Goes(c, "idle", NoRef, 0)
        /\ UNCHANGED <<segRow, refs, source>>
  /\ UNCHANGED <<issue, flight, renaming, rebuilds>>

(* refresh: what is known is dropped, then the round trip of this account  *)
(* is joined or begun.                                                     *)
Drop(c) ==
  /\ fetch[c].pc = "drop"
  /\ Goes(c, "join", NoRef, fetch[c].tries)
  /\ refs' = [refs EXCEPT ![Acct(c)] = NoRef]
  /\ source' = [source EXCEPT ![c[1]].state = NoRef]
  /\ UNCHANGED <<issue, segRow, flight, renaming, rebuilds>>

JoinFlight(c) ==
  /\ fetch[c].pc = "join"
  /\ Goes(c, "wait", NoRef, fetch[c].tries)
  /\ flight' = IF flight[Acct(c)] # NoFlight THEN flight
               ELSE [flight EXCEPT ![Acct(c)] =
                       [lead |-> c, pc |-> "ask", handle |-> NoRef]]
  /\ UNCHANGED <<issue, segRow, refs, source, renaming, rebuilds>>

(* Everyone who waits for the round trip of account a gets its outcome: a  *)
(* handle to read with, or the error of the chunk that leads it.           *)
Land(a, h) ==
  /\ fetch' = [c \in Chunks |->
       IF fetch[c].pc = "wait" /\ Acct(c) = a
         THEN IF h = NoRef THEN [pc |-> "idle", handle |-> NoRef, tries |-> 0]
              ELSE [fetch[c] EXCEPT !.pc = "read", !.handle = h]
         ELSE fetch[c]]
  /\ flight' = [flight EXCEPT ![a] = NoFlight]

(* RefreshDoc answers with a handle of the asking account, or fails.       *)
FlightAsk(a) ==
  /\ flight[a].pc = "ask"
  /\ \/ /\ flight' = [flight EXCEPT ![a].pc = "keep", ![a].handle = Minted(a)]
        /\ UNCHANGED fetch
     \/ Land(a, NoRef)
  /\ UNCHANGED <<issue, segRow, refs, source, renaming, rebuilds>>

FlightKeep(a) ==
  /\ flight[a].pc = "keep"
  /\ Remember(flight[a].lead[1], flight[a].handle)
  /\ flight' = [flight EXCEPT ![a].pc = "store"]
  /\ UNCHANGED <<issue, segRow, fetch, renaming, rebuilds>>

(* The UPDATE names the account that must own the row; SetSegmentDC does   *)
(* not, because a datacenter belongs to the document.                      *)
RefreshFileReference(h) ==
  segRow' = IF segRow.owner = h.account
              THEN [segRow EXCEPT !.handle = h]
              ELSE [segRow EXCEPT !.handle.dc = h.dc]

FlightStore(a) ==
  /\ flight[a].pc = "store"
  /\ IF OwnsStoredHandle(flight[a].lead[1])
       THEN RefreshFileReference(flight[a].handle)
       ELSE segRow' = [segRow EXCEPT !.handle.dc = flight[a].handle.dc]
  /\ Land(a, flight[a].handle)
  /\ UNCHANGED <<issue, refs, source, renaming, rebuilds>>

---------------------------------------------------------------------------
(* A rename forgets every handle of the file and then edits its messages;  *)
(* references also expire with time. A rebuild makes the scanning account  *)
(* the owner of the row.                                                   *)

Forget ==
  /\ ~renaming
  /\ issue < MaxStale
  /\ renaming' = TRUE
  /\ refs' = [a \in RefAccounts |-> NoRef]
  /\ UNCHANGED <<issue, segRow, source, fetch, flight, rebuilds>>

Stale ==
  /\ issue < MaxStale
  /\ issue' = issue + 1
  /\ renaming' = FALSE
  /\ UNCHANGED <<segRow, refs, source, fetch, flight, rebuilds>>

RebuildRow(a) ==
  /\ rebuilds < MaxRebuilds
  /\ rebuilds' = rebuilds + 1
  /\ segRow' = [owner |-> a, handle |-> Minted(a)]
  /\ UNCHANGED <<issue, refs, source, fetch, flight, renaming>>

---------------------------------------------------------------------------

RefsInit ==
  /\ issue = 1
  /\ \E o \in RefAccounts \cup {"nobody"}, d \in Datacenters :
       segRow = [owner |-> o, handle |-> [account |-> o, issue |-> 1, dc |-> d]]
  /\ refs = [a \in RefAccounts |-> NoRef]
  /\ source = [s \in RefStreams |-> Closed]
  /\ fetch = [c \in Chunks |-> [pc |-> "idle", handle |-> NoRef, tries |-> 0]]
  /\ flight = [a \in RefAccounts |-> NoFlight]
  /\ renaming = FALSE
  /\ rebuilds = 0

RefsNext ==
  \/ \E s \in RefStreams, a \in RefAccounts : OpenSource(s, a)
  \/ \E c \in Chunks :
       \/ ChunkBegin(c)
       \/ ReadChunk(c)
       \/ Drop(c)
       \/ JoinFlight(c)
  \/ \E a \in RefAccounts :
       \/ FlightAsk(a)
       \/ FlightKeep(a)
       \/ FlightStore(a)
       \/ RebuildRow(a)
  \/ Forget
  \/ Stale

RefsSpec == RefsInit /\ [][RefsNext]_refsVars

---------------------------------------------------------------------------

(* No chunk ever presents a handle that was minted for another account,    *)
(* whoever uploaded or rebuilt the row, whatever the cache holds and       *)
(* whichever chunk led the round trip it shared.                           *)
HandleFits ==
  \A c \in Chunks : fetch[c].pc = "read" => fetch[c].handle.account = Acct(c)

(* The stored handle always belongs to the account the row names as its    *)
(* owner, also when a rebuild hands the row to the scanning account while  *)
(* a chunk of the former owner is writing a repaired reference back.       *)
RowIsOwners ==
  segRow.owner # "nobody" => segRow.handle.account = segRow.owner

(* Handles and rows stay with their account (the invariants above).        *)
HandlesFit == HandleFits /\ RowIsOwners
===========================================================================
