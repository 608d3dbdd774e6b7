--------------------------- MODULE DownloadSession ---------------------------
(***************************************************************************)
(* The range requests of one logical download share one task slot          *)
(* (internal/drive/limiter.go, AcquireDownloadSession and what it returns).*)
(* All requests here carry the same session key.  One step is one critical *)
(* section of downloadSessionsMu, one select, or the return of the slot    *)
(* request; the grace timer's callback is a step of its own, so it can     *)
(* have fired and still be waiting for the mutex.                          *)
(***************************************************************************)
EXTENDS Integers, FiniteSets

CONSTANTS
  RangeRequests, \* range requests for the key
  MaxConns,      \* MaxDownloadConns of the settings
  MaxSessions,   \* bound: sessions created for the key
  MaxCallbacks   \* bound: grace callbacks of a session waiting at once

ASSUME RequestsAssumption == IsFiniteSet(RangeRequests)
ASSUME MaxConnsAssumption == MaxConns \in Nat \ {0}
ASSUME MaxSessionsAssumption == MaxSessions \in Nat
ASSUME MaxCallbacksAssumption == MaxCallbacks \in Nat \ {0}

VARIABLES
  current,    \* downloadSessions[key]: a session's number, 0 for none
  created,    \* number of sessions made so far
  slot,       \* per session: where its task slot is, see SlotStates
  active,     \* per session: downloadSession.active
  idle,       \* per session: downloadSession.idle, see TimerStates
  callbacks,  \* per session: grace callbacks fired and not yet run
  reqPc,      \* per request: its next step
  mine,       \* per request: the session it is in or waits for
  gone        \* requests whose context is done

sessionVars == <<current, created, slot, active, idle, callbacks, reqPc, mine, gone>>
perSession == <<slot, active, idle, callbacks>>

Sessions == 1..MaxSessions

\* unmade; queued: leaseDownload has not returned, ready is open; failed: it
\* returned acquireErr; owned: gateRelease is set; returned: it has been called.
SlotStates == {"unmade", "queued", "failed", "owned", "returned"}

\* nil; armed: running; fired: its callback waits for the mutex (or ran into a
\* session that is over).
TimerStates == {"nil", "armed", "fired"}

SessionInit ==
  /\ current = 0 /\ created = 0
  /\ slot = [s \in Sessions |-> "unmade"]
  /\ active = [s \in Sessions |-> 0]
  /\ idle = [s \in Sessions |-> "nil"]
  /\ callbacks = [s \in Sessions |-> 0]
  /\ reqPc = [r \in RangeRequests |-> "idle"]
  /\ mine = [r \in RangeRequests |-> 0]
  /\ gone = {}

Holders(s) == {r \in RangeRequests : reqPc[r] = "held" /\ mine[r] = s}

Leave(r) ==
  /\ reqPc' = [reqPc EXCEPT ![r] = "idle"]
  /\ mine' = [mine EXCEPT ![r] = 0]
  /\ gone' = gone \ {r}

------------------------------------------------------------------------------
\* finishDownloadSessionLocked: forget the session, return its slot once.
Finish(s) ==
  /\ current' = IF current = s THEN 0 ELSE current
  /\ idle' = [idle EXCEPT ![s] = "nil"]
  /\ slot' = [slot EXCEPT ![s] = IF slot[s] = "owned" THEN "returned" ELSE slot[s]]

\* The first critical section of AcquireDownloadSession, entered by a new
\* request or again by one whose session ended while it waited.  A session that
\* exists is joined, its teardown called off; otherwise a new one is queued.
Enter(r) ==
  /\ reqPc[r] \in {"idle", "retry"}
  /\ IF current # 0
       THEN /\ idle' = [idle EXCEPT ![current] = "nil"]
            /\ mine' = [mine EXCEPT ![r] = current]
            /\ reqPc' = [reqPc EXCEPT ![r] = "joining"]
            /\ UNCHANGED <<current, created, slot>>
       ELSE /\ created < MaxSessions
            /\ created' = created + 1
            /\ current' = created + 1
            /\ slot' = [slot EXCEPT ![created + 1] = "queued"]
            /\ mine' = [mine EXCEPT ![r] = created + 1]
            /\ reqPc' = [reqPc EXCEPT ![r] = "creating"]
            /\ UNCHANGED idle
  /\ UNCHANGED <<active, callbacks, gone>>

\* An error is returned to the creator and ready is left open.
Created_NoClose(r) ==
  LET s == mine[r] IN
  /\ reqPc[r] = "creating"
  /\ \/ /\ slot' = [slot EXCEPT ![s] = "owned"]
        /\ active' = [active EXCEPT ![s] = 1]
        /\ reqPc' = [reqPc EXCEPT ![r] = "held"]
        /\ UNCHANGED <<current, mine, gone>>
     \/ /\ current' = IF current = s THEN 0 ELSE current
        /\ Leave(r)
        /\ UNCHANGED <<slot, active>>
  /\ UNCHANGED <<created, idle, callbacks>>

\* leaseDownload returns a slot or an error; the creator's context, when it is
\* done, cancels the wait (AfterFunc), so it never lasts for ever.
Created(r) ==
  LET s == mine[r] IN
  /\ reqPc[r] = "creating"
  /\ \/ /\ slot' = [slot EXCEPT ![s] = "owned"]
        /\ active' = [active EXCEPT ![s] = 1]
        /\ reqPc' = [reqPc EXCEPT ![r] = "held"]
        /\ UNCHANGED <<current, mine, gone>>
     \/ /\ slot' = [slot EXCEPT ![s] = "failed"]
        /\ current' = IF current = s THEN 0 ELSE current
        /\ Leave(r)
        /\ UNCHANGED active
  /\ UNCHANGED <<created, idle, callbacks>>

\* A joiner's select: with both ready it takes either case.
JoinReady(r) ==
  /\ reqPc[r] = "joining" /\ slot[mine[r]] # "queued"
  /\ reqPc' = [reqPc EXCEPT ![r] = "relock"]
  /\ UNCHANGED <<current, created, perSession, mine, gone>>

JoinGone(r) ==
  /\ reqPc[r] = "joining" /\ r \in gone
  /\ Leave(r)
  /\ UNCHANGED <<current, created, perSession>>

\* The session released its slot while the joiner waited.
Ended(s) == current # s

Full(s) == active[s] >= MaxConns

\* The joiner's second critical section.
Join(r) ==
  LET s == mine[r] IN
  /\ reqPc[r] = "relock"
  /\ \/ /\ slot[s] = "failed"
        /\ Leave(r) /\ UNCHANGED active
     \/ /\ slot[s] # "failed" /\ Ended(s)
        /\ reqPc' = [reqPc EXCEPT ![r] = "retry"]
        /\ mine' = [mine EXCEPT ![r] = 0]
        /\ UNCHANGED <<active, gone>>
     \/ /\ slot[s] # "failed" /\ ~Ended(s) /\ Full(s)
        /\ Leave(r) /\ UNCHANGED active
     \/ /\ slot[s] # "failed" /\ ~Ended(s) /\ ~Full(s)
        /\ active' = [active EXCEPT ![s] = @ + 1]
        /\ reqPc' = [reqPc EXCEPT ![r] = "held"]
        /\ UNCHANGED <<mine, gone>>
  /\ UNCHANGED <<current, created, slot, idle, callbacks>>

\* The function AcquireDownloadSession returned (its sync.Once lets one call
\* through).  The last request out arms the timer, or finishes the session when
\* the grace setting is zero.
Release(r) ==
  LET s == mine[r]
      left == active[s] - 1
  IN
  /\ reqPc[r] = "held"
  /\ active' = [active EXCEPT ![s] = left]
  /\ Leave(r)
  /\ IF left > 0 \/ idle[s] # "nil"
       THEN UNCHANGED <<current, slot, idle>>
       ELSE \/ Finish(s)
            \/ /\ idle' = [idle EXCEPT ![s] = "armed"]
               /\ UNCHANGED <<current, slot>>
  /\ UNCHANGED <<created, callbacks>>

\* The grace period is over.
TimerFires(s) ==
  /\ idle[s] = "armed" /\ callbacks[s] < MaxCallbacks
  /\ idle' = [idle EXCEPT ![s] = "fired"]
  /\ callbacks' = [callbacks EXCEPT ![s] = @ + 1]
  /\ UNCHANGED <<current, created, slot, active, reqPc, mine, gone>>

\* The callback does not look at the count again.
Callback_NoRecheck(s) ==
  /\ callbacks[s] > 0
  /\ callbacks' = [callbacks EXCEPT ![s] = @ - 1]
  /\ Finish(s)
  /\ UNCHANGED <<created, active, reqPc, mine, gone>>

\* The callback gets the mutex and looks at the count again.
Callback(s) ==
  /\ callbacks[s] > 0
  /\ callbacks' = [callbacks EXCEPT ![s] = @ - 1]
  /\ IF active[s] > 0
       THEN idle' = [idle EXCEPT ![s] = "nil"] /\ UNCHANGED <<current, slot>>
       ELSE Finish(s)
  /\ UNCHANGED <<created, active, reqPc, mine, gone>>

\* The client of a request goes away; only a joiner's select looks.
ClientGone(r) ==
  /\ reqPc[r] = "joining" /\ r \notin gone
  /\ gone' = gone \cup {r}
  /\ UNCHANGED <<current, created, perSession, reqPc, mine>>

RequestStep(r) == Created(r) \/ JoinReady(r) \/ JoinGone(r) \/ Join(r) \/ Release(r)

TimerStep(s) == TimerFires(s) \/ Callback(s)

SessionNext ==
  \/ \E r \in RangeRequests : Enter(r) \/ RequestStep(r) \/ ClientGone(r)
  \/ \E s \in Sessions : TimerStep(s)

\* A request that is being served ends, a goroutine that can go on does, and
\* timers fire.  No client has to come.
SessionFairness ==
  /\ \A r \in RangeRequests :
       WF_sessionVars(RequestStep(r)) /\ WF_sessionVars(reqPc[r] = "retry" /\ Enter(r))
  /\ \A s \in Sessions : WF_sessionVars(TimerStep(s))

SessionSpec == SessionInit /\ [][SessionNext]_sessionVars

------------------------------------------------------------------------------
SessionTypeOK ==
  /\ current \in 0..created
  /\ created \in 0..MaxSessions
  /\ slot \in [Sessions -> SlotStates]
  /\ active \in [Sessions -> 0..MaxConns]
  /\ idle \in [Sessions -> TimerStates]
  /\ callbacks \in [Sessions -> 0..MaxCallbacks]
  /\ reqPc \in [RangeRequests -> {"idle", "creating", "joining", "relock", "retry", "held"}]
  /\ mine \in [RangeRequests -> 0..created]
  /\ gone \subseteq RangeRequests

\* A request that is being served has a slot under it, and its session is the
\* one RecordDownloadSessionBytes finds under the key: no timer that fired early
\* or late returns the slot beneath a reader.
SlotUnderReader ==
  \A r \in RangeRequests : reqPc[r] = "held" => slot[mine[r]] = "owned" /\ current = mine[r]

\* The count is the number of requests being served, so the last one out and
\* only that one starts the teardown.
ActiveExact == \A s \in Sessions : active[s] = Cardinality(Holders(s))

\* One logical download occupies (or queues for) one slot, however its requests
\* and its teardown interleave: a session is gone from the map when another
\* begins.
OneSlotPerDownload ==
  \A s \in Sessions : slot[s] \in {"queued", "owned"} => s = current

\* A download session never loses the slot under a reader, counts its readers
\* exactly, and keeps one slot, whatever order joins, releases, grace callbacks
\* and hang-ups come in: the four invariants above.
SessionSound == SessionTypeOK /\ SlotUnderReader /\ ActiveExact /\ OneSlotPerDownload

\* A request that joins gets an answer, also when the session it waits for ends
\* or fails: it is served, refused or its client left (or the bound is reached).
RequestAnswered ==
  \A r \in RangeRequests :
    reqPc[r] = "joining" ~> (reqPc[r] \in {"held", "idle"} \/ created = MaxSessions)

------------------------------------------------------------------------------
\* What a comment of the code says, and the code does not do: "A client that
\* disconnects while queued must not leave the session waiting forever on a slot
\* nobody will use" (AcquireDownloadSession).
UnusedSlotReturns ==
  \A s \in Sessions :
    (slot[s] = "owned" /\ active[s] = 0) ~> (slot[s] = "returned" \/ active[s] > 0)
==============================================================================
