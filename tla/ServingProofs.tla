---------------------------- MODULE ServingProofs -----------------------------
(***************************************************************************)
(* Proofs about the serving of users: the sessions that share a download   *)
(* slot (DownloadSession), the handles with which stored segments are read *)
(* (FileRefs), the record of a download that the client pulls itself       *)
(* (ClientDownload), and the sessions of users (Access).                   *)
(***************************************************************************)
EXTENDS DownloadSession, FileRefs, ClientDownload, Access, FiniteSetTheorems, TLAPS

(***************************************************************************)
(* DownloadSession.  Who holds a session, who waits for its slot, and which*)
(* timer it has set: every request and every session finds its place.      *)
(***************************************************************************)
\* A request is in or waits for a session exactly between its two ends; its
\* creator waits for a slot that is still queued for; a joiner that got past
\* ready found it closed.
RequestsPlaced ==
  \A r \in RangeRequests :
    /\ mine[r] = 0 <=> reqPc[r] \in {"idle", "retry"}
    /\ reqPc[r] = "creating" => slot[mine[r]] = "queued"
    /\ reqPc[r] = "relock" => slot[mine[r]] # "queued"

\* A session has one creator.
OneCreator ==
  \A q, r \in RangeRequests :
    (reqPc[q] = "creating" /\ reqPc[r] = "creating" /\ mine[q] = mine[r]) => q = r

\* The session in the map has its slot or queues for it.
CurrentLive == current # 0 => slot[current] \in {"queued", "owned"}

\* Sessions are made in order, and no timer runs before there is a slot.
TimersFollowSlots ==
  \A s \in Sessions :
    /\ slot[s] = "unmade" <=> s > created
    /\ slot[s] \in {"unmade", "queued"} => idle[s] = "nil" /\ callbacks[s] = 0

\* The inductive invariant: SessionSound says nothing of requests that wait, and
\* of timers, and both can end a session.
IInv == SessionSound /\ RequestsPlaced /\ OneCreator /\ CurrentLive /\ TimersFollowSlots

\* Every set of requests is finite.
LEMMA FiniteHolders ==
  ASSUME NEW s
  PROVE  IsFiniteSet(Holders(s)) /\ Cardinality(Holders(s)) \in Nat
  BY RequestsAssumption, FS_Subset, FS_CardinalityType DEF Holders

LEMMA InitInv == SessionInit => IInv
  <1> SUFFICES ASSUME SessionInit PROVE IInv
    OBVIOUS
  <1>1. SessionTypeOK
    BY MaxConnsAssumption, MaxSessionsAssumption, MaxCallbacksAssumption
    DEF SessionInit, SessionTypeOK, SlotStates, TimerStates
  <1>2. ActiveExact
    <2>1. \A s \in Sessions : Holders(s) = {} /\ active[s] = 0
      BY DEF SessionInit, Holders
    <2>2. QED
      BY <2>1, FS_EmptySet DEF ActiveExact
  <1>3. SlotUnderReader /\ OneSlotPerDownload
    BY DEF SessionInit, SlotUnderReader, OneSlotPerDownload
  <1>4. RequestsPlaced /\ OneCreator /\ CurrentLive /\ TimersFollowSlots
    BY DEF SessionInit, RequestsPlaced, OneCreator, CurrentLive, TimersFollowSlots, Sessions
  <1>5. QED
    BY <1>1, <1>2, <1>3, <1>4 DEF IInv, SessionSound

LEMMA NextInv == IInv /\ [SessionNext]_sessionVars => IInv'
  <1> SUFFICES ASSUME IInv, [SessionNext]_sessionVars PROVE IInv'
    OBVIOUS
  <1> USE MaxConnsAssumption, MaxSessionsAssumption, MaxCallbacksAssumption
  <1> USE DEF IInv, SessionSound, Sessions
  <1>1. ASSUME NEW r \in RangeRequests, Enter(r) PROVE IInv'
    <2>1. CASE current # 0
      <3>1. /\ reqPc[r] \in {"idle", "retry"} /\ current \in 1..created
            /\ idle' = [idle EXCEPT ![current] = "nil"]
            /\ mine' = [mine EXCEPT ![r] = current]
            /\ reqPc' = [reqPc EXCEPT ![r] = "joining"]
            /\ UNCHANGED <<current, created, slot, active, callbacks, gone>>
        BY <1>1, <2>1 DEF Enter, SessionTypeOK
      <3>2. SessionTypeOK'
        BY <3>1 DEF SessionTypeOK, TimerStates
      <3>3. SlotUnderReader'
        BY <3>1 DEF SessionTypeOK, SlotUnderReader
      <3>4. ActiveExact'
        <4>1. \A s \in Sessions : Holders(s)' = Holders(s)
          BY <3>1 DEF SessionTypeOK, Holders
        <4>2. QED
          BY <3>1, <4>1 DEF ActiveExact
      <3>5. OneSlotPerDownload' /\ CurrentLive'
        BY <3>1 DEF OneSlotPerDownload, CurrentLive
      <3>6. RequestsPlaced'
        BY <3>1 DEF SessionTypeOK, RequestsPlaced
      <3>7. OneCreator'
        BY <3>1 DEF SessionTypeOK, OneCreator
      <3>8. TimersFollowSlots'
        BY <3>1 DEF SessionTypeOK, TimersFollowSlots
      <3>9. QED
        BY <3>2, <3>3, <3>4, <3>5, <3>6, <3>7, <3>8
    <2>2. CASE current = 0
      <3>1. /\ reqPc[r] \in {"idle", "retry"} /\ created < MaxSessions
            /\ created' = created + 1 /\ current' = created + 1
            /\ slot' = [slot EXCEPT ![created + 1] = "queued"]
            /\ mine' = [mine EXCEPT ![r] = created + 1]
            /\ reqPc' = [reqPc EXCEPT ![r] = "creating"]
            /\ UNCHANGED <<idle, active, callbacks, gone>>
        BY <1>1, <2>2 DEF Enter, SessionTypeOK
      <3>2. SessionTypeOK'
        BY <3>1 DEF SessionTypeOK, SlotStates
      <3>3. SlotUnderReader'
        BY <2>2, <3>1 DEF SessionTypeOK, SlotUnderReader, RequestsPlaced
      <3>4. ActiveExact'
        <4>1. \A s \in Sessions : Holders(s)' = Holders(s)
          BY <3>1 DEF SessionTypeOK, Holders
        <4>2. QED
          BY <3>1, <4>1 DEF ActiveExact
      <3>5. OneSlotPerDownload' /\ CurrentLive'
        BY <2>2, <3>1 DEF SessionTypeOK, OneSlotPerDownload, CurrentLive
      <3>6. RequestsPlaced'
        BY <3>1 DEF SessionTypeOK, RequestsPlaced
      <3>7. OneCreator'
        BY <3>1 DEF SessionTypeOK, OneCreator
      <3>8. TimersFollowSlots'
        BY <3>1 DEF SessionTypeOK, TimersFollowSlots
      <3>9. QED
        BY <3>2, <3>3, <3>4, <3>5, <3>6, <3>7, <3>8
    <2>3. QED
      BY <2>1, <2>2
  <1>2. ASSUME NEW r \in RangeRequests, Created(r) PROVE IInv'
    <2>1. /\ reqPc[r] = "creating" /\ mine[r] \in 1..created /\ mine[r] \in Sessions
          /\ slot[mine[r]] = "queued" /\ current = mine[r]
          /\ idle[mine[r]] = "nil" /\ callbacks[mine[r]] = 0
      BY <1>2 DEF Created, SessionTypeOK, RequestsPlaced, OneSlotPerDownload, TimersFollowSlots
    <2>2. Holders(mine[r]) = {}
      BY <2>1 DEF Holders, SlotUnderReader
    <2>3. CASE slot' = [slot EXCEPT ![mine[r]] = "owned"]
      <3>1. /\ slot' = [slot EXCEPT ![mine[r]] = "owned"]
          /\ active' = [active EXCEPT ![mine[r]] = 1]
          /\ reqPc' = [reqPc EXCEPT ![r] = "held"]
          /\ reqPc[r] = "creating"
          /\ UNCHANGED <<current, created, idle, callbacks, mine, gone>>
        BY <1>2, <2>1, <2>3 DEF Created, SessionTypeOK
      <3>2. SessionTypeOK'
        BY <3>1, <2>1 DEF SessionTypeOK, SlotStates
      <3>3. SlotUnderReader'
        BY <3>1, <2>1 DEF SessionTypeOK, SlotUnderReader, RequestsPlaced
      <3>4. ActiveExact'
        <4>1. Holders(mine[r])' = Holders(mine[r]) \cup {r}
          BY <3>1 DEF SessionTypeOK, Holders
        <4>2. \A s \in Sessions \ {mine[r]} : Holders(s)' = Holders(s)
          BY <3>1 DEF SessionTypeOK, Holders
        <4>3. r \notin Holders(mine[r])
          BY <3>1 DEF Holders
        <4>4. Cardinality(Holders(mine[r])') = 1
          BY <2>2, <4>1, FS_Singleton
        <4>5. QED
          BY <2>1, <3>1, <4>2, <4>4 DEF SessionTypeOK, ActiveExact
      <3>5. OneSlotPerDownload' /\ CurrentLive'
        BY <3>1, <2>1 DEF SessionTypeOK, OneSlotPerDownload, CurrentLive
      <3>6. RequestsPlaced'
        BY <3>1, <2>1 DEF SessionTypeOK, RequestsPlaced, OneCreator
      <3>7. OneCreator'
        BY <3>1, <2>1 DEF SessionTypeOK, OneCreator
      <3>8. TimersFollowSlots'
        BY <3>1, <2>1 DEF SessionTypeOK, TimersFollowSlots
      <3>9. QED
        BY <3>2, <3>3, <3>4, <3>5, <3>6, <3>7, <3>8
    <2>4. CASE slot' = [slot EXCEPT ![mine[r]] = "failed"]
      <3>1. /\ slot' = [slot EXCEPT ![mine[r]] = "failed"]
          /\ current' = 0 /\ gone' = gone \ {r}
          /\ reqPc' = [reqPc EXCEPT ![r] = "idle"] /\ mine' = [mine EXCEPT ![r] = 0]
          /\ reqPc[r] = "creating"
          /\ UNCHANGED <<active, created, idle, callbacks>>
        BY <1>2, <2>1, <2>4 DEF Created, Leave, SessionTypeOK
      <3>2. SessionTypeOK'
        BY <3>1, <2>1 DEF SessionTypeOK, SlotStates
      <3>3. SlotUnderReader'
        BY <3>1, <2>1 DEF SessionTypeOK, SlotUnderReader, RequestsPlaced
      <3>4. ActiveExact'
        <4>1. \A s \in Sessions : Holders(s)' = Holders(s)
          BY <3>1, <2>1 DEF SessionTypeOK, Holders, RequestsPlaced
        <4>2. QED
          BY <3>1, <4>1 DEF ActiveExact
      <3>5. OneSlotPerDownload' /\ CurrentLive'
        BY <3>1, <2>1 DEF SessionTypeOK, OneSlotPerDownload, CurrentLive
      <3>6. RequestsPlaced'
        BY <3>1, <2>1 DEF SessionTypeOK, RequestsPlaced, OneCreator
      <3>7. OneCreator'
        BY <3>1, <2>1 DEF SessionTypeOK, OneCreator
      <3>8. TimersFollowSlots'
        BY <3>1, <2>1 DEF SessionTypeOK, TimersFollowSlots
      <3>9. QED
        BY <3>2, <3>3, <3>4, <3>5, <3>6, <3>7, <3>8
    <2>5. QED
      BY <1>2, <2>3, <2>4 DEF Created
  <1>3. ASSUME NEW r \in RangeRequests, JoinReady(r) PROVE IInv'
    <2>1. /\ reqPc[r] = "joining" /\ slot[mine[r]] # "queued"
        /\ reqPc' = [reqPc EXCEPT ![r] = "relock"]
        /\ UNCHANGED <<current, created, slot, active, idle, callbacks, mine, gone>>
      BY <1>3 DEF JoinReady, perSession
    <2>2. SessionTypeOK'
      BY <2>1 DEF SessionTypeOK, SlotStates, TimerStates
    <2>3. SlotUnderReader'
      BY <2>1 DEF SessionTypeOK, SlotUnderReader, RequestsPlaced
    <2>4. ActiveExact'
      <3>1. \A s \in Sessions : Holders(s)' = Holders(s)
        BY <2>1 DEF SessionTypeOK, Holders, RequestsPlaced
      <3>2. QED
        BY <2>1, <3>1 DEF ActiveExact
    <2>5. OneSlotPerDownload' /\ CurrentLive'
      BY <2>1 DEF SessionTypeOK, OneSlotPerDownload, CurrentLive
    <2>6. RequestsPlaced'
      BY <2>1 DEF SessionTypeOK, RequestsPlaced
    <2>7. OneCreator'
      BY <2>1 DEF SessionTypeOK, OneCreator
    <2>8. TimersFollowSlots'
      BY <2>1 DEF SessionTypeOK, TimersFollowSlots
    <2>9. QED
      BY <2>2, <2>3, <2>4, <2>5, <2>6, <2>7, <2>8
  <1>4. ASSUME NEW r \in RangeRequests, JoinGone(r) PROVE IInv'
    <2>1. /\ reqPc[r] = "joining" /\ gone' = gone \ {r}
        /\ reqPc' = [reqPc EXCEPT ![r] = "idle"] /\ mine' = [mine EXCEPT ![r] = 0]
        /\ UNCHANGED <<current, created, slot, active, idle, callbacks>>
      BY <1>4 DEF JoinGone, Leave, perSession
    <2>2. SessionTypeOK'
      BY <2>1 DEF SessionTypeOK, SlotStates, TimerStates
    <2>3. SlotUnderReader'
      BY <2>1 DEF SessionTypeOK, SlotUnderReader, RequestsPlaced
    <2>4. ActiveExact'
      <3>1. \A s \in Sessions : Holders(s)' = Holders(s)
        BY <2>1 DEF SessionTypeOK, Holders, RequestsPlaced
      <3>2. QED
        BY <2>1, <3>1 DEF ActiveExact
    <2>5. OneSlotPerDownload' /\ CurrentLive'
      BY <2>1 DEF SessionTypeOK, OneSlotPerDownload, CurrentLive
    <2>6. RequestsPlaced'
      BY <2>1 DEF SessionTypeOK, RequestsPlaced
    <2>7. OneCreator'
      BY <2>1 DEF SessionTypeOK, OneCreator
    <2>8. TimersFollowSlots'
      BY <2>1 DEF SessionTypeOK, TimersFollowSlots
    <2>9. QED
      BY <2>2, <2>3, <2>4, <2>5, <2>6, <2>7, <2>8
  <1>5. ASSUME NEW r \in RangeRequests, Join(r) PROVE IInv'
    <2>1. CASE reqPc'[r] = "idle"
      <3>1. /\ reqPc[r] = "relock" /\ gone' = gone \ {r}
          /\ reqPc' = [reqPc EXCEPT ![r] = "idle"] /\ mine' = [mine EXCEPT ![r] = 0]
          /\ UNCHANGED <<current, created, slot, active, idle, callbacks>>
        BY <1>5, <2>1 DEF Join, Leave, SessionTypeOK
      <3>2. SessionTypeOK'
        BY <3>1 DEF SessionTypeOK, SlotStates, TimerStates
      <3>3. SlotUnderReader'
        BY <3>1 DEF SessionTypeOK, SlotUnderReader, RequestsPlaced
      <3>4. ActiveExact'
        <4>1. \A s \in Sessions : Holders(s)' = Holders(s)
          BY <3>1 DEF SessionTypeOK, Holders, RequestsPlaced
        <4>2. QED
          BY <3>1, <4>1 DEF ActiveExact
      <3>5. OneSlotPerDownload' /\ CurrentLive'
        BY <3>1 DEF SessionTypeOK, OneSlotPerDownload, CurrentLive
      <3>6. RequestsPlaced'
        BY <3>1 DEF SessionTypeOK, RequestsPlaced
      <3>7. OneCreator'
        BY <3>1 DEF SessionTypeOK, OneCreator
      <3>8. TimersFollowSlots'
        BY <3>1 DEF SessionTypeOK, TimersFollowSlots
      <3>9. QED
        BY <3>2, <3>3, <3>4, <3>5, <3>6, <3>7, <3>8
    <2>2. CASE reqPc'[r] = "retry"
      <3>1. /\ reqPc[r] = "relock" /\ gone' = gone
          /\ reqPc' = [reqPc EXCEPT ![r] = "retry"] /\ mine' = [mine EXCEPT ![r] = 0]
          /\ UNCHANGED <<current, created, slot, active, idle, callbacks>>
        BY <1>5, <2>2 DEF Join, Leave, SessionTypeOK
      <3>2. SessionTypeOK'
        BY <3>1 DEF SessionTypeOK, SlotStates, TimerStates
      <3>3. SlotUnderReader'
        BY <3>1 DEF SessionTypeOK, SlotUnderReader, RequestsPlaced
      <3>4. ActiveExact'
        <4>1. \A s \in Sessions : Holders(s)' = Holders(s)
          BY <3>1 DEF SessionTypeOK, Holders, RequestsPlaced
        <4>2. QED
          BY <3>1, <4>1 DEF ActiveExact
      <3>5. OneSlotPerDownload' /\ CurrentLive'
        BY <3>1 DEF SessionTypeOK, OneSlotPerDownload, CurrentLive
      <3>6. RequestsPlaced'
        BY <3>1 DEF SessionTypeOK, RequestsPlaced
      <3>7. OneCreator'
        BY <3>1 DEF SessionTypeOK, OneCreator
      <3>8. TimersFollowSlots'
        BY <3>1 DEF SessionTypeOK, TimersFollowSlots
      <3>9. QED
        BY <3>2, <3>3, <3>4, <3>5, <3>6, <3>7, <3>8
    <2>3. CASE reqPc'[r] = "held"
      <3>1. /\ reqPc[r] = "relock" /\ mine[r] \in 1..created /\ mine[r] \in Sessions
          /\ slot[mine[r]] = "owned" /\ current = mine[r] /\ active[mine[r]] < MaxConns
          /\ active' = [active EXCEPT ![mine[r]] = @ + 1]
          /\ reqPc' = [reqPc EXCEPT ![r] = "held"]
          /\ UNCHANGED <<current, created, slot, idle, callbacks, mine, gone>>
        <4>1. /\ reqPc[r] = "relock" /\ slot[mine[r]] # "failed"
              /\ current = mine[r] /\ ~(active[mine[r]] >= MaxConns)
              /\ active' = [active EXCEPT ![mine[r]] = @ + 1]
              /\ reqPc' = [reqPc EXCEPT ![r] = "held"]
              /\ UNCHANGED <<current, created, slot, idle, callbacks, mine, gone>>
          BY <1>5, <2>3 DEF Join, Leave, Ended, Full, SessionTypeOK
        <4>2. mine[r] \in 0..created /\ mine[r] # 0 /\ created \in 0..MaxSessions
          BY <4>1 DEF SessionTypeOK, RequestsPlaced
        <4>3. mine[r] \in 1..created /\ mine[r] \in Sessions
          BY <4>2
        <4>4. slot[mine[r]] = "owned"
          BY <4>1, <4>3 DEF RequestsPlaced, CurrentLive
        <4>5. active[mine[r]] < MaxConns
          BY <4>1, <4>3 DEF SessionTypeOK
        <4>6. QED
          BY <4>1, <4>3, <4>4, <4>5
      <3>2. SessionTypeOK'
        BY <3>1 DEF SessionTypeOK, SlotStates, TimerStates
      <3>3. SlotUnderReader'
        BY <3>1 DEF SessionTypeOK, SlotUnderReader, RequestsPlaced
      <3>4. ActiveExact'
        <4>1. Holders(mine[r])' = Holders(mine[r]) \cup {r}
          BY <3>1 DEF SessionTypeOK, Holders
        <4>2. \A s \in Sessions \ {mine[r]} : Holders(s)' = Holders(s)
          BY <3>1 DEF SessionTypeOK, Holders
        <4>3. r \notin Holders(mine[r])
          BY <3>1 DEF Holders
        <4>4. Cardinality(Holders(mine[r])') = Cardinality(Holders(mine[r])) + 1
          BY <4>1, <4>3, FiniteHolders, FS_AddElement
        <4>5. QED
          BY <3>1, <4>2, <4>4 DEF SessionTypeOK, ActiveExact
      <3>5. OneSlotPerDownload' /\ CurrentLive'
        BY <3>1 DEF SessionTypeOK, OneSlotPerDownload, CurrentLive
      <3>6. RequestsPlaced'
        BY <3>1 DEF SessionTypeOK, RequestsPlaced
      <3>7. OneCreator'
        BY <3>1 DEF SessionTypeOK, OneCreator
      <3>8. TimersFollowSlots'
        BY <3>1 DEF SessionTypeOK, TimersFollowSlots
      <3>9. QED
        BY <3>2, <3>3, <3>4, <3>5, <3>6, <3>7, <3>8
    <2>4. QED
      BY <1>5, <2>1, <2>2, <2>3 DEF Join, Leave, SessionTypeOK
  <1>6. ASSUME NEW r \in RangeRequests, Release(r) PROVE IInv'
    <2>1. /\ reqPc[r] = "held" /\ mine[r] \in 1..created /\ mine[r] \in Sessions
          /\ slot[mine[r]] = "owned" /\ current = mine[r]
          /\ reqPc' = [reqPc EXCEPT ![r] = "idle"] /\ mine' = [mine EXCEPT ![r] = 0]
          /\ gone' = gone \ {r}
          /\ active' = [active EXCEPT ![mine[r]] = active[mine[r]] - 1]
          /\ UNCHANGED <<created, callbacks>>
      <3>1. /\ reqPc[r] = "held" /\ active' = [active EXCEPT ![mine[r]] = active[mine[r]] - 1]
            /\ Leave(r) /\ UNCHANGED <<created, callbacks>>
        BY <1>6 DEF Release
      <3>2. mine[r] \in 0..created /\ mine[r] # 0 /\ created \in 0..MaxSessions
        BY <3>1 DEF SessionTypeOK, RequestsPlaced
      <3>3. slot[mine[r]] = "owned" /\ current = mine[r]
        BY <3>1 DEF SlotUnderReader
      <3>4. QED
        BY <3>1, <3>2, <3>3 DEF Leave
    <2>2. PICK s \in Sessions : s = mine[r]
      BY <2>1
    <2>3. /\ r \in Holders(s) /\ Holders(s)' = Holders(s) \ {r}
          /\ \A x \in Sessions \ {s} : Holders(x)' = Holders(x)
      BY <2>1, <2>2 DEF SessionTypeOK, Holders
    <2>4. /\ Cardinality(Holders(s)') = active[s] - 1
          /\ active[s] \in Nat /\ active[s] - 1 \in 0..MaxConns
      <3>1. Cardinality(Holders(s)') = Cardinality(Holders(s)) - 1
        BY <2>3, FiniteHolders, FS_RemoveElement, ZenonT(60)
      <3>2. IsFiniteSet(Holders(s)') /\ Cardinality(Holders(s)') \in Nat
        BY <2>3, FiniteHolders, FS_Subset, FS_CardinalityType
      <3>3. active[s] \in 0..MaxConns /\ active[s] = Cardinality(Holders(s))
        BY DEF SessionTypeOK, ActiveExact
      <3>4. QED
        BY <3>1, <3>2, <3>3
    <2>5. ActiveExact'
      BY <2>1, <2>2, <2>3, <2>4 DEF SessionTypeOK, ActiveExact
    <2>6. /\ active' \in [Sessions -> 0..MaxConns] /\ callbacks' \in [Sessions -> 0..MaxCallbacks]
           /\ reqPc' \in [RangeRequests -> {"idle", "creating", "joining", "relock", "retry", "held"}]
           /\ mine' \in [RangeRequests -> 0..created'] /\ gone' \subseteq RangeRequests
      <3>1. active' = [active EXCEPT ![s] = active[s] - 1]
        BY <2>1, <2>2
      <3>2. active' \in [Sessions -> 0..MaxConns]
        BY <2>4, <3>1 DEF SessionTypeOK
      <3>3. QED
        BY <2>1, <3>2 DEF SessionTypeOK
    <2>7. active[s] - 1 = 0 => \A q \in RangeRequests \ {r} : reqPc[q] # "held"
      <3>1. active[s] - 1 = 0 => Holders(s)' = {}
        <4>1. IsFiniteSet(Holders(s)')
          BY <2>3, FiniteHolders, FS_Subset
        <4>2. QED
          BY <2>4, <4>1, FS_EmptySet
      <3>2. \A q \in RangeRequests : reqPc[q] = "held" => mine[q] = s
        BY <2>1, <2>2 DEF SlotUnderReader
      <3>3. QED
        BY <2>3, <3>1, <3>2 DEF Holders
    <2>8. CASE slot' = [slot EXCEPT ![mine[r]] = "returned"]
      <3>1. /\ slot' = [slot EXCEPT ![mine[r]] = "returned"] /\ current' = 0
            /\ idle' = [idle EXCEPT ![mine[r]] = "nil"]
            /\ \A q \in RangeRequests \ {r} : reqPc[q] # "held"
        <4>1. Finish(mine[r]) /\ ~(active[mine[r]] - 1 > 0)
          BY <1>6, <2>1, <2>8 DEF Release, SessionTypeOK
        <4>2. QED
          BY <2>1, <2>2, <2>4, <2>7, <4>1 DEF Finish
      <3>2. SessionTypeOK'
        BY <2>1, <2>6, <3>1, SMTT(60) DEF SessionTypeOK, SlotStates, TimerStates
      <3>3. SlotUnderReader' /\ OneSlotPerDownload' /\ CurrentLive'
        BY <2>1, <3>1 DEF SessionTypeOK, SlotUnderReader, OneSlotPerDownload, CurrentLive
      <3>4. RequestsPlaced' /\ OneCreator'
        BY <2>1, <3>1 DEF SessionTypeOK, RequestsPlaced, OneCreator
      <3>5. TimersFollowSlots'
        BY <2>1, <3>1 DEF SessionTypeOK, TimersFollowSlots
      <3>6. QED
        BY <2>5, <3>2, <3>3, <3>4, <3>5
    <2>9. CASE slot' = slot
      <3>1. /\ slot' = slot /\ current' = current
            /\ idle' = idle \/ idle' = [idle EXCEPT ![mine[r]] = "armed"]
        BY <1>6, <2>1, <2>9 DEF Release, Finish, SessionTypeOK
      <3>2. SessionTypeOK'
        BY <2>1, <2>6, <3>1 DEF SessionTypeOK, TimerStates
      <3>3. SlotUnderReader' /\ OneSlotPerDownload' /\ CurrentLive'
        BY <2>1, <3>1 DEF SessionTypeOK, SlotUnderReader, OneSlotPerDownload, CurrentLive
      <3>4. RequestsPlaced' /\ OneCreator'
        BY <2>1, <3>1 DEF SessionTypeOK, RequestsPlaced, OneCreator
      <3>5. TimersFollowSlots'
        BY <2>1, <3>1 DEF SessionTypeOK, TimersFollowSlots
      <3>6. QED
        BY <2>5, <3>2, <3>3, <3>4, <3>5
    <2>10. QED
      BY <1>6, <2>1, <2>8, <2>9 DEF Release, Finish
  <1>7. ASSUME NEW r \in RangeRequests, ClientGone(r) PROVE IInv'
    <2>1. /\ gone' = gone \cup {r}
        /\ UNCHANGED <<current, created, slot, active, idle, callbacks, reqPc, mine>>
      BY <1>7 DEF ClientGone, perSession
    <2>2. SessionTypeOK'
      BY <2>1 DEF SessionTypeOK, SlotStates, TimerStates
    <2>3. SlotUnderReader'
      BY <2>1 DEF SessionTypeOK, SlotUnderReader, RequestsPlaced
    <2>4. ActiveExact'
      <3>1. \A s \in Sessions : Holders(s)' = Holders(s)
        BY <2>1 DEF SessionTypeOK, Holders, RequestsPlaced
      <3>2. QED
        BY <2>1, <3>1 DEF ActiveExact
    <2>5. OneSlotPerDownload' /\ CurrentLive'
      BY <2>1 DEF SessionTypeOK, OneSlotPerDownload, CurrentLive
    <2>6. RequestsPlaced'
      BY <2>1 DEF SessionTypeOK, RequestsPlaced
    <2>7. OneCreator'
      BY <2>1 DEF SessionTypeOK, OneCreator
    <2>8. TimersFollowSlots'
      BY <2>1 DEF SessionTypeOK, TimersFollowSlots
    <2>9. QED
      BY <2>2, <2>3, <2>4, <2>5, <2>6, <2>7, <2>8
  <1>8. ASSUME NEW s \in Sessions, TimerFires(s) PROVE IInv'
    <2>1. /\ idle[s] = "armed" /\ callbacks[s] < MaxCallbacks
        /\ idle' = [idle EXCEPT ![s] = "fired"]
        /\ callbacks' = [callbacks EXCEPT ![s] = @ + 1]
        /\ UNCHANGED <<current, created, slot, active, reqPc, mine, gone>>
      BY <1>8 DEF TimerFires
    <2>2. SessionTypeOK'
      BY <2>1, SMTT(60) DEF SessionTypeOK, SlotStates, TimerStates
    <2>3. SlotUnderReader'
      BY <2>1 DEF SessionTypeOK, SlotUnderReader, RequestsPlaced
    <2>4. ActiveExact'
      <3>1. \A x \in Sessions : Holders(x)' = Holders(x)
        BY <2>1 DEF SessionTypeOK, Holders, RequestsPlaced
      <3>2. QED
        BY <2>1, <3>1 DEF ActiveExact
    <2>5. OneSlotPerDownload' /\ CurrentLive'
      BY <2>1 DEF SessionTypeOK, OneSlotPerDownload, CurrentLive
    <2>6. RequestsPlaced'
      BY <2>1 DEF SessionTypeOK, RequestsPlaced
    <2>7. OneCreator'
      BY <2>1 DEF SessionTypeOK, OneCreator
    <2>8. TimersFollowSlots'
      BY <2>1 DEF SessionTypeOK, TimersFollowSlots
    <2>9. QED
      BY <2>2, <2>3, <2>4, <2>5, <2>6, <2>7, <2>8
  <1>9. ASSUME NEW s \in Sessions, Callback(s) PROVE IInv'
    <2>1. /\ callbacks[s] > 0 /\ callbacks' = [callbacks EXCEPT ![s] = @ - 1]
          /\ idle' = [idle EXCEPT ![s] = "nil"]
          /\ UNCHANGED <<created, active, reqPc, mine, gone>>
      BY <1>9 DEF Callback, Finish
    <2>2. ActiveExact'
      <3>1. \A x \in Sessions : Holders(x)' = Holders(x)
        BY <2>1 DEF Holders
      <3>2. QED
        BY <2>1, <3>1 DEF ActiveExact
    <2>3. CASE slot' = slot /\ current' = current
      <3>1. SessionTypeOK'
        BY <2>1, <2>3 DEF SessionTypeOK, TimerStates
      <3>2. SlotUnderReader' /\ OneSlotPerDownload' /\ CurrentLive'
        BY <2>1, <2>3 DEF SessionTypeOK, SlotUnderReader, OneSlotPerDownload, CurrentLive
      <3>3. RequestsPlaced' /\ OneCreator'
        BY <2>1, <2>3 DEF SessionTypeOK, RequestsPlaced, OneCreator
      <3>4. TimersFollowSlots'
        BY <2>1, <2>3 DEF SessionTypeOK, TimersFollowSlots
      <3>5. QED
        BY <2>2, <3>1, <3>2, <3>3, <3>4
    <2>4. CASE ~(slot' = slot /\ current' = current)
      <3>1. active[s] = 0 /\ Finish(s)
        BY <1>9, <2>4 DEF Callback, SessionTypeOK
      <3>2. \A q \in RangeRequests : reqPc[q] = "held" => mine[q] # s
        <4>1. Holders(s) = {}
          BY <3>1, FiniteHolders, FS_EmptySet DEF ActiveExact
        <4>2. QED
          BY <4>1 DEF Holders
      <3>3. slot[s] \notin {"unmade", "queued"}
        BY <2>1 DEF SessionTypeOK, TimersFollowSlots
      <3>4. slot[s] = "owned" /\ current = s
        BY <2>4, <3>1, <3>3 DEF Finish, SessionTypeOK, OneSlotPerDownload, CurrentLive
      <3>5. slot' = [slot EXCEPT ![s] = "returned"] /\ current' = 0
        BY <3>1, <3>4 DEF Finish
      <3>6. SessionTypeOK'
        BY <2>1, <3>5 DEF SessionTypeOK, SlotStates, TimerStates
      <3>7. SlotUnderReader' /\ OneSlotPerDownload' /\ CurrentLive'
        BY <2>1, <3>2, <3>4, <3>5 DEF SessionTypeOK, SlotUnderReader, OneSlotPerDownload, CurrentLive
      <3>8. RequestsPlaced' /\ OneCreator'
        BY <2>1, <3>4, <3>5 DEF SessionTypeOK, RequestsPlaced, OneCreator
      <3>9. TimersFollowSlots'
        BY <2>1, <3>4, <3>5 DEF SessionTypeOK, TimersFollowSlots
      <3>10. QED
        BY <2>2, <3>6, <3>7, <3>8, <3>9
    <2>5. QED
      BY <2>3, <2>4
  <1>10. CASE UNCHANGED sessionVars
    BY <1>10 DEF sessionVars, SessionTypeOK, SlotUnderReader, ActiveExact, OneSlotPerDownload, Holders,
                 RequestsPlaced, OneCreator, CurrentLive, TimersFollowSlots
  <1>11. QED
    BY <1>1, <1>2, <1>3, <1>4, <1>5, <1>6, <1>7, <1>8, <1>9, <1>10
    DEF SessionNext, RequestStep, TimerStep

\* The inductive invariant holds in every reachable state.
THEOREM InvariantHolds == SessionSpec => []IInv
  BY InitInv, NextInv, PTL DEF SessionSpec

\* A download session never loses the slot under a reader, counts its readers
\* exactly and keeps one slot, for any number of requests, whatever order joins,
\* releases, grace callbacks and hang-ups come in.
THEOREM SessionsAreSound == SessionSpec => []SessionSound
  <1>1. IInv => SessionSound
    BY DEF IInv
  <1>2. QED
    BY <1>1, InvariantHolds, PTL

-----------------------------------------------------------------------------
(***************************************************************************)
(* FileRefs.  A handle was minted for the account that holds it.           *)
(***************************************************************************)
HandleOwners == RefAccounts \cup {"nobody"}
Handles == [account : HandleOwners, issue : Nat, dc : Datacenters \cup {0}]
Sources == [account : RefAccounts, seg : Handles, owner : HandleOwners, state : Handles]
Fetches == [pc : {"idle", "read", "drop", "join", "wait"}, handle : Handles, tries : Nat]
Flights == [lead : Chunks, pc : {"ask", "keep", "store"}, handle : Handles]

RefsTypeOK ==
  /\ issue \in Nat
  /\ segRow \in [owner : HandleOwners, handle : Handles]
  /\ refs \in [RefAccounts -> Handles]
  /\ source \in [RefStreams -> Sources \cup {Closed}]
  /\ fetch \in [Chunks -> Fetches]
  /\ flight \in [RefAccounts -> Flights \cup {NoFlight}]

\* What the cache holds for an account was minted for it.
CacheFits == \A a \in RefAccounts : refs[a] # NoRef => refs[a].account = a

\* What a stream keeps was minted for its account, and the row it copied names
\* the account of the handle in it.
SourceFits ==
  \A s \in RefStreams : source[s] # Closed =>
    /\ source[s].state # NoRef => source[s].state.account = source[s].account
    /\ source[s].owner # "nobody" => source[s].seg.account = source[s].owner

\* A chunk is fetched for an open stream, whose account is settled.
FetchOpen == \A c \in Chunks : fetch[c].pc # "idle" => source[c[1]] # Closed

\* The round trip of an account is led by a chunk of a stream of that account,
\* and its answer was minted for it.
FlightFits ==
  \A a \in RefAccounts : flight[a] # NoFlight =>
    /\ Acct(flight[a].lead) = a
    /\ flight[a].pc # "ask" => flight[a].handle.account = a

RefsIInv ==
  RefsTypeOK /\ CacheFits /\ SourceFits /\ FetchOpen /\ FlightFits /\ HandlesFit

-----------------------------------------------------------------------------
\* What a stream finds at hand is of its account (current).
LEMMA CurrentFits ==
  ASSUME RefsIInv, NEW s \in RefStreams, source[s] # Closed
  PROVE  /\ source[s].account \in RefAccounts
         /\ Current(s) \in Handles
         /\ Current(s) # NoRef => Current(s).account = source[s].account
<1>1. /\ source[s] \in Sources
      /\ refs[source[s].account] \in Handles
      /\ NoRef \in Handles
  BY DEF RefsIInv, RefsTypeOK, Sources, Handles, HandleOwners, NoRef
<1>2. CASE source[s].state # NoRef
  BY <1>1, <1>2 DEF Current, RefsIInv, SourceFits, Sources
<1>3. CASE source[s].state = NoRef /\ refs[source[s].account] # NoRef
  BY <1>1, <1>3 DEF Current, RefsIInv, CacheFits, Sources
<1>4. CASE source[s].state = NoRef /\ refs[source[s].account] = NoRef
  BY <1>1, <1>4 DEF Current, OwnsStoredHandle, RefsIInv, SourceFits, Sources
<1> QED  BY <1>2, <1>3, <1>4

\* The first state.
LEMMA RefsInitHolds == RefsInit => RefsIInv
<1> SUFFICES ASSUME RefsInit PROVE RefsIInv
  OBVIOUS
<1>1. RefsTypeOK
  BY DEF RefsInit, RefsTypeOK, HandleOwners, Handles, Datacenters, NoRef, Fetches, Closed, NoFlight
<1>2. CacheFits /\ SourceFits /\ FetchOpen /\ FlightFits
  BY DEF RefsInit, CacheFits, SourceFits, FetchOpen, FlightFits
<1>3. HandlesFit
  BY DEF RefsInit, HandlesFit, HandleFits, RowIsOwners
<1> QED  BY <1>1, <1>2, <1>3 DEF RefsIInv

\* A file is opened: the stream copies the row.
LEMMA OpenSourceHolds ==
  ASSUME RefsIInv, NEW s \in RefStreams, NEW a \in RefAccounts, OpenSource(s, a)
  PROVE  RefsIInv'
<1> DEFINE opened == [account |-> a, seg |-> segRow.handle, owner |-> segRow.owner, state |-> NoRef]
<1>1. /\ source[s] = Closed
      /\ source' = [source EXCEPT ![s] = opened]
      /\ UNCHANGED <<issue, segRow, refs, fetch, flight, renaming, rebuilds>>
  BY DEF OpenSource
<1>2. opened \in Sources /\ opened # Closed
  BY NobodyAssumption DEF RefsIInv, RefsTypeOK, Sources, Handles, HandleOwners, NoRef, Datacenters, Closed
<1>3. /\ source'[s] = opened
      /\ \A t \in RefStreams : t # s => source'[t] = source[t]
      /\ source' \in [RefStreams -> Sources \cup {Closed}]
  BY <1>1, <1>2 DEF RefsIInv, RefsTypeOK
<1>4. \A c \in Chunks : fetch[c].pc # "idle" => c[1] \in RefStreams /\ c[1] # s
  BY <1>1, ChunksAssumption DEF RefsIInv, FetchOpen
<1>5. RefsTypeOK'
  BY <1>1, <1>3 DEF RefsIInv, RefsTypeOK
<1>6. CacheFits'
  BY <1>1 DEF RefsIInv, CacheFits
<1>7. SourceFits'
  BY <1>2, <1>3 DEF RefsIInv, SourceFits, HandlesFit, RowIsOwners
<1>8. FetchOpen'
  BY <1>1, <1>3, <1>4 DEF RefsIInv, FetchOpen
<1>9. FlightFits'
  <2> SUFFICES ASSUME NEW b \in RefAccounts, flight[b] # NoFlight
               PROVE  /\ Acct(flight[b].lead)' = b
                      /\ flight[b].pc # "ask" => flight[b].handle.account = b
    BY <1>1 DEF FlightFits, Acct
  <2>1. /\ flight[b].lead \in Chunks
        /\ Acct(flight[b].lead) = b
        /\ flight[b].pc # "ask" => flight[b].handle.account = b
    BY DEF RefsIInv, RefsTypeOK, FlightFits, Flights
  <2>2. flight[b].lead[1] # s
    BY <1>1, <2>1, NobodyAssumption DEF Acct, Closed
  <2> QED  BY <1>1, <1>3, <2>1, <2>2, ChunksAssumption DEF Acct
<1>10. HandlesFit'
  BY <1>1, <1>3, <1>4 DEF RefsIInv, HandlesFit, HandleFits, RowIsOwners, Acct
<1> QED  BY <1>5, <1>6, <1>7, <1>8, <1>9, <1>10 DEF RefsIInv

\* A chunk changes while no stream, row, cache or round trip does.
LEMMA ChunkMoves ==
  ASSUME RefsIInv, NEW c \in Chunks, source[c[1]] # Closed,
         NEW next \in Fetches,
         next.pc = "read" => next.handle.account = Acct(c),
         fetch' = [fetch EXCEPT ![c] = next],
         UNCHANGED <<issue, segRow, refs, source, flight>>
  PROVE  RefsIInv'
<1>1. /\ fetch'[c] = next
      /\ \A d \in Chunks : d # c => fetch'[d] = fetch[d]
      /\ fetch' \in [Chunks -> Fetches]
  BY DEF RefsIInv, RefsTypeOK
<1>2. RefsTypeOK'
  BY <1>1 DEF RefsIInv, RefsTypeOK
<1>3. CacheFits' /\ SourceFits' /\ RowIsOwners'
  BY DEF RefsIInv, CacheFits, SourceFits, HandlesFit, RowIsOwners
<1>4. FetchOpen'
  BY <1>1 DEF RefsIInv, FetchOpen
<1>5. FlightFits'
  BY DEF RefsIInv, FlightFits, Acct
<1>6. HandleFits'
  BY <1>1 DEF RefsIInv, HandlesFit, HandleFits, Acct
<1> QED  BY <1>2, <1>3, <1>4, <1>5, <1>6 DEF RefsIInv, HandlesFit

\* A chunk begins.
LEMMA ChunkBeginHolds ==
  ASSUME RefsIInv, NEW c \in Chunks, ChunkBegin(c)
  PROVE  RefsIInv'
<1>1. c[1] \in RefStreams /\ source[c[1]] # Closed
  BY ChunksAssumption DEF ChunkBegin
<1>2. /\ Current(c[1]) \in Handles
      /\ Current(c[1]) # NoRef => Current(c[1]).account = Acct(c)
  BY <1>1, CurrentFits DEF Acct
<1>3. NoRef \in Handles
  BY DEF Handles, HandleOwners, NoRef
<1>4. CASE Current(c[1]) = NoRef
  <2> DEFINE next == [pc |-> "drop", handle |-> NoRef, tries |-> 1]
  <2>1. next \in Fetches /\ next.pc # "read"
    BY <1>3 DEF Fetches
  <2>2. fetch' = [fetch EXCEPT ![c] = next] /\ UNCHANGED <<issue, segRow, refs, source, flight>>
    BY <1>4 DEF ChunkBegin, Goes
  <2> HIDE DEF next
  <2> QED  BY <1>1, <2>1, <2>2, ChunkMoves
<1>5. CASE Current(c[1]) # NoRef
  <2> DEFINE next == [pc |-> "read", handle |-> Current(c[1]), tries |-> 1]
  <2>1. next \in Fetches /\ next.handle.account = Acct(c)
    BY <1>2, <1>5 DEF Fetches
  <2>2. fetch' = [fetch EXCEPT ![c] = next] /\ UNCHANGED <<issue, segRow, refs, source, flight>>
    BY <1>5 DEF ChunkBegin, Goes
  <2> HIDE DEF next
  <2> QED  BY <1>1, <2>1, <2>2, ChunkMoves
<1> QED  BY <1>4, <1>5

\* remember, and the drop before a round trip: the handle that a stream and the
\* cache of its account hold is replaced, no stream changes its account.
LEMMA RememberFits ==
  ASSUME RefsIInv, NEW s \in RefStreams, source[s] # Closed,
         NEW h \in Handles, h # NoRef => h.account = source[s].account,
         source' = [source EXCEPT ![s].state = h],
         refs' = [refs EXCEPT ![source[s].account] = h]
  PROVE  /\ source' \in [RefStreams -> Sources \cup {Closed}]
         /\ refs' \in [RefAccounts -> Handles]
         /\ CacheFits' /\ SourceFits'
         /\ \A t \in RefStreams : /\ source'[t].account = source[t].account
                                  /\ source'[t] = Closed <=> source[t] = Closed
<1> DEFINE held == [source[s] EXCEPT !.state = h]
<1>1. source[s] \in Sources /\ source[s].account \in RefAccounts
  BY DEF RefsIInv, RefsTypeOK, Sources
<1>2. /\ held \in Sources
      /\ held.account = source[s].account /\ held.state = h
      /\ held.seg = source[s].seg /\ held.owner = source[s].owner
  BY <1>1 DEF Sources
<1>3. held # Closed
  BY <1>1, <1>2, NobodyAssumption DEF Closed
<1>4. /\ source'[s] = held
      /\ \A t \in RefStreams : t # s => source'[t] = source[t]
      /\ source' \in [RefStreams -> Sources \cup {Closed}]
  BY <1>2 DEF RefsIInv, RefsTypeOK
<1>5. /\ refs'[source[s].account] = h
      /\ \A a \in RefAccounts : a # source[s].account => refs'[a] = refs[a]
      /\ refs' \in [RefAccounts -> Handles]
  BY <1>1 DEF RefsIInv, RefsTypeOK
<1> HIDE DEF held
<1>6. CacheFits'
  BY <1>5 DEF RefsIInv, CacheFits
<1>7. SourceFits'
  BY <1>2, <1>4 DEF RefsIInv, SourceFits
<1> QED  BY <1>2, <1>3, <1>4, <1>5, <1>6, <1>7

\* The accounts of the streams stay, and so does what hangs on them.
LEMMA AccountsStay ==
  ASSUME RefsIInv,
         \A t \in RefStreams : /\ source'[t].account = source[t].account
                               /\ source'[t] = Closed <=> source[t] = Closed
  PROVE  /\ \A c \in Chunks : source'[c[1]].account = source[c[1]].account
         /\ flight' = flight => FlightFits'
         /\ fetch' = fetch => FetchOpen' /\ HandleFits'
<1>1. \A c \in Chunks : source'[c[1]].account = source[c[1]].account
  BY ChunksAssumption
<1>2. ASSUME flight' = flight PROVE FlightFits'
  <2> SUFFICES ASSUME NEW b \in RefAccounts, flight[b] # NoFlight
               PROVE  /\ source'[flight[b].lead[1]].account = b
                      /\ flight[b].pc # "ask" => flight[b].handle.account = b
    BY <1>2 DEF FlightFits, Acct
  <2>1. flight[b].lead \in Chunks
    BY DEF RefsIInv, RefsTypeOK, Flights
  <2> QED  BY <1>1, <2>1 DEF RefsIInv, FlightFits, Acct
<1>3. ASSUME fetch' = fetch PROVE FetchOpen' /\ HandleFits'
  BY <1>1, <1>3, ChunksAssumption DEF RefsIInv, FetchOpen, HandlesFit, HandleFits, Acct
<1> QED  BY <1>1, <1>2, <1>3

\* One read of a chunk, with its repairs.
LEMMA ReadChunkHolds ==
  ASSUME RefsIInv, NEW c \in Chunks, ReadChunk(c)
  PROVE  RefsIInv'
<1>1. /\ c[1] \in RefStreams /\ source[c[1]] # Closed
      /\ fetch[c] \in Fetches /\ fetch[c].handle.account = Acct(c)
      /\ fetch[c].handle \in Handles
      /\ UNCHANGED <<issue, flight, renaming, rebuilds>>
  BY ChunksAssumption DEF ReadChunk, RefsIInv, RefsTypeOK, Fetches, FetchOpen, HandlesFit, HandleFits
<1>2. NoRef \in Handles
  BY DEF Handles, HandleOwners, NoRef
<1> DEFINE moved == [fetch[c].handle EXCEPT !.dc = RealDC]
           ends == /\ Goes(c, "idle", NoRef, 0) \/ Goes(c, "drop", NoRef, 2)
                   /\ UNCHANGED <<segRow, refs, source>>
           repairs == /\ Goes(c, "read", moved, 2)
                      /\ Remember(c[1], moved)
                      /\ segRow' = [segRow EXCEPT !.handle.dc = RealDC]
<1>3. CASE ends
  <2>1. ASSUME NEW next \in Fetches, next.pc = "read" => next.handle.account = Acct(c),
               fetch' = [fetch EXCEPT ![c] = next]
        PROVE  RefsIInv'
    BY <1>1, <1>3, <2>1, ChunkMoves
  <2>2. [pc |-> "idle", handle |-> NoRef, tries |-> 0] \in Fetches
    BY <1>2 DEF Fetches
  <2>3. [pc |-> "drop", handle |-> NoRef, tries |-> 2] \in Fetches
    BY <1>2 DEF Fetches
  <2>4. CASE Goes(c, "idle", NoRef, 0)
    BY <2>1, <2>2, <2>4 DEF Goes
  <2>5. CASE Goes(c, "drop", NoRef, 2)
    BY <2>1, <2>3, <2>5 DEF Goes
  <2> QED  BY <1>3, <2>4, <2>5
<1>4. CASE repairs
  <2>1. /\ Goes(c, "read", moved, 2)
        /\ Remember(c[1], moved)
        /\ segRow' = [segRow EXCEPT !.handle.dc = RealDC]
    BY <1>4
  <2>2. moved \in Handles /\ moved.account = Acct(c)
    BY <1>1 DEF Handles, RealDC, Datacenters
  <2> HIDE DEF moved
  <2>3. /\ source' \in [RefStreams -> Sources \cup {Closed}]
        /\ refs' \in [RefAccounts -> Handles]
        /\ CacheFits' /\ SourceFits'
        /\ \A t \in RefStreams : /\ source'[t].account = source[t].account
                                 /\ source'[t] = Closed <=> source[t] = Closed
    <3>1. /\ source' = [source EXCEPT ![c[1]].state = moved]
          /\ refs' = [refs EXCEPT ![source[c[1]].account] = moved]
          /\ moved # NoRef => moved.account = source[c[1]].account
      BY <2>1, <2>2 DEF Remember, Acct
    <3> QED  BY <1>1, <2>2, <3>1, RememberFits
  <2>4. /\ \A d \in Chunks : source'[d[1]].account = source[d[1]].account
        /\ FlightFits'
    BY <1>1, <2>3, AccountsStay
  <2>5. /\ fetch'[c] = [pc |-> "read", handle |-> moved, tries |-> 2]
        /\ \A d \in Chunks : d # c => fetch'[d] = fetch[d]
        /\ fetch' \in [Chunks -> Fetches]
    BY <2>1, <2>2 DEF Goes, RefsIInv, RefsTypeOK, Fetches
  <2>6. /\ segRow' \in [owner : HandleOwners, handle : Handles]
        /\ RowIsOwners'
    BY <2>1 DEF RefsIInv, RefsTypeOK, Handles, RealDC, Datacenters, HandlesFit, RowIsOwners
  <2>7. RefsTypeOK'
    BY <1>1, <2>3, <2>5, <2>6 DEF RefsIInv, RefsTypeOK
  <2>8. FetchOpen' /\ HandleFits'
    BY <1>1, <2>2, <2>3, <2>4, <2>5, ChunksAssumption
       DEF RefsIInv, FetchOpen, HandlesFit, HandleFits, Acct
  <2> QED  BY <2>3, <2>4, <2>6, <2>7, <2>8 DEF RefsIInv, HandlesFit
<1>5. ends \/ repairs
  BY DEF ReadChunk
<1> QED  BY <1>3, <1>4, <1>5

\* What is known is dropped before a round trip.
LEMMA DropHolds ==
  ASSUME RefsIInv, NEW c \in Chunks, Drop(c)
  PROVE  RefsIInv'
<1>1. /\ c[1] \in RefStreams /\ source[c[1]] # Closed
      /\ fetch[c].tries \in Nat
  BY ChunksAssumption DEF Drop, RefsIInv, RefsTypeOK, Fetches, FetchOpen
<1>2. NoRef \in Handles
  BY DEF Handles, HandleOwners, NoRef
<1>3. /\ source' = [source EXCEPT ![c[1]].state = NoRef]
      /\ refs' = [refs EXCEPT ![source[c[1]].account] = NoRef]
      /\ fetch' = [fetch EXCEPT ![c] = [pc |-> "join", handle |-> NoRef, tries |-> fetch[c].tries]]
      /\ UNCHANGED <<issue, segRow, flight>>
  BY DEF Drop, Goes, Acct
<1>4. /\ source' \in [RefStreams -> Sources \cup {Closed}]
      /\ refs' \in [RefAccounts -> Handles]
      /\ CacheFits' /\ SourceFits'
      /\ \A t \in RefStreams : /\ source'[t].account = source[t].account
                               /\ source'[t] = Closed <=> source[t] = Closed
  BY <1>1, <1>2, <1>3, RememberFits
<1>5. (\A d \in Chunks : source'[d[1]].account = source[d[1]].account) /\ FlightFits'
  BY <1>3, <1>4, AccountsStay
<1>6. /\ fetch'[c].pc = "join"
      /\ \A d \in Chunks : d # c => fetch'[d] = fetch[d]
      /\ fetch' \in [Chunks -> Fetches]
  BY <1>1, <1>2, <1>3 DEF RefsIInv, RefsTypeOK, Fetches
<1>7. RefsTypeOK'
  BY <1>3, <1>4, <1>6 DEF RefsIInv, RefsTypeOK
<1>8. FetchOpen' /\ HandlesFit'
  BY <1>1, <1>3, <1>4, <1>5, <1>6, ChunksAssumption
     DEF RefsIInv, FetchOpen, HandlesFit, HandleFits, RowIsOwners, Acct
<1> QED  BY <1>4, <1>5, <1>7, <1>8 DEF RefsIInv

\* The round trip of the account is joined or begun.
LEMMA JoinHolds ==
  ASSUME RefsIInv, NEW c \in Chunks, JoinFlight(c)
  PROVE  RefsIInv'
<1> DEFINE begun == [lead |-> c, pc |-> "ask", handle |-> NoRef]
<1>1. /\ c[1] \in RefStreams /\ source[c[1]] # Closed
      /\ fetch[c].tries \in Nat
      /\ Acct(c) \in RefAccounts
  BY ChunksAssumption DEF JoinFlight, RefsIInv, RefsTypeOK, Fetches, FetchOpen, Acct, Sources
<1>2. NoRef \in Handles /\ begun \in Flights
  BY DEF Handles, HandleOwners, NoRef, Flights
<1>3. /\ fetch' = [fetch EXCEPT ![c] = [pc |-> "wait", handle |-> NoRef, tries |-> fetch[c].tries]]
      /\ flight' = flight \/ flight' = [flight EXCEPT ![Acct(c)] = begun]
      /\ UNCHANGED <<issue, segRow, refs, source>>
  BY DEF JoinFlight, Goes
<1>4. /\ fetch'[c].pc = "wait"
      /\ \A d \in Chunks : d # c => fetch'[d] = fetch[d]
      /\ fetch' \in [Chunks -> Fetches]
  BY <1>1, <1>2, <1>3 DEF RefsIInv, RefsTypeOK, Fetches
<1>5. /\ flight' \in [RefAccounts -> Flights \cup {NoFlight}]
      /\ \A a \in RefAccounts : \/ flight'[a] = flight[a]
                                \/ a = Acct(c) /\ flight'[a] = begun
  BY <1>1, <1>2, <1>3 DEF RefsIInv, RefsTypeOK
<1>6. RefsTypeOK' /\ CacheFits' /\ SourceFits'
  BY <1>3, <1>4, <1>5 DEF RefsIInv, RefsTypeOK, CacheFits, SourceFits
<1>7. FlightFits'
  BY <1>3, <1>5 DEF RefsIInv, FlightFits, Acct
<1>8. FetchOpen' /\ HandlesFit'
  BY <1>1, <1>3, <1>4 DEF RefsIInv, FetchOpen, HandlesFit, HandleFits, RowIsOwners, Acct
<1> QED  BY <1>6, <1>7, <1>8 DEF RefsIInv

\* A round trip of account a ends with h: everyone who waits for it reads with a
\* handle of the account, or fails.
LEMMA LandFits ==
  ASSUME RefsIInv, NEW a \in RefAccounts, NEW h \in Handles,
         h # NoRef => h.account = a,
         Land(a, h), UNCHANGED source
  PROVE  /\ fetch' \in [Chunks -> Fetches]
         /\ flight' \in [RefAccounts -> Flights \cup {NoFlight}]
         /\ FetchOpen' /\ HandleFits' /\ FlightFits'
<1>1. /\ \A c \in Chunks : fetch'[c] =
           IF fetch[c].pc = "wait" /\ Acct(c) = a
             THEN IF h = NoRef THEN [pc |-> "idle", handle |-> NoRef, tries |-> 0]
                  ELSE [fetch[c] EXCEPT !.pc = "read", !.handle = h]
             ELSE fetch[c]
      /\ fetch' = [c \in Chunks |-> fetch'[c]]
  BY DEF Land
<1>2. \A c \in Chunks : /\ fetch[c] \in Fetches
                        /\ [fetch[c] EXCEPT !.pc = "read", !.handle = h] \in Fetches
                        /\ [fetch[c] EXCEPT !.pc = "read", !.handle = h].handle = h
  BY DEF RefsIInv, RefsTypeOK, Fetches
<1>3. [pc |-> "idle", handle |-> NoRef, tries |-> 0] \in Fetches
  BY DEF Fetches, Handles, HandleOwners, NoRef
<1>4. fetch' \in [Chunks -> Fetches]
  <2>1. \A c \in Chunks : fetch'[c] \in Fetches
    BY <1>1, <1>2, <1>3
  <2> QED  BY <1>1, <2>1
<1>5. /\ flight' = [flight EXCEPT ![a] = NoFlight]
      /\ flight' \in [RefAccounts -> Flights \cup {NoFlight}]
      /\ \A b \in RefAccounts : flight'[b] = NoFlight \/ flight'[b] = flight[b]
  BY DEF Land, RefsIInv, RefsTypeOK
<1>6. FlightFits'
  BY <1>5 DEF RefsIInv, FlightFits, Acct
<1>7. HandleFits'
  <2> SUFFICES ASSUME NEW c \in Chunks, fetch'[c].pc = "read"
               PROVE  fetch'[c].handle.account = source[c[1]].account
    BY DEF HandleFits, Acct
  <2>1. CASE fetch[c].pc = "wait" /\ Acct(c) = a
    <3>1. h # NoRef
      <4>1. ASSUME h = NoRef PROVE fetch'[c] = [pc |-> "idle", handle |-> NoRef, tries |-> 0]
        BY <1>1, <2>1, <4>1
      <4> QED  BY <4>1
    <3>2. fetch'[c] = [fetch[c] EXCEPT !.pc = "read", !.handle = h]
      BY <1>1, <2>1, <3>1
    <3>3. fetch'[c].handle = h
      BY <1>2, <3>2
    <3> QED  BY <2>1, <3>1, <3>3 DEF Acct
  <2>2. CASE ~(fetch[c].pc = "wait" /\ Acct(c) = a)
    BY <1>1, <2>2 DEF RefsIInv, HandlesFit, HandleFits, Acct
  <2> QED  BY <2>1, <2>2
<1>8. FetchOpen'
  BY <1>1 DEF RefsIInv, FetchOpen
<1> QED  BY <1>4, <1>5, <1>6, <1>7, <1>8

\* RefreshDoc answers.
LEMMA FlightAskHolds ==
  ASSUME RefsIInv, NEW a \in RefAccounts, FlightAsk(a)
  PROVE  RefsIInv'
<1>1. /\ flight[a].pc = "ask"
      /\ UNCHANGED <<issue, segRow, refs, source>>
  BY DEF FlightAsk
<1>2. CASE Land(a, NoRef)
  <2>1. NoRef \in Handles
    BY DEF Handles, HandleOwners, NoRef
  <2>2. /\ fetch' \in [Chunks -> Fetches]
        /\ flight' \in [RefAccounts -> Flights \cup {NoFlight}]
        /\ FetchOpen' /\ HandleFits' /\ FlightFits'
    BY <1>1, <1>2, <2>1, LandFits
  <2> QED
    BY <1>1, <2>2 DEF RefsIInv, RefsTypeOK, CacheFits, SourceFits, HandlesFit, RowIsOwners
<1>3. CASE /\ flight' = [flight EXCEPT ![a].pc = "keep", ![a].handle = Minted(a)]
           /\ UNCHANGED fetch
  <2>1. Minted(a) \in Handles /\ Minted(a).account = a
    BY DEF Minted, Handles, HandleOwners, Datacenters, RealDC, RefsIInv, RefsTypeOK
  <2>2. flight[a] \in Flights /\ flight[a] # NoFlight
    BY <1>1 DEF RefsIInv, RefsTypeOK, NoFlight
  <2>3. /\ flight'[a] = [flight[a] EXCEPT !.pc = "keep", !.handle = Minted(a)]
        /\ \A b \in RefAccounts : b # a => flight'[b] = flight[b]
    BY <1>3, <2>2 DEF RefsIInv, RefsTypeOK
  <2>4. /\ flight'[a] \in Flights /\ flight'[a].lead = flight[a].lead
        /\ flight'[a].handle.account = a
    BY <2>1, <2>2, <2>3 DEF Flights
  <2>5. flight' \in [RefAccounts -> Flights \cup {NoFlight}]
    BY <1>3, <2>3, <2>4 DEF RefsIInv, RefsTypeOK
  <2>6. FlightFits'
    <3> SUFFICES ASSUME NEW b \in RefAccounts, flight'[b] # NoFlight
                 PROVE  /\ source[flight'[b].lead[1]].account = b
                        /\ flight'[b].pc # "ask" => flight'[b].handle.account = b
      BY <1>1 DEF FlightFits, Acct
    <3>1. CASE b = a
      BY <2>2, <2>4, <3>1 DEF RefsIInv, FlightFits, Acct
    <3>2. CASE b # a
      BY <2>3, <3>2 DEF RefsIInv, FlightFits, Acct
    <3> QED  BY <3>1, <3>2
  <2> QED
    BY <1>1, <1>3, <2>5, <2>6
       DEF RefsIInv, RefsTypeOK, CacheFits, SourceFits, HandlesFit, RowIsOwners, FetchOpen, HandleFits, Acct
<1> QED  BY <1>2, <1>3 DEF FlightAsk

\* The answer is kept for the stream that leads, and for its account.
LEMMA FlightKeepHolds ==
  ASSUME RefsIInv, NEW a \in RefAccounts, FlightKeep(a)
  PROVE  RefsIInv'
<1> DEFINE s == flight[a].lead[1]
<1>1. /\ flight[a].pc = "keep"
      /\ Remember(s, flight[a].handle)
      /\ flight' = [flight EXCEPT ![a].pc = "store"]
      /\ UNCHANGED <<issue, segRow, fetch>>
  BY DEF FlightKeep
<1>2. /\ flight[a] \in Flights /\ flight[a] # NoFlight
      /\ flight[a].lead \in Chunks /\ s \in RefStreams
      /\ flight[a].handle \in Handles
  BY <1>1, ChunksAssumption DEF RefsIInv, RefsTypeOK, NoFlight, Flights
<1>3. source[s].account = a /\ flight[a].handle.account = a /\ source[s] # Closed
  BY <1>1, <1>2, NobodyAssumption DEF RefsIInv, FlightFits, Acct, Closed
<1>4. /\ source' \in [RefStreams -> Sources \cup {Closed}]
      /\ refs' \in [RefAccounts -> Handles]
      /\ CacheFits' /\ SourceFits'
      /\ \A t \in RefStreams : /\ source'[t].account = source[t].account
                               /\ source'[t] = Closed <=> source[t] = Closed
  <2>1. /\ source' = [source EXCEPT ![s].state = flight[a].handle]
        /\ refs' = [refs EXCEPT ![source[s].account] = flight[a].handle]
    BY <1>1 DEF Remember
  <2> HIDE DEF s
  <2> QED  BY <1>2, <1>3, <2>1, RememberFits
<1>5. /\ \A c \in Chunks : source'[c[1]].account = source[c[1]].account
      /\ FetchOpen' /\ HandleFits'
  BY <1>1, <1>4, AccountsStay
<1>6. /\ flight'[a] = [flight[a] EXCEPT !.pc = "store"]
      /\ \A b \in RefAccounts : b # a => flight'[b] = flight[b]
  BY <1>1, <1>2 DEF RefsIInv, RefsTypeOK
<1>7. /\ flight'[a] \in Flights /\ flight'[a].lead = flight[a].lead
      /\ flight'[a].handle.account = a
  BY <1>2, <1>3, <1>6 DEF Flights
<1>8. flight' \in [RefAccounts -> Flights \cup {NoFlight}]
  BY <1>1, <1>6, <1>7 DEF RefsIInv, RefsTypeOK
<1>9. FlightFits'
  <2> SUFFICES ASSUME NEW b \in RefAccounts, flight'[b] # NoFlight
               PROVE  /\ source'[flight'[b].lead[1]].account = b
                      /\ flight'[b].pc # "ask" => flight'[b].handle.account = b
    BY DEF FlightFits, Acct
  <2>1. CASE b = a
    BY <1>2, <1>3, <1>5, <1>7, <2>1 DEF Acct
  <2>2. CASE b # a
    <3>1. flight[b].lead \in Chunks /\ flight[b] # NoFlight
      BY <1>6, <2>2 DEF RefsIInv, RefsTypeOK, Flights
    <3> QED  BY <1>5, <1>6, <2>2, <3>1 DEF RefsIInv, FlightFits, Acct
  <2> QED  BY <2>1, <2>2
<1> QED
  BY <1>1, <1>4, <1>5, <1>8, <1>9 DEF RefsIInv, RefsTypeOK, HandlesFit, RowIsOwners

\* The answer is written back to the row, and everyone who waits gets it.
LEMMA FlightStoreHolds ==
  ASSUME RefsIInv, NEW a \in RefAccounts, FlightStore(a)
  PROVE  RefsIInv'
<1> DEFINE h == flight[a].handle
<1>1. /\ flight[a].pc = "store"
      /\ \/ RefreshFileReference(h)
         \/ segRow' = [segRow EXCEPT !.handle.dc = h.dc]
      /\ Land(a, h)
      /\ UNCHANGED <<issue, refs, source>>
  BY DEF FlightStore
<1>2. h \in Handles /\ h.account = a
  BY <1>1 DEF RefsIInv, RefsTypeOK, NoFlight, Flights, FlightFits
<1> HIDE DEF h
<1>3. /\ fetch' \in [Chunks -> Fetches]
      /\ flight' \in [RefAccounts -> Flights \cup {NoFlight}]
      /\ FetchOpen' /\ HandleFits' /\ FlightFits'
  BY <1>1, <1>2, LandFits
<1>4. /\ segRow' \in [owner : HandleOwners, handle : Handles]
      /\ RowIsOwners'
  <2>1. segRow \in [owner : HandleOwners, handle : Handles] /\ RowIsOwners
    BY DEF RefsIInv, RefsTypeOK, HandlesFit
  <2>2. CASE segRow.owner = h.account /\ segRow' = [segRow EXCEPT !.handle = h]
    BY <1>2, <2>1, <2>2 DEF RowIsOwners
  <2>3. CASE segRow' = [segRow EXCEPT !.handle.dc = h.dc]
    BY <1>2, <2>1, <2>3 DEF RowIsOwners, Handles
  <2> QED  BY <1>1, <2>2, <2>3 DEF RefreshFileReference
<1> QED
  BY <1>1, <1>3, <1>4 DEF RefsIInv, RefsTypeOK, CacheFits, SourceFits, HandlesFit

\* A rename forgets the cache, references go stale, a rebuild takes the row over.
LEMMA WorldHolds ==
  ASSUME RefsIInv, Forget \/ Stale \/ \E a \in RefAccounts : RebuildRow(a)
  PROVE  RefsIInv'
<1>1. UNCHANGED <<source, fetch, flight>>
  BY DEF Forget, Stale, RebuildRow
<1>2. SourceFits' /\ FetchOpen' /\ FlightFits' /\ HandleFits'
  BY <1>1 DEF RefsIInv, SourceFits, FetchOpen, FlightFits, HandlesFit, HandleFits, Acct
<1>3. CASE Forget
  <2>1. refs' \in [RefAccounts -> Handles] /\ CacheFits'
    BY <1>3 DEF Forget, Handles, HandleOwners, NoRef, CacheFits
  <2> QED
    BY <1>1, <1>2, <1>3, <2>1 DEF Forget, RefsIInv, RefsTypeOK, HandlesFit, RowIsOwners
<1>4. CASE Stale
  BY <1>1, <1>2, <1>4 DEF Stale, RefsIInv, RefsTypeOK, CacheFits, HandlesFit, RowIsOwners
<1>5. ASSUME NEW a \in RefAccounts, RebuildRow(a) PROVE RefsIInv'
  <2>1. Minted(a) \in Handles /\ Minted(a).account = a
    BY DEF Minted, Handles, HandleOwners, Datacenters, RealDC, RefsIInv, RefsTypeOK
  <2>2. segRow' \in [owner : HandleOwners, handle : Handles] /\ RowIsOwners'
    BY <1>5, <2>1 DEF RebuildRow, HandleOwners, RowIsOwners
  <2> QED
    BY <1>1, <1>2, <1>5, <2>2 DEF RebuildRow, RefsIInv, RefsTypeOK, CacheFits, HandlesFit
<1> QED  BY <1>3, <1>4, <1>5

\* Every step keeps the inductive invariant.
LEMMA RefsStepHolds == RefsIInv /\ [RefsNext]_refsVars => RefsIInv'
<1> SUFFICES ASSUME RefsIInv, [RefsNext]_refsVars PROVE RefsIInv'
  OBVIOUS
<1>1. CASE UNCHANGED refsVars
  <2>1. UNCHANGED <<issue, segRow, refs, source, fetch, flight>>
    BY <1>1 DEF refsVars
  <2> QED
    BY <2>1 DEF RefsIInv, RefsTypeOK, CacheFits, SourceFits, FetchOpen, FlightFits,
                HandlesFit, HandleFits, RowIsOwners, Acct
<1>2. ASSUME NEW s \in RefStreams, NEW a \in RefAccounts, OpenSource(s, a) PROVE RefsIInv'
  BY <1>2, OpenSourceHolds
<1>3. ASSUME NEW c \in Chunks, ChunkBegin(c) \/ ReadChunk(c) \/ Drop(c) \/ JoinFlight(c) PROVE RefsIInv'
  BY <1>3, ChunkBeginHolds, ReadChunkHolds, DropHolds, JoinHolds
<1>4. ASSUME NEW a \in RefAccounts, FlightAsk(a) \/ FlightKeep(a) \/ FlightStore(a) PROVE RefsIInv'
  BY <1>4, FlightAskHolds, FlightKeepHolds, FlightStoreHolds
<1>5. CASE Forget \/ Stale \/ \E a \in RefAccounts : RebuildRow(a)
  BY <1>5, WorldHolds
<1> QED  BY <1>1, <1>2, <1>3, <1>4, <1>5 DEF RefsNext

\* Whatever goes stale, whoever rebuilds and whichever chunk leads a round trip,
\* what caches, streams and round trips hold was minted for their account.
THEOREM RefsInvariantHolds == RefsSpec => []RefsIInv
<1>1. RefsInit => RefsIInv
  BY RefsInitHolds
<1>2. RefsIInv /\ [RefsNext]_refsVars => RefsIInv'
  BY RefsStepHolds
<1> QED  BY <1>1, <1>2, PTL DEF RefsSpec

\* No chunk reads with the handle of another account, and a row's handle is its
\* owner's (refresh, RefreshFileReference).
THEOREM HandlesAlwaysFit == RefsSpec => []HandlesFit
<1>1. RefsIInv => HandlesFit
  BY DEF RefsIInv
<1> QED  BY <1>1, RefsInvariantHolds, PTL

-----------------------------------------------------------------------------
(***************************************************************************)
(* Downloads that the client pulls.                                        *)
(***************************************************************************)

DlEntries == [received : Nat, active : Nat, idle : {"none", "armed", "fired"},
              cancelled : BOOLEAN, settled : BOOLEAN]
ReadHandles == [open : BOOLEAN, of : Downloads \cup {0}, report : Int]
RowStates == {"none", "running", "cancelled", "complete"}

CdTypeOK ==
  /\ dlEntry \in [Downloads -> DlEntries]
  /\ dlCurrent \in Downloads \cup {0}
  /\ fired \in [Downloads -> Nat]
  /\ settling \in [Downloads -> {"none", "cancelled", "complete"}]
  /\ dlRow \in [Downloads -> RowStates]
  /\ downloaded \in [Downloads -> Int]
  /\ readHandle \in [Ranges -> ReadHandles]

Readers(d) == {r \in Ranges : readHandle[r].of = d}

\* The entry counts its readers; one without an entry reports nothing.
ReadersCounted ==
  /\ \A d \in Downloads : dlEntry[d].active = Cardinality(Readers(d))
  /\ \A r \in Ranges : readHandle[r].of # 0 => readHandle[r].open

\* A timer that fired still points at its entry while its callback waits.
FiredIsWaiting == \A d \in Downloads : dlEntry[d].idle = "fired" => fired[d] > 0

\* A settled entry is out of reach: no reader, no way to cancel it.
SettledIsLeft ==
  \A d \in Downloads : dlEntry[d].settled => dlEntry[d].active = 0 /\ d \notin jobsMap

\* A number that is not used yet has no entry.
NewIsNew ==
  \A d \in Downloads : dlRow[d] = "none" => dlEntry[d] = NoDownload /\ settling[d] = "none"

\* What is about to be written is what happened.
SettlingFits ==
  \A d \in Downloads :
    /\ settling[d] # "none" => dlEntry[d].settled
    /\ settling[d] = "complete" => ~dlEntry[d].cancelled /\ dlEntry[d].received >= Size

\* What a row that says complete is about; its readers follow from their count.
HistoryFits ==
  \A d \in Downloads : dlRow[d] = "complete" =>
    /\ dlEntry[d].settled
    /\ dlEntry[d] # NoDownload => ~dlEntry[d].cancelled /\ dlEntry[d].received >= Size

\* The final count is written, or has yet to be, or was refused.
CountsFit ==
  \A d \in Downloads :
    /\ d \in uncounted => settling[d] # "none"
    /\ (dlEntry[d].settled /\ dlEntry[d] # NoDownload /\ d \notin uncounted /\ d \notin unrecorded) =>
         downloaded[d] = dlEntry[d].received

\* A cancellation on its way to the row names a download.
PanelsFit == \A p \in Panels : panelCall[p].pc = "row" => panelCall[p].of \in Downloads

CdIInv ==
  /\ CdTypeOK /\ ReadersCounted /\ FiredIsWaiting /\ SettledIsLeft /\ NewIsNew /\ SettlingFits
  /\ RowHasOwner /\ HistoryFits

\* Numbers of downloads are not zero.
LEMMA NumbersPositive == \A d \in Downloads : d \in Nat \ {0}
BY DEF Downloads

\* An entry whose reader count and timer change.
LEMMA EntryKept ==
  ASSUME NEW x \in DlEntries, NEW i \in {"none", "armed", "fired"}, NEW n \in Nat,
         NEW e, e = [x EXCEPT !.idle = i, !.active = n] \/ e = [x EXCEPT !.active = n, !.idle = i]
  PROVE  /\ e \in DlEntries /\ e.idle = i /\ e.active = n /\ e.settled = x.settled
         /\ e.cancelled = x.cancelled /\ e.received = x.received
BY DEF DlEntries

\* A handle that opens, closes or reports changes the readers of two downloads
\* at most.
LEMMA HandleMoves ==
  ASSUME NEW r \in Ranges, CdTypeOK, NEW h \in ReadHandles,
         readHandle' = [readHandle EXCEPT ![r] = h]
  PROVE  /\ readHandle' \in [Ranges -> ReadHandles]
         /\ readHandle'[r] = h
         /\ \A q \in Ranges : q # r => readHandle'[q] = readHandle[q]
         /\ \A d \in Downloads :
              Readers(d)' = IF h.of = d THEN Readers(d) \cup {r} ELSE Readers(d) \ {r}
<1>1. /\ readHandle' \in [Ranges -> ReadHandles]
      /\ readHandle'[r] = h
      /\ \A q \in Ranges : q # r => readHandle'[q] = readHandle[q]
  BY DEF CdTypeOK
<1>2. ASSUME NEW d \in Downloads
      PROVE  Readers(d)' = IF h.of = d THEN Readers(d) \cup {r} ELSE Readers(d) \ {r}
  BY <1>1 DEF Readers
<1> QED  BY <1>1, <1>2

\* Readers are finite, and how many there are with one more and one less.
LEMMA ReadersFinite ==
  ASSUME NEW d \in Downloads
  PROVE  /\ IsFiniteSet(Readers(d)) /\ Cardinality(Readers(d)) \in Nat
         /\ Cardinality(Readers(d)) = 0 <=> Readers(d) = {}
         /\ \A r : r \notin Readers(d) => Cardinality(Readers(d) \cup {r}) = Cardinality(Readers(d)) + 1
         /\ \A r : r \in Readers(d) => Cardinality(Readers(d) \ {r}) = Cardinality(Readers(d)) - 1
<1>1. IsFiniteSet(Readers(d))
  <2>1. Readers(d) \subseteq Ranges
    BY DEF Readers
  <2> QED  BY <2>1, RangesAssumption, FS_Subset
<1>2. Cardinality(Readers(d)) \in Nat
  BY <1>1, FS_CardinalityType
<1>3. Cardinality(Readers(d)) = 0 <=> Readers(d) = {}
  BY <1>1, FS_EmptySet
<1>4. ASSUME NEW r, r \notin Readers(d)
      PROVE  Cardinality(Readers(d) \cup {r}) = Cardinality(Readers(d)) + 1
  BY <1>1, <1>4, FS_AddElement
<1>5. ASSUME NEW r, r \in Readers(d)
      PROVE  Cardinality(Readers(d) \ {r}) = Cardinality(Readers(d)) - 1
  BY <1>1, <1>5, FS_RemoveElement
<1> QED  BY <1>1, <1>2, <1>3, <1>4, <1>5

\* Nobody reads a settled download.
LEMMA SettledUnread ==
  ASSUME CdTypeOK, ReadersCounted, SettledIsLeft
  PROVE  \A d \in Downloads : dlEntry[d].settled => \A r \in Ranges : readHandle[r].of # d
<1> SUFFICES ASSUME NEW d \in Downloads, dlEntry[d].settled
             PROVE  Readers(d) = {}
  BY DEF Readers
<1>1. Cardinality(Readers(d)) = 0
  BY DEF ReadersCounted, SettledIsLeft
<1> QED  BY <1>1, ReadersFinite

LEMMA CdInitHolds == CdInit => CdIInv
<1> SUFFICES ASSUME CdInit PROVE CdIInv
  OBVIOUS
<1>1. CdTypeOK
  BY DEF CdInit, CdTypeOK, NoDownload, NoHandle, DlEntries, ReadHandles, RowStates
<1>2. ReadersCounted
  <2>1. ASSUME NEW d \in Downloads PROVE Cardinality(Readers(d)) = 0
    <3>1. Readers(d) = {}
      BY NumbersPositive DEF CdInit, Readers, NoHandle
    <3> QED  BY <3>1, FS_EmptySet
  <2> QED  BY <2>1 DEF CdInit, ReadersCounted, NoDownload, NoHandle
<1>3. FiredIsWaiting /\ SettledIsLeft /\ NewIsNew /\ SettlingFits /\ RowHasOwner /\ HistoryFits
  BY DEF CdInit, FiredIsWaiting, SettledIsLeft, NewIsNew, SettlingFits, RowHasOwner, HistoryFits, NoDownload
<1> QED  BY <1>1, <1>2, <1>3 DEF CdIInv

\* Counting readers when one entry and one handle change together.
LEMMA CountMoves ==
  ASSUME CdIInv, NEW r \in Ranges, NEW h \in ReadHandles, h.of # 0 => h.open,
         NEW d \in Downloads, NEW n \in Nat,
         readHandle' = [readHandle EXCEPT ![r] = h],
         dlEntry'[d].active = n,
         \A x \in Downloads : x # d => dlEntry'[x].active = dlEntry[x].active,
         \/ h.of = readHandle[r].of /\ n = dlEntry[d].active
         \/ readHandle[r].of = 0 /\ h.of = d /\ n = dlEntry[d].active + 1
         \/ readHandle[r].of = d /\ h.of = 0 /\ n = dlEntry[d].active - 1
  PROVE  readHandle' \in [Ranges -> ReadHandles] /\ ReadersCounted'
<1>1. CdTypeOK
  BY DEF CdIInv
<1>2. /\ readHandle' \in [Ranges -> ReadHandles]
      /\ readHandle'[r] = h
      /\ \A q \in Ranges : q # r => readHandle'[q] = readHandle[q]
  BY <1>1, HandleMoves
<1>3. \A x \in Downloads :
        Readers(x)' = IF h.of = x THEN Readers(x) \cup {r} ELSE Readers(x) \ {r}
  BY <1>1, HandleMoves
<1>4. \A x \in Downloads : r \in Readers(x) <=> readHandle[r].of = x
  BY DEF Readers
<1>5. ASSUME NEW x \in Downloads PROVE dlEntry'[x].active = Cardinality(Readers(x)')
  <2>1. dlEntry[x].active = Cardinality(Readers(x)) /\ x # 0
    BY NumbersPositive DEF CdIInv, ReadersCounted
  <2>2. CASE x # d /\ h.of # readHandle[r].of
    <3>1. h.of # x /\ readHandle[r].of # x
      BY <2>1, <2>2
    <3>2. Readers(x)' = Readers(x) \ {r} /\ r \notin Readers(x)
      BY <1>3, <1>4, <3>1
    <3>3. Readers(x)' = Readers(x)
      BY <3>2
    <3> QED  BY <2>1, <2>2, <3>3
  <2>3. CASE h.of = readHandle[r].of /\ n = dlEntry[d].active
    <3>1. Readers(x)' = Readers(x)
      <4>1. CASE h.of = x
        <5>1. r \in Readers(x) /\ Readers(x)' = Readers(x) \cup {r}
          BY <1>3, <1>4, <2>3, <4>1
        <5> QED  BY <5>1
      <4>2. CASE h.of # x
        <5>1. r \notin Readers(x) /\ Readers(x)' = Readers(x) \ {r}
          BY <1>3, <1>4, <2>3, <4>2
        <5> QED  BY <5>1
      <4> QED  BY <4>1, <4>2
    <3>2. dlEntry'[x].active = dlEntry[x].active
      BY <2>3
    <3> QED  BY <2>1, <3>1, <3>2
  <2>4. CASE x = d /\ h.of = d /\ readHandle[r].of = 0 /\ n = dlEntry[d].active + 1
    <3>1. Readers(x)' = Readers(x) \cup {r} /\ r \notin Readers(x)
      BY <1>3, <1>4, <2>1, <2>4
    <3> QED  BY <2>1, <2>4, <3>1, ReadersFinite
  <2>5. CASE x = d /\ h.of = 0 /\ readHandle[r].of = d /\ n = dlEntry[d].active - 1
    <3>1. Readers(x)' = Readers(x) \ {r} /\ r \in Readers(x)
      BY <1>3, <1>4, <2>1, <2>5
    <3> QED  BY <2>1, <2>5, <3>1, ReadersFinite
  <2>6. d # 0
    BY NumbersPositive
  <2> QED  BY <2>2, <2>3, <2>4, <2>5, <2>6
<1>6. \A q \in Ranges : readHandle'[q].of # 0 => readHandle'[q].open
  BY <1>2 DEF CdIInv, ReadersCounted
<1> QED  BY <1>2, <1>5, <1>6 DEF ReadersCounted

\* A request joins the current entry.
LEMMA JoinReadHolds ==
  ASSUME CdIInv, NEW r \in Ranges, JoinRead(r)
  PROVE  CdIInv'
<1>1. PICK d \in Downloads : d = dlCurrent
  BY DEF JoinRead, Joinable, CdIInv, CdTypeOK
<1> DEFINE n == dlEntry[d].active + 1
           h == [open |-> TRUE, of |-> d, report |-> -1]
<1>2. /\ dlEntry[d] \in DlEntries /\ ~dlEntry[d].settled /\ dlRow[d] # "none"
      /\ readHandle[r].of = 0
  BY <1>1 DEF JoinRead, Joinable, CdIInv, CdTypeOK, ReadHandles, ReadersCounted, NewIsNew, NoDownload
<1>3. h \in ReadHandles /\ h.of = d /\ h.open
  BY DEF ReadHandles
<1>4. readHandle' = [readHandle EXCEPT ![r] = h]
  BY <1>1 DEF JoinRead
<1>5. UNCHANGED <<dlCurrent, jobsMap, fired, settling, dlRow, downloaded, panelCall, astray>>
  BY DEF JoinRead
<1>6. n \in Nat /\ n > 0
  BY <1>2 DEF DlEntries
<1>7. /\ \A x \in Downloads : x # d => dlEntry'[x] = dlEntry[x]
      /\ dlEntry'[d] = [dlEntry[d] EXCEPT !.idle = "none", !.active = n]
      /\ dlEntry' = [dlEntry EXCEPT ![d] = dlEntry'[d]]
  BY <1>1 DEF JoinRead, CdIInv, CdTypeOK
<1> HIDE DEF n, h
<1>8. /\ dlEntry'[d] \in DlEntries /\ dlEntry'[d].idle = "none" /\ dlEntry'[d].active = n
      /\ dlEntry'[d].settled = dlEntry[d].settled
      /\ dlEntry'[d].cancelled = dlEntry[d].cancelled /\ dlEntry'[d].received = dlEntry[d].received
  BY <1>2, <1>6, <1>7 DEF DlEntries
<1>9. readHandle' \in [Ranges -> ReadHandles] /\ ReadersCounted'
  <2>1. readHandle[r].of = 0 /\ h.of = d /\ n = dlEntry[d].active + 1
    BY <1>2, <1>3 DEF n
  <2>2. dlEntry'[d].active = n /\ \A x \in Downloads : x # d => dlEntry'[x].active = dlEntry[x].active
    BY <1>7, <1>8
  <2>3. h \in ReadHandles /\ h.open /\ n \in Nat
    BY <1>3, <1>6
  <2> QED  BY <1>4, <2>1, <2>2, <2>3, CountMoves
<1>10. CdTypeOK'
  BY <1>5, <1>7, <1>8, <1>9 DEF CdIInv, CdTypeOK
<1>11. FiredIsWaiting'
  BY <1>2, <1>5, <1>6, <1>7, <1>8 DEF CdIInv, CdTypeOK, FiredIsWaiting
<1>12. SettledIsLeft'
  BY <1>2, <1>5, <1>6, <1>7, <1>8 DEF CdIInv, CdTypeOK, SettledIsLeft
<1>13. NewIsNew'
  BY <1>2, <1>5, <1>6, <1>7, <1>8 DEF CdIInv, CdTypeOK, NewIsNew
<1>14. SettlingFits'
  BY <1>2, <1>5, <1>6, <1>7, <1>8 DEF CdIInv, CdTypeOK, SettlingFits
<1>15. RowHasOwner'
  <2> SUFFICES ASSUME NEW x \in Downloads, dlRow[x] = "running", x \notin astray, settling[x] = "none"
               PROVE  /\ ~dlEntry'[x].settled /\ dlCurrent = x /\ x \in jobsMap
                      /\ dlEntry'[x].active > 0 \/ dlEntry'[x].idle = "armed" \/ fired[x] > 0
    BY <1>5 DEF RowHasOwner
  <2> QED  BY <1>6, <1>7, <1>8 DEF CdIInv, RowHasOwner
<1>16. HistoryFits'
  BY <1>2, <1>5, <1>6, <1>7, <1>8 DEF CdIInv, CdTypeOK, HistoryFits
<1> QED  BY <1>9, <1>10, <1>11, <1>12, <1>13, <1>14, <1>15, <1>16 DEF CdIInv

\* A step that no handle and no count of readers takes part in.
LEMMA CountStays ==
  ASSUME CdIInv, readHandle' = readHandle,
         \A d \in Downloads : dlEntry'[d].active = dlEntry[d].active
  PROVE  ReadersCounted'
<1>1. \A d \in Downloads : Readers(d)' = Readers(d)
  BY DEF Readers
<1> QED  BY <1>1 DEF CdIInv, ReadersCounted

\* A request opens a row, and an entry unless its second statement fails.
LEMMA OpenReadHolds ==
  ASSUME CdIInv, NEW r \in Ranges, OpenRead(r)
  PROVE  CdIInv'
<1> DEFINE e == [NoDownload EXCEPT !.active = 1, !.settled = FALSE]
           h(x) == [open |-> TRUE, of |-> x, report |-> -1]
<1>1. PICK d \in NewDownloads :
        /\ dlRow' = [dlRow EXCEPT ![d] = "running"]
        /\ \/ /\ dlEntry' = [dlEntry EXCEPT ![d] = e]
              /\ dlCurrent' = d /\ jobsMap' = jobsMap \cup {d}
              /\ readHandle' = [readHandle EXCEPT ![r] = h(d)]
              /\ UNCHANGED astray
           \/ /\ readHandle' = [readHandle EXCEPT ![r] = h(0)]
              /\ astray' = astray \cup {d}
              /\ UNCHANGED <<dlEntry, dlCurrent, jobsMap>>
  BY DEF OpenRead
<1>2. /\ d \in Downloads /\ dlRow[d] = "none" /\ dlEntry[d] = NoDownload /\ settling[d] = "none"
      /\ readHandle[r].of = 0
  BY DEF NewDownloads, OpenRead, CdIInv, CdTypeOK, ReadHandles, ReadersCounted, NewIsNew
<1>3. UNCHANGED <<fired, settling, downloaded, panelCall>>
  BY DEF OpenRead
<1>4. /\ dlRow'[d] = "running"
      /\ \A x \in Downloads : x # d => dlRow'[x] = dlRow[x]
      /\ dlRow' \in [Downloads -> RowStates]
  BY <1>1, <1>2 DEF CdIInv, CdTypeOK, RowStates
<1>5. \A x \in Downloads \cup {0} : h(x) \in ReadHandles /\ h(x).of = x /\ h(x).open
  BY DEF ReadHandles
<1>6. /\ e \in DlEntries /\ e.active = 1 /\ e.idle = "none" /\ ~e.settled /\ ~e.cancelled
      /\ NoDownload.active = 0
  BY DEF DlEntries, NoDownload
<1> HIDE DEF e, h
<1>7. ~Joinable
  BY DEF OpenRead
<1>8. \A x \in Downloads : dlRow[x] = "running" /\ x \notin astray => settling[x] # "none"
  BY <1>7, NumbersPositive DEF CdIInv, RowHasOwner, Joinable
<1>9. CASE /\ dlEntry' = [dlEntry EXCEPT ![d] = e]
           /\ dlCurrent' = d /\ jobsMap' = jobsMap \cup {d}
           /\ readHandle' = [readHandle EXCEPT ![r] = h(d)]
           /\ UNCHANGED astray
  <2>1. /\ dlEntry'[d] = e
        /\ \A x \in Downloads : x # d => dlEntry'[x] = dlEntry[x]
        /\ dlEntry' \in [Downloads -> DlEntries]
    BY <1>2, <1>6, <1>9 DEF CdIInv, CdTypeOK
  <2>2. readHandle' \in [Ranges -> ReadHandles] /\ ReadersCounted'
    <3>1. h(d) \in ReadHandles /\ h(d).open /\ h(d).of = d
      BY <1>2, <1>5
    <3>2. /\ dlEntry'[d].active = 1 /\ 1 = dlEntry[d].active + 1
          /\ \A x \in Downloads : x # d => dlEntry'[x].active = dlEntry[x].active
      BY <1>2, <1>6, <2>1
    <3>3. readHandle' = [readHandle EXCEPT ![r] = h(d)]
      BY <1>9
    <3> QED  BY <1>2, <3>1, <3>2, <3>3, CountMoves
  <2>3. CdTypeOK'
    BY <1>2, <1>3, <1>4, <1>9, <2>1, <2>2 DEF CdIInv, CdTypeOK
  <2>4. FiredIsWaiting'
    BY <1>2, <1>3, <1>4, <1>6, <1>8, <1>9, <2>1 DEF CdIInv, FiredIsWaiting
  <2>5. SettledIsLeft'
    BY <1>2, <1>3, <1>4, <1>6, <1>8, <1>9, <2>1 DEF CdIInv, SettledIsLeft
  <2>6. NewIsNew'
    BY <1>2, <1>3, <1>4, <1>6, <1>8, <1>9, <2>1 DEF CdIInv, NewIsNew
  <2>7. SettlingFits'
    BY <1>2, <1>3, <1>4, <1>6, <1>8, <1>9, <2>1 DEF CdIInv, SettlingFits
  <2>8. RowHasOwner'
    BY <1>2, <1>3, <1>4, <1>6, <1>8, <1>9, <2>1 DEF CdIInv, RowHasOwner
  <2>9. HistoryFits'
    BY <1>2, <1>3, <1>4, <1>6, <1>8, <1>9, <2>1 DEF CdIInv, HistoryFits
  <2> QED  BY <2>2, <2>3,   <2>4,   <2>5,   <2>6,   <2>7,   <2>8,   <2>9 DEF CdIInv
<1>10. CASE /\ readHandle' = [readHandle EXCEPT ![r] = h(0)]
           /\ astray' = astray \cup {d}
           /\ UNCHANGED <<dlEntry, dlCurrent, jobsMap>>
  <2>1. readHandle' \in [Ranges -> ReadHandles] /\ ReadersCounted'
    <3>1. h(0) \in ReadHandles /\ h(0).of = 0
      BY <1>5
    <3>2. /\ dlEntry'[d].active = 0 /\ 0 = dlEntry[d].active
          /\ \A x \in Downloads : x # d => dlEntry'[x].active = dlEntry[x].active
      BY <1>2, <1>6, <1>10
    <3>3. readHandle' = [readHandle EXCEPT ![r] = h(0)]
      BY <1>10
    <3> QED  BY <1>2, <3>1, <3>2, <3>3, CountMoves
  <2>2. CdTypeOK'
    BY <1>2, <1>3, <1>4, <1>10, <2>1 DEF CdIInv, CdTypeOK
  <2>3. FiredIsWaiting'
    BY <1>2, <1>3, <1>4, <1>8, <1>10 DEF CdIInv, FiredIsWaiting
  <2>4. SettledIsLeft'
    BY <1>2, <1>3, <1>4, <1>8, <1>10 DEF CdIInv, SettledIsLeft
  <2>5. NewIsNew'
    BY <1>2, <1>3, <1>4, <1>8, <1>10 DEF CdIInv, NewIsNew
  <2>6. SettlingFits'
    BY <1>2, <1>3, <1>4, <1>8, <1>10 DEF CdIInv, SettlingFits
  <2>7. RowHasOwner'
    BY <1>2, <1>3, <1>4, <1>8, <1>10 DEF CdIInv, RowHasOwner
  <2>8. HistoryFits'
    BY <1>2, <1>3, <1>4, <1>8, <1>10 DEF CdIInv, HistoryFits
  <2> QED  BY <2>1, <2>2,   <2>3,   <2>4,   <2>5,   <2>6,   <2>7,   <2>8 DEF CdIInv
<1> QED  BY <1>1, <1>9, <1>10

\* A piece is counted.
LEMMA AddBytesHolds ==
  ASSUME CdIInv, NEW r \in Ranges, AddBytes(r)
  PROVE  CdIInv'
<1>1. PICK d \in Downloads : d = readHandle[r].of
  BY DEF AddBytes, CdIInv, CdTypeOK, ReadHandles
<1>2. /\ dlEntry[d] \in DlEntries /\ readHandle[r] \in ReadHandles
      /\ dlEntry[d].received \in Nat
      /\ ~dlEntry[d].settled
  BY <1>1, SettledUnread DEF CdIInv, CdTypeOK, DlEntries
<1>3. dlRow[d] # "none" /\ dlRow[d] # "complete" /\ settling[d] = "none"
  BY <1>2 DEF CdIInv, NewIsNew, HistoryFits, SettlingFits, NoDownload
<1>4. /\ dlEntry' = [dlEntry EXCEPT ![d].received = dlEntry[d].received + 1]
      /\ \/ readHandle' = [readHandle EXCEPT ![r].report = dlEntry[d].received + 1]
         \/ UNCHANGED readHandle
      /\ UNCHANGED <<dlCurrent, jobsMap, fired, settling, dlRow, downloaded, panelCall, astray>>
  BY <1>1 DEF AddBytes
<1>5. /\ \A x \in Downloads : x # d => dlEntry'[x] = dlEntry[x]
      /\ dlEntry'[d] = [dlEntry[d] EXCEPT !.received = dlEntry[d].received + 1]
      /\ dlEntry' = [dlEntry EXCEPT ![d] = dlEntry'[d]]
  BY <1>4 DEF CdIInv, CdTypeOK
<1>6. /\ dlEntry'[d] \in DlEntries /\ dlEntry'[d].idle = dlEntry[d].idle
      /\ dlEntry'[d].active = dlEntry[d].active /\ dlEntry'[d].settled = dlEntry[d].settled
      /\ dlEntry'[d].cancelled = dlEntry[d].cancelled
  BY <1>2, <1>5 DEF DlEntries
<1>7. readHandle' \in [Ranges -> ReadHandles] /\ ReadersCounted'
  <2>1. CASE UNCHANGED readHandle
    <3>1. \A x \in Downloads : dlEntry'[x].active = dlEntry[x].active
      BY <1>5, <1>6
    <3> QED  BY <2>1, <3>1, CountStays DEF CdIInv, CdTypeOK
  <2>2. CASE readHandle' = [readHandle EXCEPT ![r].report = dlEntry[d].received + 1]
    <3> DEFINE h == [readHandle[r] EXCEPT !.report = dlEntry[d].received + 1]
    <3>1. /\ h \in ReadHandles /\ h.of = readHandle[r].of
          /\ h.of # 0 => h.open
      BY <1>2 DEF ReadHandles, CdIInv, ReadersCounted
    <3>2. readHandle' = [readHandle EXCEPT ![r] = h]
      BY <2>2 DEF CdIInv, CdTypeOK
    <3>3. /\ dlEntry[d].active \in Nat /\ dlEntry'[d].active = dlEntry[d].active
          /\ \A x \in Downloads : x # d => dlEntry'[x].active = dlEntry[x].active
      BY <1>2, <1>5, <1>6 DEF DlEntries
    <3> HIDE DEF h
    <3> QED  BY <3>1, <3>2, <3>3, CountMoves
  <2> QED  BY <1>4, <2>1, <2>2
<1>8. CdTypeOK'
  BY <1>4, <1>5, <1>6, <1>7 DEF CdIInv, CdTypeOK
<1>9. FiredIsWaiting'
  BY <1>2, <1>3, <1>4, <1>5, <1>6 DEF CdIInv, FiredIsWaiting
<1>10. SettledIsLeft'
  BY <1>2, <1>3, <1>4, <1>5, <1>6 DEF CdIInv, SettledIsLeft
<1>11. NewIsNew'
  BY <1>2, <1>3, <1>4, <1>5, <1>6 DEF CdIInv, NewIsNew
<1>12. SettlingFits'
  BY <1>2, <1>3, <1>4, <1>5, <1>6 DEF CdIInv, SettlingFits
<1>13. RowHasOwner'
  BY <1>2, <1>3, <1>4, <1>5, <1>6 DEF CdIInv, RowHasOwner
<1>14. HistoryFits'
  BY <1>2, <1>3, <1>4, <1>5, <1>6 DEF CdIInv, HistoryFits
<1> QED  BY <1>7, <1>8, <1>9, <1>10, <1>11, <1>12, <1>13, <1>14 DEF CdIInv

\* A report is written.
LEMMA RecordProgressHolds ==
  ASSUME CdIInv, NEW r \in Ranges, RecordProgress(r)
  PROVE  CdIInv'
<1> DEFINE d == readHandle[r].of
           h == [readHandle[r] EXCEPT !.report = -1]
<1>1. readHandle[r] \in ReadHandles /\ readHandle[r].report \in Int
  BY DEF CdIInv, CdTypeOK, ReadHandles
<1>2. /\ \/ downloaded' = [downloaded EXCEPT ![d] = readHandle[r].report]
         \/ UNCHANGED downloaded
      /\ UNCHANGED <<dlEntry, dlCurrent, jobsMap, fired, settling, dlRow, panelCall, astray>>
  BY DEF RecordProgress
<1>3. /\ downloaded' \in [Downloads -> Int]
      /\ \A x \in Downloads : x # d => downloaded'[x] = downloaded[x]
  BY <1>1, <1>2 DEF CdIInv, CdTypeOK
<1>4. \A x \in Downloads : dlEntry[x].settled => x # d
  BY SettledUnread DEF CdIInv
<1>5. h \in ReadHandles /\ h.of = readHandle[r].of /\ (h.of # 0 => h.open)
  BY <1>1 DEF ReadHandles, CdIInv, ReadersCounted
<1>6. readHandle' = [readHandle EXCEPT ![r] = h]
  BY DEF RecordProgress, CdIInv, CdTypeOK
<1> HIDE DEF h
<1>7. readHandle' \in [Ranges -> ReadHandles]
  BY <1>5, <1>6 DEF CdIInv, CdTypeOK
<1>8. ReadersCounted'
  <2>1. \A x \in Downloads : Readers(x)' = Readers(x)
    BY <1>5, <1>6, <1>7 DEF Readers, CdIInv, CdTypeOK
  <2>2. \A q \in Ranges : readHandle'[q].of # 0 => readHandle'[q].open
    BY <1>5, <1>6 DEF CdIInv, CdTypeOK, ReadersCounted
  <2> QED  BY <1>2, <2>1, <2>2 DEF CdIInv, ReadersCounted
<1>9. CdTypeOK'
  BY <1>2, <1>3, <1>7 DEF CdIInv, CdTypeOK
<1>10. FiredIsWaiting'
  BY <1>2, <1>3, <1>4 DEF CdIInv, FiredIsWaiting
<1>11. SettledIsLeft'
  BY <1>2, <1>3, <1>4 DEF CdIInv, SettledIsLeft
<1>12. NewIsNew'
  BY <1>2, <1>3, <1>4 DEF CdIInv, NewIsNew
<1>13. SettlingFits'
  BY <1>2, <1>3, <1>4 DEF CdIInv, SettlingFits
<1>14. RowHasOwner'
  BY <1>2, <1>3, <1>4 DEF CdIInv, RowHasOwner
<1>15. HistoryFits'
  BY <1>2, <1>3, <1>4 DEF CdIInv, HistoryFits
<1> QED  BY <1>8, <1>9, <1>10, <1>11, <1>12, <1>13, <1>14, <1>15 DEF CdIInv

\* A request leaves; the last one out arms the timer.
LEMMA CloseReadHolds ==
  ASSUME CdIInv, NEW r \in Ranges, CloseRead(r)
  PROVE  CdIInv'
<1>1. NoHandle \in ReadHandles /\ NoHandle.of = 0
  BY DEF NoHandle, ReadHandles
<1>2. /\ readHandle' = [readHandle EXCEPT ![r] = NoHandle]
      /\ UNCHANGED <<dlCurrent, jobsMap, fired, settling, dlRow, downloaded, panelCall, astray>>
  BY DEF CloseRead
<1>3. CASE readHandle[r].of = 0
  <2>1. UNCHANGED dlEntry
    BY <1>3 DEF CloseRead
  <2>2. readHandle' \in [Ranges -> ReadHandles]
    BY <1>1, <1>2 DEF CdIInv, CdTypeOK
  <2>3. ReadersCounted'
    <3>1. \A x \in Downloads : Readers(x)' = Readers(x)
      BY <1>1, <1>2, <1>3, NumbersPositive DEF Readers, CdIInv, CdTypeOK
    <3>2. \A q \in Ranges : readHandle'[q].of # 0 => readHandle'[q].open
      BY <1>1, <1>2 DEF CdIInv, CdTypeOK, ReadersCounted
    <3> QED  BY <2>1, <3>1, <3>2 DEF CdIInv, ReadersCounted
  <2>4. CdTypeOK'
    BY <1>2, <2>1, <2>2 DEF CdIInv, CdTypeOK
  <2>5. FiredIsWaiting'
    BY <1>2, <2>1 DEF CdIInv, FiredIsWaiting
  <2>6. SettledIsLeft'
    BY <1>2, <2>1 DEF CdIInv, SettledIsLeft
  <2>7. NewIsNew'
    BY <1>2, <2>1 DEF CdIInv, NewIsNew
  <2>8. SettlingFits'
    BY <1>2, <2>1 DEF CdIInv, SettlingFits
  <2>9. RowHasOwner'
    BY <1>2, <2>1 DEF CdIInv, RowHasOwner
  <2>10. HistoryFits'
    BY <1>2, <2>1 DEF CdIInv, HistoryFits
  <2> QED  BY <2>3, <2>4,   <2>5,   <2>6,   <2>7,   <2>8,   <2>9,   <2>10 DEF CdIInv
<1>4. CASE readHandle[r].of # 0
  <2>1. PICK d \in Downloads : d = readHandle[r].of
    BY <1>4 DEF CdIInv, CdTypeOK, ReadHandles
  <2>2. /\ dlEntry[d] \in DlEntries /\ ~dlEntry[d].settled
        /\ dlRow[d] # "none" /\ dlRow[d] # "complete" /\ settling[d] = "none"
    BY <2>1, SettledUnread DEF CdIInv, CdTypeOK, NewIsNew, HistoryFits, SettlingFits, NoDownload
  <2>3. dlEntry[d].active \in Nat /\ dlEntry[d].active > 0
    <3>1. r \in Readers(d)
      BY <2>1 DEF Readers
    <3>2. Cardinality(Readers(d)) # 0
      BY <3>1, ReadersFinite
    <3> QED  BY <2>2, <3>2 DEF CdIInv, ReadersCounted, DlEntries
  <2> DEFINE n == dlEntry[d].active - 1
             i == IF n > 0 \/ dlEntry[d].idle # "none" THEN dlEntry[d].idle ELSE "armed"
  <2>4. /\ \A x \in Downloads : x # d => dlEntry'[x] = dlEntry[x]
        /\ dlEntry'[d] = ReleaseClientRead(dlEntry[d])
        /\ dlEntry' = [dlEntry EXCEPT ![d] = dlEntry'[d]]
    BY <1>4, <2>1 DEF CloseRead, CdIInv, CdTypeOK
  <2>5. dlEntry'[d] = [dlEntry[d] EXCEPT !.active = n, !.idle = i]
    BY <2>2, <2>3, <2>4 DEF ReleaseClientRead, DlEntries
  <2>6. /\ n \in Nat /\ i \in {"none", "armed", "fired"}
        /\ n = 0 => i # "none"
        /\ i # dlEntry[d].idle => i = "armed"
    BY <2>2, <2>3 DEF DlEntries
  <2>7. n = dlEntry[d].active - 1
    OBVIOUS
  <2> HIDE DEF n, i
  <2>8. /\ dlEntry'[d] \in DlEntries /\ dlEntry'[d].active = n /\ dlEntry'[d].idle = i
        /\ dlEntry'[d].settled = dlEntry[d].settled
        /\ dlEntry'[d].cancelled = dlEntry[d].cancelled /\ dlEntry'[d].received = dlEntry[d].received
    BY <2>2, <2>5, <2>6 DEF DlEntries
  <2>9. readHandle' \in [Ranges -> ReadHandles] /\ ReadersCounted'
    <3>1. readHandle[r].of = d /\ NoHandle.of = 0 /\ n = dlEntry[d].active - 1
      BY <1>1, <2>1, <2>7
    <3>2. /\ dlEntry'[d].active = n /\ n \in Nat
          /\ \A x \in Downloads : x # d => dlEntry'[x].active = dlEntry[x].active
      BY <2>4, <2>6, <2>8
    <3>3. readHandle' = [readHandle EXCEPT ![r] = NoHandle]
      BY <1>2
    <3> QED  BY <1>1, <3>1, <3>2, <3>3, CountMoves
  <2>10. CdTypeOK'
    BY <1>2, <2>4, <2>8, <2>9 DEF CdIInv, CdTypeOK
  <2>11. FiredIsWaiting'
    BY <1>2, <2>2, <2>4, <2>6, <2>8 DEF CdIInv, FiredIsWaiting
  <2>12. SettledIsLeft'
    BY <1>2, <2>2, <2>4, <2>6, <2>8 DEF CdIInv, SettledIsLeft
  <2>13. NewIsNew'
    BY <1>2, <2>2, <2>4, <2>6, <2>8 DEF CdIInv, NewIsNew
  <2>14. SettlingFits'
    BY <1>2, <2>2, <2>4, <2>6, <2>8 DEF CdIInv, SettlingFits
  <2>15. RowHasOwner'
    <3> SUFFICES ASSUME NEW x \in Downloads, dlRow[x] = "running", x \notin astray, settling[x] = "none"
                 PROVE  /\ ~dlEntry'[x].settled /\ dlCurrent = x /\ x \in jobsMap
                        /\ dlEntry'[x].active > 0 \/ dlEntry'[x].idle = "armed" \/ fired[x] > 0
      BY <1>2 DEF RowHasOwner
    <3>1. CASE x = d
      <4>1. n > 0 \/ i = "armed" \/ fired[d] > 0
        BY <2>2, <2>6 DEF CdIInv, FiredIsWaiting
      <4> QED  BY <2>8, <3>1, <4>1 DEF CdIInv, RowHasOwner
    <3>2. CASE x # d
      BY <2>4, <3>2 DEF CdIInv, RowHasOwner
    <3> QED  BY <3>1, <3>2
  <2>16. HistoryFits'
    BY <1>2, <2>2, <2>4, <2>6, <2>8 DEF CdIInv, HistoryFits
  <2> QED  BY <2>9, <2>10,   <2>11,   <2>12,   <2>13,   <2>14,   <2>15,   <2>16 DEF CdIInv
<1> QED  BY <1>3, <1>4

\* The timer fires.
LEMMA GraceExpiresHolds ==
  ASSUME CdIInv, NEW d \in Downloads, GraceExpires(d)
  PROVE  CdIInv'
<1>1. /\ dlEntry[d] \in DlEntries /\ fired[d] \in Nat /\ dlEntry[d].idle = "armed"
  BY DEF GraceExpires, CdIInv, CdTypeOK
<1>2. /\ dlEntry' = [dlEntry EXCEPT ![d].idle = "fired"]
      /\ fired' = [fired EXCEPT ![d] = fired[d] + 1]
      /\ UNCHANGED <<dlCurrent, jobsMap, settling, dlRow, downloaded, readHandle, panelCall, astray>>
  BY DEF GraceExpires
<1>3. /\ \A x \in Downloads : x # d => dlEntry'[x] = dlEntry[x]
      /\ dlEntry'[d] = [dlEntry[d] EXCEPT !.idle = "fired"]
      /\ dlEntry' = [dlEntry EXCEPT ![d] = dlEntry'[d]]
  BY <1>2 DEF CdIInv, CdTypeOK
<1>4. /\ dlEntry'[d] \in DlEntries /\ dlEntry'[d].idle = "fired"
      /\ dlEntry'[d].active = dlEntry[d].active /\ dlEntry'[d].settled = dlEntry[d].settled
      /\ dlEntry'[d].cancelled = dlEntry[d].cancelled /\ dlEntry'[d].received = dlEntry[d].received
  BY <1>1, <1>3 DEF DlEntries
<1>5. /\ fired' \in [Downloads -> Nat] /\ fired'[d] > 0
      /\ \A x \in Downloads : x # d => fired'[x] = fired[x]
  BY <1>1, <1>2 DEF CdIInv, CdTypeOK
<1>6. dlEntry[d] # NoDownload
  BY <1>1 DEF NoDownload
<1>7. CdTypeOK'
  BY <1>2, <1>3, <1>4, <1>5 DEF CdIInv, CdTypeOK
<1>8. ReadersCounted'
  <2>1. \A x \in Downloads : dlEntry'[x].active = dlEntry[x].active
    BY <1>3, <1>4
  <2> QED  BY <1>2, <2>1, CountStays
<1>9. FiredIsWaiting'
  BY <1>2, <1>3, <1>4, <1>5, <1>6 DEF CdIInv, FiredIsWaiting
<1>10. SettledIsLeft'
  BY <1>2, <1>3, <1>4, <1>5, <1>6 DEF CdIInv, SettledIsLeft
<1>11. NewIsNew'
  BY <1>2, <1>3, <1>4, <1>5, <1>6 DEF CdIInv, NewIsNew
<1>12. SettlingFits'
  BY <1>2, <1>3, <1>4, <1>5, <1>6 DEF CdIInv, SettlingFits
<1>13. RowHasOwner'
  BY <1>2, <1>3, <1>4, <1>5, <1>6 DEF CdIInv, RowHasOwner
<1>14. HistoryFits'
  BY <1>2, <1>3, <1>4, <1>5, <1>6 DEF CdIInv, HistoryFits
<1> QED  BY <1>7, <1>8, <1>9, <1>10, <1>11, <1>12, <1>13, <1>14 DEF CdIInv

\* The callback of a timer finds a reader or an earlier callback.
LEMMA SettleInUse ==
  ASSUME CdIInv, NEW d \in Downloads, SettleDownload(d), InUse(dlEntry[d])
  PROVE  CdIInv'
<1>1. /\ dlEntry[d] \in DlEntries /\ fired[d] \in Nat /\ fired[d] > 0
  BY DEF SettleDownload, CdIInv, CdTypeOK
<1>2. /\ dlEntry' = [dlEntry EXCEPT ![d].idle = "none"]
      /\ fired' = [fired EXCEPT ![d] = fired[d] - 1]
      /\ UNCHANGED <<dlCurrent, jobsMap, settling, dlRow, downloaded, readHandle, panelCall, astray>>
  BY DEF SettleDownload
<1>3. /\ \A x \in Downloads : x # d => dlEntry'[x] = dlEntry[x]
      /\ dlEntry'[d] = [dlEntry[d] EXCEPT !.idle = "none"]
      /\ dlEntry' = [dlEntry EXCEPT ![d] = dlEntry'[d]]
  BY <1>2 DEF CdIInv, CdTypeOK
<1>4. /\ dlEntry'[d] \in DlEntries /\ dlEntry'[d].idle = "none"
      /\ dlEntry'[d].active = dlEntry[d].active /\ dlEntry'[d].settled = dlEntry[d].settled
      /\ dlEntry'[d].cancelled = dlEntry[d].cancelled /\ dlEntry'[d].received = dlEntry[d].received
  BY <1>1, <1>3 DEF DlEntries
<1>5. /\ fired' \in [Downloads -> Nat]
      /\ \A x \in Downloads : x # d => fired'[x] = fired[x]
  BY <1>1, <1>2 DEF CdIInv, CdTypeOK
<1>6. dlEntry[d] = NoDownload => dlEntry'[d] = NoDownload
  BY <1>3 DEF NoDownload
<1>7. CdTypeOK'
  BY <1>2, <1>3, <1>4, <1>5 DEF CdIInv, CdTypeOK
<1>8. ReadersCounted'
  <2>1. \A x \in Downloads : dlEntry'[x].active = dlEntry[x].active
    BY <1>3, <1>4
  <2> QED  BY <1>2, <2>1, CountStays
<1>9. ~dlEntry[d].settled => dlEntry[d].active > 0
  BY DEF InUse
<1>10. FiredIsWaiting'
  BY <1>2, <1>3, <1>4, <1>5, <1>6, <1>9 DEF CdIInv, FiredIsWaiting
<1>11. SettledIsLeft'
  BY <1>2, <1>3, <1>4, <1>5, <1>6, <1>9 DEF CdIInv, SettledIsLeft
<1>12. NewIsNew'
  BY <1>2, <1>3, <1>4, <1>5, <1>6, <1>9 DEF CdIInv, NewIsNew
<1>13. SettlingFits'
  BY <1>2, <1>3, <1>4, <1>5, <1>6, <1>9 DEF CdIInv, SettlingFits
<1>14. RowHasOwner'
  BY <1>2, <1>3, <1>4, <1>5, <1>6, <1>9 DEF CdIInv, RowHasOwner
<1>15. HistoryFits'
  BY <1>2, <1>3, <1>4, <1>5, <1>6, <1>9 DEF CdIInv, HistoryFits
<1> QED  BY <1>7, <1>8, <1>10, <1>11, <1>12, <1>13, <1>14, <1>15 DEF CdIInv

\* It settles the entry: nobody reads it and it leaves the maps.
LEMMA SettleLast ==
  ASSUME CdIInv, NEW d \in Downloads, SettleDownload(d), ~InUse(dlEntry[d])
  PROVE  CdIInv'
<1> DEFINE status == FinalStatus(dlEntry[d])
<1>1. /\ dlEntry[d] \in DlEntries /\ fired[d] \in Nat /\ fired[d] > 0
      /\ ~dlEntry[d].settled /\ dlEntry[d].active = 0
  BY DEF SettleDownload, InUse, CdIInv, CdTypeOK, DlEntries
<1>2. dlRow[d] # "none" /\ dlRow[d] # "complete"
  BY <1>1 DEF CdIInv, NewIsNew, HistoryFits, NoDownload
<1>3. /\ status \in {"cancelled", "complete"}
      /\ status = "complete" => ~dlEntry[d].cancelled /\ dlEntry[d].received >= Size
  BY <1>1, RangesAssumption DEF FinalStatus, DlEntries
<1>4. /\ dlEntry' = [dlEntry EXCEPT ![d].idle = "none", ![d].settled = TRUE]
      /\ fired' = [fired EXCEPT ![d] = fired[d] - 1]
      /\ dlCurrent' = IF dlCurrent = d THEN 0 ELSE dlCurrent
      /\ jobsMap' = jobsMap \ {d}
      /\ settling' = [settling EXCEPT ![d] = status]
      /\ UNCHANGED <<dlRow, downloaded, readHandle, panelCall, astray>>
  BY DEF SettleDownload
<1> HIDE DEF status
<1>5. /\ \A x \in Downloads : x # d => dlEntry'[x] = dlEntry[x]
      /\ dlEntry'[d] = [dlEntry[d] EXCEPT !.idle = "none", !.settled = TRUE]
      /\ dlEntry' = [dlEntry EXCEPT ![d] = dlEntry'[d]]
  BY <1>4 DEF CdIInv, CdTypeOK
<1>6. /\ dlEntry'[d] \in DlEntries /\ dlEntry'[d].idle = "none"
      /\ dlEntry'[d].active = dlEntry[d].active /\ dlEntry'[d].settled
      /\ dlEntry'[d].cancelled = dlEntry[d].cancelled /\ dlEntry'[d].received = dlEntry[d].received
  BY <1>1, <1>5 DEF DlEntries
<1>7. /\ fired' \in [Downloads -> Nat]
      /\ \A x \in Downloads : x # d => fired'[x] = fired[x]
      /\ settling' \in [Downloads -> {"none", "cancelled", "complete"}]
      /\ settling'[d] = status
      /\ \A x \in Downloads : x # d => settling'[x] = settling[x]
  BY <1>1, <1>3, <1>4 DEF CdIInv, CdTypeOK
<1>8. CdTypeOK'
  BY <1>4, <1>5, <1>6, <1>7 DEF CdIInv, CdTypeOK
<1>9. ReadersCounted'
  <2>1. \A x \in Downloads : dlEntry'[x].active = dlEntry[x].active
    BY <1>5, <1>6
  <2> QED  BY <1>4, <2>1, CountStays
<1>10. FiredIsWaiting'
  BY <1>1, <1>2, <1>3, <1>4, <1>5, <1>6, <1>7 DEF CdIInv, FiredIsWaiting
<1>11. SettledIsLeft'
  BY <1>1, <1>2, <1>3, <1>4, <1>5, <1>6, <1>7, ZenonT(60) DEF CdIInv, SettledIsLeft
<1>12. dlRow' = dlRow /\ downloaded' = downloaded /\ astray' = astray
  BY <1>4
<1>13. /\ \A x \in Downloads : x # d /\ dlCurrent = x => dlCurrent' = x
       /\ \A x \in Downloads : x # d /\ x \in jobsMap => x \in jobsMap'
  BY <1>4
<1>14. NewIsNew'
  BY <1>2, <1>5, <1>7, <1>12 DEF CdIInv, NewIsNew
<1>15. SettlingFits'
  BY <1>1, <1>2, <1>3, <1>4, <1>5, <1>6, <1>7 DEF CdIInv, SettlingFits
<1>16. RowHasOwner'
  <2> SUFFICES ASSUME NEW x \in Downloads, x # d, dlRow[x] = "running", x \notin astray, settling[x] = "none"
               PROVE  /\ ~dlEntry'[x].settled /\ dlCurrent' = x /\ x \in jobsMap'
                      /\ dlEntry'[x].active > 0 \/ dlEntry'[x].idle = "armed" \/ fired'[x] > 0
    BY <1>3, <1>7, <1>12 DEF RowHasOwner
  <2>1. /\ ~dlEntry[x].settled /\ dlCurrent = x /\ x \in jobsMap
        /\ dlEntry[x].active > 0 \/ dlEntry[x].idle = "armed" \/ fired[x] > 0
    BY DEF CdIInv, RowHasOwner
  <2>2. dlEntry'[x] = dlEntry[x] /\ fired'[x] = fired[x]
    BY <1>5, <1>7
  <2>3. dlCurrent' = x /\ x \in jobsMap'
    BY <1>13, <2>1
  <2> QED  BY <2>1, <2>2, <2>3
<1>17. HistoryFits'
  BY <1>2, <1>5, <1>12 DEF CdIInv, HistoryFits
<1> QED  BY <1>8, <1>9, <1>10, <1>11, <1>14, <1>15, <1>16, <1>17 DEF CdIInv

\* A row is written only while it is open.
LEMMA RowWritten ==
  ASSUME CdTypeOK, NEW d \in Downloads, NEW status \in {"cancelled", "complete"},
         dlRow' = SetDownloadStatusIf(d, status)
  PROVE  /\ dlRow' \in [Downloads -> RowStates]
         /\ \A x \in Downloads : dlRow[x] # "running" => dlRow'[x] = dlRow[x]
         /\ \A x \in Downloads : x # d => dlRow'[x] = dlRow[x]
         /\ dlRow[d] = "running" => dlRow'[d] = status
         /\ dlRow'[d] # "running"
<1>1. CASE dlRow[d] = "running"
  BY <1>1 DEF SetDownloadStatusIf, CdTypeOK, RowStates
<1>2. CASE dlRow[d] # "running"
  BY <1>2 DEF SetDownloadStatusIf, CdTypeOK, RowStates
<1> QED  BY <1>1, <1>2

\* The final count moves nothing but itself.
LEMMA SettleDownloadCountHolds ==
  ASSUME CdIInv, CountsFit, NEW d \in Downloads, SettleDownloadCount(d)
  PROVE  CdIInv' /\ CountsFit'
<1>1. /\ d \in uncounted /\ uncounted' = uncounted \ {d}
      /\ \/ downloaded' = [downloaded EXCEPT ![d] = dlEntry[d].received] /\ UNCHANGED unrecorded
         \/ unrecorded' = unrecorded \cup {d} /\ UNCHANGED downloaded
      /\ UNCHANGED <<dlEntry, dlCurrent, jobsMap, fired, settling, dlRow, readHandle, panelCall, astray>>
  BY DEF SettleDownloadCount
<1>2. dlEntry[d].received \in Nat
  BY DEF CdIInv, CdTypeOK, DlEntries
<1>3. /\ downloaded' \in [Downloads -> Int]
      /\ downloaded'[d] = dlEntry[d].received \/ d \in unrecorded'
      /\ \A x \in Downloads : x # d => downloaded'[x] = downloaded[x]
      /\ \A x : x # d => (x \in unrecorded' <=> x \in unrecorded)
  BY <1>1, <1>2 DEF CdIInv, CdTypeOK
<1>4. ReadersCounted'
  BY <1>1, CountStays
<1>5. CdTypeOK'
  BY <1>1, <1>3 DEF CdIInv, CdTypeOK
<1>6. FiredIsWaiting' /\ SettledIsLeft' /\ NewIsNew' /\ SettlingFits' /\ RowHasOwner' /\ HistoryFits'
  BY <1>1 DEF CdIInv, FiredIsWaiting, SettledIsLeft, NewIsNew, SettlingFits, RowHasOwner, HistoryFits
<1>7. CountsFit'
  BY <1>1, <1>3 DEF CountsFit
<1> QED  BY <1>4, <1>5, <1>6, <1>7 DEF CdIInv

\* The last write of a settled download.
LEMMA SettleDownloadRowHolds ==
  ASSUME CdIInv, NEW d \in Downloads, SettleDownloadRow(d)
  PROVE  CdIInv'
<1>1. /\ settling[d] \in {"cancelled", "complete"} /\ dlEntry[d].settled
      /\ dlRow[d] # "none" /\ dlEntry[d].received \in Nat
      /\ settling[d] = "complete" => ~dlEntry[d].cancelled /\ dlEntry[d].received >= Size
  BY DEF SettleDownloadRow, CdIInv, CdTypeOK, SettlingFits, NewIsNew, DlEntries
<1>2. /\ \/ dlRow' = SetDownloadStatusIf(d, settling[d]) /\ UNCHANGED astray
         \/ dlRow' = dlRow /\ astray' = astray \cup {d}
      /\ settling' = [settling EXCEPT ![d] = "none"]
      /\ UNCHANGED <<dlEntry, dlCurrent, jobsMap, fired, downloaded, readHandle, panelCall>>
  BY DEF SettleDownloadRow
<1>3. /\ dlRow' \in [Downloads -> RowStates]
      /\ \A x \in Downloads : dlRow[x] # "running" => dlRow'[x] = dlRow[x]
      /\ \A x \in Downloads : x # d => dlRow'[x] = dlRow[x]
      /\ dlRow'[d] \in {dlRow[d], settling[d]}
      /\ dlRow'[d] = "running" => d \in astray'
      /\ \A x \in Downloads : x \in astray => x \in astray'
  <2>1. CASE dlRow' = SetDownloadStatusIf(d, settling[d]) /\ UNCHANGED astray
    <3>1. CdTypeOK
      BY DEF CdIInv
    <3> QED  BY <1>1, <2>1, <3>1, RowWritten
  <2>2. CASE dlRow' = dlRow /\ astray' = astray \cup {d}
    BY <2>2 DEF CdIInv, CdTypeOK
  <2> QED  BY <1>2, <2>1, <2>2
<1>4. /\ settling' \in [Downloads -> {"none", "cancelled", "complete"}]
      /\ settling'[d] = "none"
      /\ \A x \in Downloads : x # d => settling'[x] = settling[x]
  BY <1>1, <1>2 DEF CdIInv, CdTypeOK
<1>5. CdTypeOK'
  BY <1>2, <1>3, <1>4 DEF CdIInv, CdTypeOK
<1>6. ReadersCounted'
  BY <1>2, CountStays
<1>7. FiredIsWaiting'
  BY <1>1, <1>2, <1>3, <1>4 DEF CdIInv, FiredIsWaiting
<1>8. SettledIsLeft'
  BY <1>1, <1>2, <1>3, <1>4 DEF CdIInv, SettledIsLeft
<1>9. NewIsNew'
  BY <1>1, <1>2, <1>3, <1>4 DEF CdIInv, NewIsNew
<1>10. SettlingFits'
  BY <1>1, <1>2, <1>3, <1>4 DEF CdIInv, SettlingFits
<1>11. RowHasOwner'
  BY <1>1, <1>2, <1>3, <1>4 DEF CdIInv, RowHasOwner
<1>12. HistoryFits'
  BY <1>1, <1>2, <1>3, <1>4 DEF CdIInv, HistoryFits
<1> QED  BY <1>5, <1>6, <1>7, <1>8, <1>9, <1>10, <1>11, <1>12 DEF CdIInv

\* The transfer panel cancels the entry.
LEMMA CancelDownloadHolds ==
  ASSUME CdIInv, NEW p \in Panels, NEW d \in Downloads, CancelDownload(p, d)
  PROVE  CdIInv'
<1>1. /\ dlEntry[d] \in DlEntries /\ dlRow[d] # "none"
      /\ UNCHANGED <<dlCurrent, jobsMap, fired, settling, dlRow, downloaded, readHandle, astray>>
  BY DEF CancelDownload, CdIInv, CdTypeOK
<1>2. /\ \A x \in Downloads : x # d => dlEntry'[x] = dlEntry[x]
      /\ dlEntry' = [dlEntry EXCEPT ![d] = dlEntry'[d]]
      /\ dlEntry'[d] = dlEntry[d] \/ (d \in jobsMap /\ dlEntry'[d] = [dlEntry[d] EXCEPT !.cancelled = TRUE])
  BY DEF CancelDownload, CdIInv, CdTypeOK
<1>3. /\ dlEntry'[d] \in DlEntries /\ dlEntry'[d].idle = dlEntry[d].idle
      /\ dlEntry'[d].active = dlEntry[d].active /\ dlEntry'[d].settled = dlEntry[d].settled
      /\ dlEntry'[d].received = dlEntry[d].received
      /\ dlEntry[d].settled => dlEntry'[d] = dlEntry[d]
  BY <1>1, <1>2 DEF DlEntries, CdIInv, SettledIsLeft
<1>4. CdTypeOK'
  BY <1>1, <1>2, <1>3 DEF CdIInv, CdTypeOK
<1>5. ReadersCounted'
  <2>1. \A x \in Downloads : dlEntry'[x].active = dlEntry[x].active
    BY <1>2, <1>3
  <2> QED  BY <1>1, <2>1, CountStays
<1>6. FiredIsWaiting'
  BY <1>1, <1>2, <1>3 DEF CdIInv, FiredIsWaiting
<1>7. SettledIsLeft'
  BY <1>1, <1>2, <1>3 DEF CdIInv, SettledIsLeft
<1>8. NewIsNew'
  BY <1>1, <1>2, <1>3 DEF CdIInv, NewIsNew
<1>9. SettlingFits'
  BY <1>1, <1>2, <1>3 DEF CdIInv, SettlingFits
<1>10. RowHasOwner'
  BY <1>1, <1>2, <1>3 DEF CdIInv, RowHasOwner
<1>11. HistoryFits'
  BY <1>1, <1>2, <1>3 DEF CdIInv, HistoryFits
<1> QED  BY <1>4, <1>5, <1>6, <1>7, <1>8, <1>9, <1>10, <1>11 DEF CdIInv

\* And then the row, of whatever download it was.
LEMMA CancelDownloadRowHolds ==
  ASSUME CdIInv, NEW p \in Panels, CancelDownloadRow(p),
         dlRow' # dlRow => panelCall[p].of \in Downloads
  PROVE  CdIInv'
<1>1. UNCHANGED <<dlEntry, dlCurrent, jobsMap, fired, settling, downloaded, readHandle, astray>>
  BY DEF CancelDownloadRow
<1>2. /\ dlRow' \in [Downloads -> RowStates]
      /\ \A x \in Downloads : dlRow'[x] # dlRow[x] => dlRow[x] = "running" /\ dlRow'[x] = "cancelled"
  <2>1. CASE dlRow' = dlRow
    BY <2>1 DEF CdIInv, CdTypeOK
  <2>2. CASE dlRow' # dlRow
    <3>1. dlRow' = SetDownloadStatusIf(panelCall[p].of, "cancelled") /\ panelCall[p].of \in Downloads
      BY <2>2 DEF CancelDownloadRow
    <3>2. CdTypeOK
      BY DEF CdIInv
    <3> QED  BY <3>1, <3>2, RowWritten
  <2> QED  BY <2>1, <2>2
<1>3. CdTypeOK'
  BY <1>1, <1>2 DEF CdIInv, CdTypeOK
<1>4. ReadersCounted'
  BY <1>1, CountStays
<1>5. FiredIsWaiting'
  BY <1>1, <1>2 DEF CdIInv, FiredIsWaiting
<1>6. SettledIsLeft'
  BY <1>1, <1>2 DEF CdIInv, SettledIsLeft
<1>7. NewIsNew'
  BY <1>1, <1>2 DEF CdIInv, NewIsNew
<1>8. SettlingFits'
  BY <1>1, <1>2 DEF CdIInv, SettlingFits
<1>9. RowHasOwner'
  BY <1>1, <1>2 DEF CdIInv, RowHasOwner
<1>10. HistoryFits'
  BY <1>1, <1>2 DEF CdIInv, HistoryFits
<1> QED  BY <1>3, <1>4, <1>5, <1>6, <1>7, <1>8, <1>9, <1>10 DEF CdIInv

\* The server restarts.
LEMMA ServerRestartHolds ==
  ASSUME CdIInv, ServerRestart
  PROVE  CdIInv'
<1>1. /\ \A d \in Downloads : dlEntry'[d] = NoDownload /\ fired'[d] = 0 /\ settling'[d] = "none"
      /\ \A d \in Downloads : dlRow[d] = "running" => d \in astray'
      /\ \A r \in Ranges : readHandle'[r] = NoHandle
      /\ jobsMap' = {} /\ UNCHANGED <<dlRow, downloaded>>
  BY DEF ServerRestart
<1>2. CdTypeOK'
  BY DEF ServerRestart, CdIInv, CdTypeOK, NoDownload, NoHandle, DlEntries, ReadHandles
<1>3. ReadersCounted'
  <2>1. ASSUME NEW d \in Downloads PROVE Cardinality(Readers(d)') = 0
    <3>1. Readers(d)' = {}
      BY <1>1, NumbersPositive DEF Readers, NoHandle
    <3> QED  BY <3>1, FS_EmptySet
  <2> QED  BY <1>1, <2>1 DEF ReadersCounted, NoDownload, NoHandle
<1>4. /\ NoDownload.active = 0 /\ NoDownload.idle = "none" /\ NoDownload.settled
  BY DEF NoDownload
<1>5. FiredIsWaiting'
  BY <1>1, <1>4 DEF CdIInv, FiredIsWaiting
<1>6. SettledIsLeft'
  BY <1>1, <1>4 DEF CdIInv, SettledIsLeft
<1>7. NewIsNew'
  BY <1>1, <1>4 DEF CdIInv, NewIsNew
<1>8. SettlingFits'
  BY <1>1, <1>4 DEF CdIInv, SettlingFits
<1>9. RowHasOwner'
  BY <1>1, <1>4 DEF CdIInv, RowHasOwner
<1>10. HistoryFits'
  BY <1>1, <1>4 DEF CdIInv, HistoryFits
<1> QED  BY <1>2, <1>3, <1>5, <1>6, <1>7, <1>8, <1>9, <1>10 DEF CdIInv

\* Every step keeps the inductive invariant, if the calls of the panel name
\* downloads.
LEMMA CdStepHolds == CdIInv /\ CountsFit /\ PanelsFit /\ [CdNext]_cdVars => CdIInv'
<1> SUFFICES ASSUME CdIInv, CountsFit, PanelsFit, [CdNext]_cdVars PROVE CdIInv'
  OBVIOUS
<1>1. CASE UNCHANGED cdVars
  <2>1. UNCHANGED <<dlEntry, dlCurrent, jobsMap, fired, settling, dlRow, downloaded, readHandle, panelCall, astray>>
    BY <1>1 DEF cdVars
  <2>2. ReadersCounted'
    BY <2>1, CountStays
  <2> QED
    BY <2>1, <2>2 DEF CdIInv, CdTypeOK, FiredIsWaiting, SettledIsLeft, NewIsNew, SettlingFits,
                      RowHasOwner, HistoryFits
<1>2. ASSUME NEW r \in Ranges,
             JoinRead(r) \/ OpenRead(r) \/ AddBytes(r) \/ RecordProgress(r) \/ CloseRead(r)
      PROVE  CdIInv'
  BY <1>2, JoinReadHolds, OpenReadHolds, AddBytesHolds, RecordProgressHolds, CloseReadHolds
<1>3. ASSUME NEW d \in Downloads,
             GraceExpires(d) \/ SettleDownload(d) \/ SettleDownloadCount(d) \/ SettleDownloadRow(d)
      PROVE  CdIInv'
  BY <1>3, GraceExpiresHolds, SettleInUse, SettleLast, SettleDownloadCountHolds, SettleDownloadRowHolds
<1>4. ASSUME NEW p \in Panels, CancelDownloadRow(p) PROVE CdIInv'
  <2>1. panelCall[p].of \in Downloads
    BY <1>4 DEF CancelDownloadRow, PanelsFit
  <2> QED  BY <1>4, <2>1, CancelDownloadRowHolds
<1>5. ASSUME NEW p \in Panels, NEW d \in Downloads, CancelDownload(p, d) PROVE CdIInv'
  BY <1>5, CancelDownloadHolds
<1>6. CASE ServerRestart
  BY <1>6, ServerRestartHolds
<1> QED  BY <1>1, <1>2, <1>3, <1>4, <1>5, <1>6 DEF CdNext

\* A step that leaves the settled entries, their counts and their settlements
\* alone, or adds a settlement that has yet to write its count.
LEMMA CountsKept ==
  ASSUME CountsFit, unrecorded' = unrecorded,
         \A d \in Downloads : d \in uncounted' => settling'[d] # "none",
         \A d \in Downloads :
           \/ d \in uncounted'
           \/ d \notin uncounted /\ dlEntry'[d] = dlEntry[d] /\ downloaded'[d] = downloaded[d]
           \/ ~dlEntry'[d].settled
  PROVE  CountsFit'
BY DEF CountsFit

LEMMA CountsFitHolds == CdIInv /\ CountsFit /\ [CdNext]_cdVars => CountsFit'
<1> SUFFICES ASSUME CdIInv, CountsFit, [CdNext]_cdVars PROVE CountsFit'
  OBVIOUS
<1>1. \A d \in Downloads : d \in uncounted => settling[d] # "none"
  BY DEF CountsFit
<1>2. ASSUME NEW d \in Downloads, UNCHANGED <<settling, downloaded, tallyVars>>, ~dlEntry'[d].settled,
             \A x \in Downloads : x # d => dlEntry'[x] = dlEntry[x]
      PROVE  CountsFit'
  BY <1>1, <1>2, CountsKept DEF tallyVars
<1>3. CASE UNCHANGED <<dlEntry, settling, downloaded, tallyVars>>
  BY <1>1, <1>3, CountsKept DEF tallyVars
<1>4. ASSUME NEW r \in Ranges, JoinRead(r) \/ AddBytes(r) \/ CloseRead(r) PROVE CountsFit'
  <2>1. CASE dlEntry' = dlEntry
    BY <1>3, <1>4, <2>1 DEF JoinRead, AddBytes, CloseRead
  <2>2. CASE JoinRead(r)
    <3>1. PICK d \in Downloads : d = dlCurrent /\ ~dlEntry[d].settled
      BY <2>2 DEF JoinRead, Joinable, CdIInv, CdTypeOK
    <3>2. dlEntry[d] \in DlEntries
      BY DEF CdIInv, CdTypeOK
    <3>3. /\ dlEntry'[d] = [dlEntry[d] EXCEPT !.idle = "none", !.active = @ + 1]
          /\ \A x \in Downloads : x # d => dlEntry'[x] = dlEntry[x]
      BY <2>2, <3>1 DEF JoinRead, CdIInv, CdTypeOK
    <3>4. ~dlEntry'[d].settled
      BY <3>1, <3>2, <3>3 DEF DlEntries
    <3> QED  BY <1>2, <2>2, <3>3, <3>4 DEF JoinRead
  <2>3. CASE readHandle[r].of # 0 /\ (AddBytes(r) \/ CloseRead(r))
    <3>1. PICK d \in Downloads : d = readHandle[r].of
      BY <2>3 DEF CdIInv, CdTypeOK, ReadHandles
    <3>2. dlEntry[d] \in DlEntries /\ ~dlEntry[d].settled
      BY <3>1, SettledUnread DEF CdIInv, CdTypeOK
    <3>3. /\ dlEntry'[d] = [dlEntry[d] EXCEPT !.received = @ + 1] \/ dlEntry'[d] = ReleaseClientRead(dlEntry[d])
          /\ \A x \in Downloads : x # d => dlEntry'[x] = dlEntry[x]
      BY <2>3, <3>1 DEF AddBytes, CloseRead, CdIInv, CdTypeOK
    <3>4. ~dlEntry'[d].settled
      BY <3>2, <3>3 DEF DlEntries, ReleaseClientRead
    <3> QED  BY <1>2, <2>3, <3>3, <3>4 DEF AddBytes, CloseRead
  <2> QED  BY <1>4, <2>1, <2>2, <2>3 DEF AddBytes, CloseRead
<1>5. ASSUME NEW r \in Ranges, OpenRead(r) PROVE CountsFit'
  <2>1. CASE dlEntry' = dlEntry
    BY <1>3, <1>5, <2>1 DEF OpenRead
  <2>2. CASE dlEntry' # dlEntry
    <3>1. PICK d \in Downloads : dlEntry' = [dlEntry EXCEPT ![d] = [NoDownload EXCEPT !.active = 1, !.settled = FALSE]]
      BY <1>5, <2>2 DEF OpenRead, NewDownloads
    <3>2. /\ ~dlEntry'[d].settled
          /\ \A x \in Downloads : x # d => dlEntry'[x] = dlEntry[x]
      BY <3>1 DEF NoDownload, CdIInv, CdTypeOK
    <3> QED  BY <1>2, <1>5, <3>2 DEF OpenRead
  <2> QED  BY <2>1, <2>2
<1>6. ASSUME NEW r \in Ranges, RecordProgress(r) PROVE CountsFit'
  <2>1. \A x \in Downloads : dlEntry[x].settled => x # readHandle[r].of
    BY SettledUnread DEF CdIInv
  <2>2. \A x \in Downloads : dlEntry[x].settled => downloaded'[x] = downloaded[x]
    BY <1>6, <2>1 DEF RecordProgress, CdIInv, CdTypeOK
  <2> QED  BY <1>1, <1>6, <2>2, CountsKept DEF RecordProgress, tallyVars
<1>7. ASSUME NEW d \in Downloads, GraceExpires(d) PROVE CountsFit'
  <2>1. dlEntry[d] \in DlEntries
    BY DEF CdIInv, CdTypeOK
  <2>2. /\ dlEntry'[d] = [dlEntry[d] EXCEPT !.idle = "fired"]
        /\ \A x \in Downloads : x # d => dlEntry'[x] = dlEntry[x]
    BY <1>7 DEF GraceExpires, CdIInv, CdTypeOK
  <2>3. /\ dlEntry'[d].settled = dlEntry[d].settled /\ dlEntry'[d].received = dlEntry[d].received
        /\ dlEntry[d] # NoDownload
    BY <1>7, <2>1, <2>2 DEF DlEntries, GraceExpires, NoDownload
  <2> QED  BY <1>7, <2>2, <2>3 DEF GraceExpires, tallyVars, CountsFit
<1>8. ASSUME NEW d \in Downloads, SettleDownload(d) PROVE CountsFit'
  <2>1. dlEntry[d] \in DlEntries
    BY DEF CdIInv, CdTypeOK
  <2>2. CASE InUse(dlEntry[d])
    <3>1. /\ dlEntry'[d] = [dlEntry[d] EXCEPT !.idle = "none"]
          /\ \A x \in Downloads : x # d => dlEntry'[x] = dlEntry[x]
          /\ UNCHANGED <<settling, downloaded, uncounted, unrecorded>>
      BY <1>8, <2>2 DEF SettleDownload, CdIInv, CdTypeOK
    <3>2. CASE dlEntry[d].settled /\ dlEntry'[d] # dlEntry[d]
      <4>1. dlEntry[d].idle # "none" /\ dlEntry'[d].received = dlEntry[d].received
        BY <2>1, <3>1, <3>2 DEF DlEntries
      <4>2. dlEntry[d] # NoDownload
        BY <4>1 DEF NoDownload
      <4>3. dlEntry'[d].settled
        BY <2>1, <3>1, <3>2 DEF DlEntries
      <4> QED  BY <3>1, <3>2, <4>1, <4>2, <4>3 DEF CountsFit
    <3>3. CASE dlEntry'[d] = dlEntry[d]
      BY <1>1, <3>1, <3>3, CountsKept
    <3>4. CASE ~dlEntry[d].settled
      <4>1. ~dlEntry'[d].settled
        BY <2>1, <3>1, <3>4 DEF DlEntries
      <4> QED  BY <1>1, <3>1, <4>1, CountsKept
    <3> QED  BY <3>2, <3>3, <3>4
  <2>3. CASE ~InUse(dlEntry[d])
    <3>1. /\ \A x \in Downloads : x # d => dlEntry'[x] = dlEntry[x]
          /\ settling' = [settling EXCEPT ![d] = FinalStatus(dlEntry[d])]
          /\ uncounted' = uncounted \cup {d} /\ unrecorded' = unrecorded /\ downloaded' = downloaded
      BY <1>8, <2>3 DEF SettleDownload, CdIInv, CdTypeOK
    <3>2. FinalStatus(dlEntry[d]) # "none"
      BY DEF FinalStatus
    <3>3. \A x \in Downloads : x \in uncounted' => settling'[x] # "none"
      BY <1>1, <3>1, <3>2 DEF CdIInv, CdTypeOK
    <3> QED  BY <3>1, <3>3, CountsKept
  <2> QED  BY <2>2, <2>3
<1>9. ASSUME NEW d \in Downloads, SettleDownloadCount(d) PROVE CountsFit'
  BY <1>9, SettleDownloadCountHolds
<1>10. ASSUME NEW d \in Downloads, SettleDownloadRow(d) PROVE CountsFit'
  <2>1. \A x \in Downloads : x \in uncounted => settling'[x] # "none"
    BY <1>1, <1>10 DEF SettleDownloadRow, CdIInv, CdTypeOK
  <2> QED  BY <1>10, <2>1, CountsKept DEF SettleDownloadRow, tallyVars
<1>11. ASSUME NEW p \in Panels, NEW d \in Downloads, CancelDownload(p, d) PROVE CountsFit'
  <2>1. dlEntry[d] \in DlEntries /\ (d \in jobsMap => ~dlEntry[d].settled)
    BY DEF CdIInv, CdTypeOK, SettledIsLeft
  <2>2. CASE d \in jobsMap
    <3>1. /\ dlEntry'[d] = [dlEntry[d] EXCEPT !.cancelled = TRUE]
          /\ \A x \in Downloads : x # d => dlEntry'[x] = dlEntry[x]
      BY <1>11, <2>2 DEF CancelDownload, CdIInv, CdTypeOK
    <3>2. ~dlEntry'[d].settled
      BY <2>1, <2>2, <3>1 DEF DlEntries
    <3> QED  BY <1>2, <1>11, <3>1, <3>2 DEF CancelDownload
  <2>3. CASE d \notin jobsMap
    BY <1>3, <1>11, <2>3 DEF CancelDownload
  <2> QED  BY <2>2, <2>3
<1>12. ASSUME NEW p \in Panels, CancelDownloadRow(p) PROVE CountsFit'
  BY <1>3, <1>12 DEF CancelDownloadRow
<1>13. CASE ServerRestart
  BY <1>13 DEF ServerRestart, CountsFit
<1>14. CASE UNCHANGED cdVars
  BY <1>3, <1>14 DEF cdVars
<1> QED
  BY <1>4, <1>5, <1>6, <1>7, <1>8, <1>9, <1>10, <1>11, <1>12, <1>13, <1>14 DEF CdNext

LEMMA PanelsFitHolds == PanelsFit /\ [CdNext]_cdVars => PanelsFit'
<1> SUFFICES ASSUME PanelsFit, [CdNext]_cdVars PROVE PanelsFit'
  OBVIOUS
<1>1. CASE UNCHANGED panelCall
  BY <1>1 DEF PanelsFit
<1>2. ASSUME NEW p \in Panels, NEW c, c.pc = "row" => c.of \in Downloads,
             panelCall' = [panelCall EXCEPT ![p] = c]
      PROVE  PanelsFit'
  BY <1>2 DEF PanelsFit
<1>3. ASSUME NEW p \in Panels, CancelDownloadRow(p) PROVE PanelsFit'
  BY <1>2, <1>3 DEF CancelDownloadRow
<1>4. ASSUME NEW p \in Panels, NEW d \in Downloads, CancelDownload(p, d) PROVE PanelsFit'
  BY <1>2, <1>4 DEF CancelDownload
<1>5. CASE ServerRestart
  BY <1>5 DEF ServerRestart, PanelsFit
<1> QED
  BY <1>1, <1>3, <1>4, <1>5
     DEF CdNext, cdVars, JoinRead, OpenRead, AddBytes, RecordProgress, CloseRead, GraceExpires,
         SettleDownload, SettleDownloadCount, SettleDownloadRow

\* Whatever requests, timers, the panel and a restart do in whatever order, an
\* entry counts its readers, a settled one is out of reach, and what is about to
\* be written of it is what happened.
THEOREM CdInvariantHolds == CdSpec => [](CdIInv /\ CountsFit /\ PanelsFit)
<1>1. CdInit => CdIInv /\ CountsFit /\ PanelsFit
  BY CdInitHolds DEF CdInit, PanelsFit, CountsFit
<1>2. CdIInv /\ CountsFit /\ PanelsFit /\ [CdNext]_cdVars => (CdIInv /\ CountsFit /\ PanelsFit)'
  BY CdStepHolds, CountsFitHolds, PanelsFitHolds
<1> QED  BY <1>1, <1>2, PTL DEF CdSpec

\* A running row has somebody to end it, and the history of a download is what
\* happened to it, for any number of requests, timers and cancellations
\* (settleClientDownload, releaseClientRead, TrackClientDownload).  A row whose
\* statement failed or that a restart left behind is exempt from the first, the
\* count of a download whose last SetDownloadProgress failed from the second.
THEOREM DownloadsAreSound == CdSpec => []DownloadSound
<1>1. CdIInv /\ CountsFit => DownloadSound
  <2> SUFFICES ASSUME CdIInv, CountsFit PROVE HistoryExact
    BY DEF CdIInv, DownloadSound
  <2>1. \A d \in Downloads : dlEntry[d].settled => \A r \in Ranges : readHandle[r].of # d
    BY SettledUnread DEF CdIInv
  <2>2. \A d \in Downloads : settling[d] = "none" => d \notin uncounted
    BY DEF CountsFit
  <2> QED  BY <2>1, <2>2 DEF CdIInv, HistoryFits, HistoryExact, CountsFit
<1> QED  BY <1>1, CdInvariantHolds, PTL

\* No step changes a row that ended.
LEMMA EndedRowStays == CdIInv /\ PanelsFit /\ [CdNext]_cdVars => [EndedStays]_cdVars
<1> SUFFICES ASSUME CdIInv, PanelsFit, CdNext PROVE EndedStays
  OBVIOUS
<1>1. CdTypeOK
  BY DEF CdIInv
<1>2. CASE dlRow' = dlRow
  BY <1>2 DEF EndedStays
<1>3. ASSUME NEW r \in Ranges, OpenRead(r) PROVE EndedStays
  <2>1. PICK d \in Downloads : dlRow[d] = "none" /\ dlRow' = [dlRow EXCEPT ![d] = "running"]
    BY <1>3 DEF OpenRead, NewDownloads
  <2> QED  BY <1>1, <2>1 DEF EndedStays, CdTypeOK
<1>4. ASSUME NEW d \in Downloads, NEW status \in {"cancelled", "complete"},
             dlRow' = SetDownloadStatusIf(d, status)
      PROVE  EndedStays
  BY <1>1, <1>4, RowWritten DEF EndedStays
<1>5. ASSUME NEW d \in Downloads, SettleDownloadRow(d) PROVE EndedStays
  BY <1>1, <1>2, <1>4, <1>5 DEF SettleDownloadRow, CdTypeOK
<1>6. ASSUME NEW p \in Panels, CancelDownloadRow(p) PROVE EndedStays
  BY <1>2, <1>4, <1>6 DEF CancelDownloadRow, PanelsFit
<1> QED
  BY <1>2, <1>3, <1>5, <1>6
     DEF CdNext, JoinRead, AddBytes, RecordProgress, CloseRead, GraceExpires, SettleDownload,
         SettleDownloadCount, CancelDownload, ServerRestart

\* A cancellation that the panel wrote is not overwritten by a late completion,
\* nor a completion by a late cancellation (SetDownloadStatusIf).
THEOREM EndedRowsStay == CdSpec => CancellationStays
<1> QED  BY CdInvariantHolds, EndedRowStays, PTL DEF CdSpec, CancellationStays

-----------------------------------------------------------------------------
(***************************************************************************)
(* Accounts and sessions.                                                  *)
(***************************************************************************)

UserRows == [there : BOOLEAN, enabled : BOOLEAN, admin : BOOLEAN, narrowed : BOOLEAN, secret : Nat]
TokenRows == [user : Accounts, secret : Nat, marked : BOOLEAN]
Remembered == [user : Accounts, secret : Nat, row : UserRows, marked : BOOLEAN, older : BOOLEAN]
Verifying == [pc : {"login", "basic"}, user : Accounts, secret : Nat, marked : BOOLEAN, row : UserRows]
Refreshing == [pc : {"whose", "rotate", "issue"}, user : Accounts, token : Tokens, secret : Nat,
               marked : BOOLEAN]
Creating == [pc : {"profile"}, user : Accounts]
Changing == [pc : {"write", "forget", "revoke", "drop"}, user : Accounts, change : Changes \cup {"delete"}]

AccessTypeOK ==
  /\ account \in [Accounts -> UserRows]
  /\ token \in [Tokens -> TokenRows \cup {NoToken}]
  /\ verified \subseteq Remembered
  /\ client \in [Clients -> Verifying \cup Refreshing \cup {AtRest}]
  /\ admin \in [Admins -> Creating \cup Changing \cup {AtRest}]

\* A change of account u that is written and not through.
Pending(u, change) ==
  \E a \in Admins : /\ admin[a].pc \in {"forget", "revoke"}
                    /\ admin[a].user = u /\ admin[a].change \in change

\* A session of account u under a password: it belongs to the row as it is, or
\* the change that will end it is under way.
Fits(u, secret) ==
  /\ account[u].there
  /\ account[u].secret = secret \/ Pending(u, {"password"})
  /\ account[u].enabled \/ Pending(u, Profile \cup {"password"})

TokensFit == \A t \in Tokens : Live(t) /\ ~token[t].marked => Fits(token[t].user, token[t].secret)

ClientsFit ==
  \A c \in Clients :
    client[c].pc \in {"login", "whose", "rotate", "issue"} /\ ~client[c].marked =>
      Fits(client[c].user, client[c].secret)

\* A check of a password that no change has overtaken saw the row as it is.
ChecksFit ==
  \A c \in Clients : client[c].pc = "basic" =>
    /\ client[c].row.there
    /\ ~client[c].marked => client[c].row = account[client[c].user]

Forgetting(u) == \E a \in Admins : admin[a].pc = "forget" /\ admin[a].user = u

\* What is remembered tells the row as it is, or is about to be forgotten.
RememberedFits ==
  \A v \in verified :
    /\ v.row.there
    /\ ~v.marked => Tells(v, account[v.user]) \/ Forgetting(v.user)

\* A request that is about to write has a change to write.
WritesFit == \A a \in Admins : admin[a].pc = "write" => admin[a].change \in Changes

AccessIInv == AccessTypeOK /\ TokensFit /\ ClientsFit /\ ChecksFit /\ RememberedFits

LEMMA AccessInitHolds == AccessInit => AccessIInv
<1> SUFFICES ASSUME AccessInit PROVE AccessIInv
  OBVIOUS
<1>1. [Absent EXCEPT !.there = TRUE, !.enabled = TRUE, !.admin = TRUE, !.secret = 1] \in UserRows
  BY DEF Absent, UserRows
<1>2. Absent \in UserRows
  BY DEF Absent, UserRows
<1>3. AccessTypeOK
  BY <1>1, <1>2 DEF AccessInit, AccessTypeOK
<1>4. TokensFit /\ ClientsFit /\ ChecksFit /\ RememberedFits
  BY DEF AccessInit, TokensFit, ClientsFit, ChecksFit, RememberedFits, AtRest, Live
<1> QED  BY <1>3, <1>4 DEF AccessIInv

\* What a client is in the middle of has the fields of its kind.
LEMMA ClientTyped ==
  ASSUME AccessIInv, NEW c \in Clients
  PROVE  /\ client[c].pc \in {"login", "basic"} => client[c] \in Verifying
         /\ client[c].pc \in {"whose", "rotate", "issue"} => client[c] \in Refreshing
         /\ client[c].pc \in {"login", "basic", "whose", "rotate", "issue"} <=> client[c] # AtRest
<1>1. client[c] \in Verifying \cup Refreshing \cup {AtRest}
  BY DEF AccessIInv, AccessTypeOK
<1>2. CASE client[c] \in Verifying
  BY <1>2 DEF Verifying, AtRest
<1>3. CASE client[c] \in Refreshing
  BY <1>3 DEF Refreshing, AtRest
<1>4. CASE client[c] = AtRest
  BY <1>4 DEF AtRest
<1> QED  BY <1>1, <1>2, <1>3, <1>4

LEMMA AdminTyped ==
  ASSUME AccessIInv, NEW a \in Admins
  PROVE  /\ admin[a].pc \in {"write", "forget", "revoke", "drop"} => admin[a] \in Changing
         /\ admin[a].pc = "profile" => admin[a] \in Creating
         /\ admin[a].pc \in {"write", "forget", "revoke", "drop", "profile"} <=> admin[a] # AtRest
         /\ admin[a] # AtRest => admin[a].user \in Accounts
<1>1. admin[a] \in Creating \cup Changing \cup {AtRest}
  BY DEF AccessIInv, AccessTypeOK
<1>2. CASE admin[a] \in Creating
  BY <1>2 DEF Creating, AtRest
<1>3. CASE admin[a] \in Changing
  BY <1>3 DEF Changing, AtRest
<1>4. CASE admin[a] = AtRest
  BY <1>4 DEF AtRest
<1> QED  BY <1>1, <1>2, <1>3, <1>4

\* One client moves and no row, session or request does.
LEMMA ClientMoves ==
  ASSUME AccessIInv, NEW c \in Clients, NEW next \in Verifying \cup Refreshing \cup {AtRest},
         client' = [client EXCEPT ![c] = next],
         UNCHANGED <<account, admin>>,
         next.pc \in {"login", "whose", "rotate", "issue"} /\ ~next.marked => Fits(next.user, next.secret),
         next.pc = "basic" => next.row.there /\ (~next.marked => next.row = account[next.user])
  PROVE  /\ client' \in [Clients -> Verifying \cup Refreshing \cup {AtRest}]
         /\ ClientsFit' /\ ChecksFit'
<1>1. /\ client'[c] = next
      /\ \A d \in Clients : d # c => client'[d] = client[d]
      /\ client' \in [Clients -> Verifying \cup Refreshing \cup {AtRest}]
  BY DEF AccessIInv, AccessTypeOK
<1>2. ClientsFit'
  BY <1>1 DEF AccessIInv, ClientsFit, Fits, Pending
<1>3. ChecksFit'
  BY <1>1 DEF AccessIInv, ChecksFit
<1> QED  BY <1>1, <1>2, <1>3

\* No row and no request moves, sessions are revoked or issued as they fit.
LEMMA TokensMove ==
  ASSUME AccessIInv, UNCHANGED <<account, admin>>,
         token' \in [Tokens -> TokenRows \cup {NoToken}],
         \A t \in Tokens : \/ token'[t] = token[t] \/ token'[t] = NoToken
                           \/ ~token'[t].marked => Fits(token'[t].user, token'[t].secret)
  PROVE  TokensFit'
<1> SUFFICES ASSUME NEW t \in Tokens, token'[t] # NoToken, ~token'[t].marked
             PROVE  Fits(token'[t].user, token'[t].secret)
  BY DEF TokensFit, Live, Fits, Pending
<1> QED  BY DEF AccessIInv, TokensFit, Live

\* What is remembered stays right while no row and no request moves.
LEMMA RememberedStays ==
  ASSUME AccessIInv, UNCHANGED <<account, admin>>,
         \A v \in verified' : \/ v \in verified
                              \/ v.row.there /\ (~v.marked => v.row = account[v.user])
  PROVE  RememberedFits'
BY DEF AccessIInv, RememberedFits, Forgetting, Tells

\* Login and VerifyBasic.
LEMMA VerifyHolds ==
  ASSUME AccessIInv, NEW c \in Clients, NEW u \in Accounts, NEW s \in 1..MaxSecret,
         NEW k \in {"login", "basic"}, Verify(c, u, s, k)
  PROVE  AccessIInv'
<1> DEFINE next == [pc |-> k, user |-> u, secret |-> s, marked |-> FALSE,
                    row |-> IF k = "basic" THEN account[u] ELSE Absent]
<1>1. account[u] \in UserRows /\ Absent \in UserRows
  BY DEF AccessIInv, AccessTypeOK, Absent, UserRows
<1>2. next \in Verifying
  <2>1. (IF k = "basic" THEN account[u] ELSE Absent) \in UserRows
    BY <1>1
  <2> QED  BY <2>1 DEF Verifying
<1>3. /\ next.pc = k /\ next.user = u /\ next.secret = s
      /\ k = "basic" => next.row = account[u]
  OBVIOUS
<1>4. /\ account[u].there /\ account[u].secret = s /\ account[u].enabled
      /\ client' = [client EXCEPT ![c] = next]
      /\ UNCHANGED <<account, token, verified, admin>>
  BY DEF Verify, Go
<1> HIDE DEF next
<1>5. /\ client' \in [Clients -> Verifying \cup Refreshing \cup {AtRest}]
      /\ ClientsFit' /\ ChecksFit'
  <2>1. Fits(u, s)
    BY <1>4 DEF Fits
  <2> QED  BY <1>2, <1>3, <1>4, <2>1, ClientMoves
<1>6. TokensFit' /\ RememberedFits'
  BY <1>4 DEF AccessIInv, TokensFit, Live, Fits, Pending, RememberedFits, Forgetting
<1> QED  BY <1>4, <1>5, <1>6 DEF AccessIInv, AccessTypeOK

\* verifyCache.put.
LEMMA CachePutHolds ==
  ASSUME AccessIInv, NEW c \in Clients, CachePut(c)
  PROVE  AccessIInv'
<1> DEFINE o == client[c]
           e == [user |-> o.user, secret |-> o.secret, row |-> o.row, marked |-> o.marked,
                 older |-> FALSE]
<1>1. o \in Verifying /\ o.pc = "basic"
  BY ClientTyped DEF CachePut
<1>2. /\ e \in Remembered
      /\ e.row.there /\ (~e.marked => e.row = account[e.user])
  BY <1>1 DEF Verifying, Remembered, AccessIInv, ChecksFit
<1>3. /\ client' = [client EXCEPT ![c] = AtRest]
      /\ UNCHANGED <<account, token, admin>>
      /\ \A v \in verified' : v \in verified \/ v = e
  BY DEF CachePut, Go
<1> HIDE DEF o, e
<1>4. verified' \subseteq Remembered
  BY <1>2, <1>3 DEF AccessIInv, AccessTypeOK
<1>5. RememberedFits'
  BY <1>2, <1>3, RememberedStays
<1>6. /\ client' \in [Clients -> Verifying \cup Refreshing \cup {AtRest}]
      /\ ClientsFit' /\ ChecksFit'
  <2>1. AtRest.pc = "idle"
    BY DEF AtRest
  <2> QED  BY <1>3, <2>1, ClientMoves
<1>7. TokensFit'
  BY <1>3 DEF AccessIInv, TokensFit, Live, Fits, Pending
<1> QED  BY <1>3, <1>4, <1>5, <1>6, <1>7 DEF AccessIInv, AccessTypeOK

\* A credential expires, a session ends.
LEMMA EndsHold ==
  ASSUME AccessIInv, (\E v \in verified : CacheExpires(v)) \/ (\E t \in Tokens : Logout(t))
  PROVE  AccessIInv'
<1>1. /\ UNCHANGED <<account, admin, client>>
      /\ verified' \subseteq verified
      /\ \A t \in Tokens : token'[t] = token[t] \/ token'[t] = NoToken
      /\ token' \in [Tokens -> TokenRows \cup {NoToken}]
  BY DEF CacheExpires, Logout, Revoked, AccessIInv, AccessTypeOK
<1>2. TokensFit'
  BY <1>1, TokensMove
<1>3. RememberedFits'
  BY <1>1, RememberedStays
<1>4. ClientsFit' /\ ChecksFit'
  BY <1>1 DEF AccessIInv, ClientsFit, ChecksFit, Fits, Pending
<1> QED  BY <1>1, <1>2, <1>3, <1>4 DEF AccessIInv, AccessTypeOK

\* issue.
LEMMA IssueHolds ==
  ASSUME AccessIInv, NEW c \in Clients, Issue(c)
  PROVE  AccessIInv'
<1> DEFINE o == client[c]
           k == [user |-> o.user, secret |-> o.secret, marked |-> o.marked]
<1>1. o.pc \in {"login", "issue"} /\ o \in Verifying \cup Refreshing
  BY ClientTyped DEF Issue
<1>2. /\ k \in TokenRows
      /\ ~k.marked => Fits(k.user, k.secret)
  BY <1>1 DEF TokenRows, Verifying, Refreshing, AccessIInv, ClientsFit
<1>3. /\ client' = [client EXCEPT ![c] = AtRest]
      /\ UNCHANGED <<account, verified, admin>>
      /\ token' = token \/ \E t : token' = [token EXCEPT ![t] = k]
  BY DEF Issue, Go
<1> HIDE DEF o, k
<1>4. /\ token' \in [Tokens -> TokenRows \cup {NoToken}]
      /\ \A t \in Tokens : token'[t] = token[t] \/ token'[t] = k
  BY <1>2, <1>3 DEF AccessIInv, AccessTypeOK
<1>5. TokensFit'
  BY <1>2, <1>3, <1>4, TokensMove
<1>6. /\ client' \in [Clients -> Verifying \cup Refreshing \cup {AtRest}]
      /\ ClientsFit' /\ ChecksFit'
  <2>1. AtRest.pc = "idle"
    BY DEF AtRest
  <2> QED  BY <1>3, <2>1, ClientMoves
<1>7. RememberedFits'
  BY <1>3 DEF AccessIInv, RememberedFits, Forgetting
<1> QED  BY <1>3, <1>4, <1>5, <1>6, <1>7 DEF AccessIInv, AccessTypeOK

\* Refresh: the session is looked up.
LEMMA RefreshHolds ==
  ASSUME AccessIInv, NEW c \in Clients, NEW t \in Tokens, Refresh(c, t)
  PROVE  AccessIInv'
<1> DEFINE next == [pc |-> "whose", user |-> token[t].user, token |-> t, secret |-> token[t].secret,
                    marked |-> token[t].marked]
<1>1. token[t] \in TokenRows /\ Live(t)
  BY DEF Refresh, Live, AccessIInv, AccessTypeOK
<1>2. /\ next \in Refreshing /\ next.pc = "whose"
      /\ ~next.marked => Fits(next.user, next.secret)
  BY <1>1 DEF Refreshing, TokenRows, AccessIInv, TokensFit
<1>3. client' = [client EXCEPT ![c] = next] /\ UNCHANGED <<account, token, verified, admin>>
  BY DEF Refresh, Go
<1> HIDE DEF next
<1>4. /\ client' \in [Clients -> Verifying \cup Refreshing \cup {AtRest}]
      /\ ClientsFit' /\ ChecksFit'
  BY <1>2, <1>3, ClientMoves
<1>5. TokensFit' /\ RememberedFits'
  BY <1>3 DEF AccessIInv, TokensFit, Live, Fits, Pending, RememberedFits, Forgetting
<1> QED  BY <1>3, <1>4, <1>5 DEF AccessIInv, AccessTypeOK

\* Refresh: its account is read, the old session revoked.
LEMMA RefreshStepsHold ==
  ASSUME AccessIInv, NEW c \in Clients, RefreshUser(c) \/ RefreshRotate(c)
  PROVE  AccessIInv'
<1> DEFINE o == client[c]
<1>1. o \in Refreshing /\ o.pc \in {"whose", "rotate"}
  BY ClientTyped DEF RefreshUser, RefreshRotate
<1>2. /\ UNCHANGED <<account, verified, admin>>
      /\ \/ client' = [client EXCEPT ![c] = AtRest]
         \/ client' = [client EXCEPT ![c] = [o EXCEPT !.pc = "rotate"]]
         \/ client' = [client EXCEPT ![c] = [o EXCEPT !.pc = "issue"]]
      /\ \A t \in Tokens : token'[t] = token[t] \/ token'[t] = NoToken
      /\ token' \in [Tokens -> TokenRows \cup {NoToken}]
  BY DEF RefreshUser, RefreshRotate, Go, Revoked, AccessIInv, AccessTypeOK
<1>3. PICK next \in Refreshing \cup {AtRest} :
        /\ client' = [client EXCEPT ![c] = next]
        /\ next = AtRest \/ (next.user = o.user /\ next.secret = o.secret /\ next.marked = o.marked)
        /\ next.pc # "basic"
  <2>1. \A step \in {"rotate", "issue"} :
          /\ [o EXCEPT !.pc = step] \in Refreshing
          /\ [o EXCEPT !.pc = step].user = o.user /\ [o EXCEPT !.pc = step].secret = o.secret
          /\ [o EXCEPT !.pc = step].marked = o.marked /\ [o EXCEPT !.pc = step].pc # "basic"
    BY <1>1 DEF Refreshing
  <2>2. AtRest.pc # "basic"
    BY DEF AtRest
  <2> QED  BY <1>2, <2>1, <2>2
<1>4. next # AtRest /\ ~next.marked => Fits(next.user, next.secret)
  BY <1>1, <1>3 DEF AccessIInv, ClientsFit
<1>5. AtRest.pc = "idle"
  BY DEF AtRest
<1> HIDE DEF o
<1>6. /\ client' \in [Clients -> Verifying \cup Refreshing \cup {AtRest}]
      /\ ClientsFit' /\ ChecksFit'
  BY <1>2, <1>3, <1>4, <1>5, ClientMoves
<1>7. TokensFit'
  BY <1>2, TokensMove
<1>8. RememberedFits'
  BY <1>2 DEF AccessIInv, RememberedFits, Forgetting
<1> QED  BY <1>2, <1>6, <1>7, <1>8 DEF AccessIInv, AccessTypeOK

\* A mark changes no other field.
LEMMA MarkedTyped ==
  /\ \A o \in Verifying : /\ Marked(o) \in Verifying /\ Marked(o).pc = o.pc /\ Marked(o).marked
                           /\ Marked(o).row = o.row
  /\ \A o \in Refreshing : Marked(o) \in Refreshing /\ Marked(o).pc = o.pc /\ Marked(o).marked
  /\ \A o \in TokenRows : Marked(o) \in TokenRows /\ Marked(o).marked
<1>1. PICK m \in BOOLEAN : m = TRUE
  OBVIOUS
<1>2. ASSUME NEW o \in Verifying
      PROVE  /\ Marked(o) \in Verifying /\ Marked(o).pc = o.pc /\ Marked(o).marked
             /\ Marked(o).row = o.row
  <2>1. Marked(o) = [o EXCEPT !.marked = m]
    BY <1>1 DEF Marked
  <2> QED  BY <1>1, <2>1 DEF Verifying
<1>3. ASSUME NEW o \in Refreshing
      PROVE  Marked(o) \in Refreshing /\ Marked(o).pc = o.pc /\ Marked(o).marked
  <2>1. Marked(o) = [o EXCEPT !.marked = m]
    BY <1>1 DEF Marked
  <2> QED  BY <1>1, <2>1 DEF Refreshing
<1>4. ASSUME NEW o \in TokenRows
      PROVE  Marked(o) \in TokenRows /\ Marked(o).marked
  <2>1. Marked(o) = [o EXCEPT !.marked = m]
    BY <1>1 DEF Marked
  <2> QED  BY <1>1, <2>1 DEF TokenRows
<1> QED  BY <1>2, <1>3, <1>4

\* A change overtakes the clients of its account: they are marked, the others
\* are left alone.
LEMMA OvertakenClients ==
  ASSUME AccessIInv, NEW u \in Accounts, Overtake(u),
         \A w \in Accounts \ {u} : /\ account'[w] = account[w]
                                   /\ \A change : Pending(w, change) => Pending(w, change)'
  PROVE  /\ client' \in [Clients -> Verifying \cup Refreshing \cup {AtRest}]
         /\ ClientsFit' /\ ChecksFit'
<1>1. client' = [c \in Clients |-> IF client[c] = AtRest \/ client[c].user # u THEN client[c]
                                   ELSE Marked(client[c])]
  BY DEF Overtake
<1>2. ASSUME NEW c \in Clients
      PROVE  /\ client'[c] \in Verifying \cup Refreshing \cup {AtRest}
             /\ client'[c] # AtRest => client[c] # AtRest
             /\ client'[c].pc = "basic" => client[c].pc = "basic" /\ client'[c].row = client[c].row
             /\ client'[c] = client[c] \/ client'[c].marked
             /\ client[c] # AtRest /\ client[c].user = u => client'[c].marked
  <2>1. CASE client[c] = AtRest \/ client[c].user # u
    <3>1. client'[c] = client[c]
      BY <1>1, <2>1
    <3> QED  BY <2>1, <3>1 DEF AccessIInv, AccessTypeOK
  <2>2. CASE client[c] # AtRest /\ client[c].user = u
    <3>1. client'[c] = Marked(client[c])
      BY <1>1, <2>2
    <3>2. CASE client[c] \in Verifying
      BY <2>2, <3>1, <3>2, MarkedTyped
    <3>3. CASE client[c] \in Refreshing
      <4>1. client[c].pc # "basic"
        BY <3>3 DEF Refreshing
      <4> QED  BY <2>2, <3>1, <3>3, <4>1, MarkedTyped
    <3> QED  BY <2>2, <3>2, <3>3 DEF AccessIInv, AccessTypeOK
  <2> QED  BY <2>1, <2>2
<1>3. client' \in [Clients -> Verifying \cup Refreshing \cup {AtRest}]
  BY <1>1, <1>2
<1>4. ClientsFit'
  <2> SUFFICES ASSUME NEW c \in Clients,
                      client'[c].pc \in {"login", "whose", "rotate", "issue"}, ~client'[c].marked,
                      NEW w, w = client'[c].user, NEW s, s = client'[c].secret
               PROVE  Fits(w, s)'
    BY DEF ClientsFit, Fits, Pending
  <2>1. client'[c] = client[c] /\ client[c] # AtRest /\ client[c].user # u
    BY <1>2 DEF AtRest
  <2>2. Fits(w, s) /\ w \in Accounts \ {u}
    BY <2>1, ClientTyped DEF AccessIInv, ClientsFit, Verifying, Refreshing
  <2>3. account'[w] = account[w] /\ \A change : Pending(w, change) => Pending(w, change)'
    BY <2>2
  <2> QED  BY <2>2, <2>3 DEF Fits
<1>5. ChecksFit'
  <2> SUFFICES ASSUME NEW c \in Clients, client'[c].pc = "basic"
               PROVE  /\ client'[c].row.there
                      /\ ~client'[c].marked => client'[c].row = account'[client'[c].user]
    BY DEF ChecksFit
  <2>1. client[c].pc = "basic" /\ client'[c].row = client[c].row /\ client[c].row.there
    BY <1>2 DEF AccessIInv, ChecksFit
  <2>2. client[c] # AtRest /\ client[c].user \in Accounts
    BY <2>1, ClientTyped DEF Verifying
  <2>3. ASSUME ~client'[c].marked
        PROVE  client'[c].row = account'[client'[c].user]
    <3>1. client'[c] = client[c] /\ client[c].user # u
      BY <1>2, <2>2, <2>3
    <3> QED  BY <2>1, <2>2, <2>3, <3>1 DEF AccessIInv, ChecksFit
  <2> QED  BY <2>1, <2>3
<1> QED  BY <1>3, <1>4, <1>5

\* A request for account u moves: the changes of the other accounts that are
\* under way stay under way, and so do those of other requests.
LEMMA RequestMoves ==
  ASSUME AccessIInv, NEW a \in Admins, NEW u \in Accounts,
         NEW next \in Creating \cup Changing \cup {AtRest},
         admin' = [admin EXCEPT ![a] = next],
         admin[a] = AtRest \/ admin[a].user = u,
         next = AtRest \/ next.user = u
  PROVE  /\ admin' \in [Admins -> Creating \cup Changing \cup {AtRest}]
         /\ admin'[a] = next
         /\ \A b \in Admins : b # a => admin'[b] = admin[b]
         /\ \A w \in Accounts \ {u} : /\ \A change : Pending(w, change)' <=> Pending(w, change)
                                      /\ Forgetting(w)' <=> Forgetting(w)
<1>1. /\ admin' \in [Admins -> Creating \cup Changing \cup {AtRest}]
      /\ admin'[a] = next
      /\ \A b \in Admins : b # a => admin'[b] = admin[b]
  BY DEF AccessIInv, AccessTypeOK
<1>2. AtRest.pc = "idle"
  BY DEF AtRest
<1>3. ASSUME NEW w \in Accounts \ {u} PROVE Forgetting(w)' <=> Forgetting(w)
  BY <1>1, <1>2 DEF Forgetting
<1>4. ASSUME NEW w \in Accounts \ {u}, NEW change PROVE Pending(w, change)' <=> Pending(w, change)
  BY <1>1, <1>2 DEF Pending
<1> QED  BY <1>1, <1>3, <1>4

\* What must be said of the account whose change moves, for every session and
\* every remembered credential of it; the others are left alone.
LEMMA ChangeHolds ==
  ASSUME AccessIInv, NEW a \in Admins, NEW u \in Accounts,
         NEW next \in Creating \cup Changing \cup {AtRest},
         admin' = [admin EXCEPT ![a] = next],
         admin[a] = AtRest \/ admin[a].user = u,
         next = AtRest \/ next.user = u,
         NEW row \in UserRows, account' = [account EXCEPT ![u] = row],
         Overtake(u),
         token' \in [Tokens -> TokenRows \cup {NoToken}],
         \A t \in Tokens : \/ token'[t] = token[t] \/ token'[t] = NoToken \/ token'[t].marked,
         \A t \in Tokens : \A s : /\ token'[t] = token[t] /\ Live(t) /\ ~token[t].marked
                                  /\ token[t].user = u /\ token[t].secret = s
                                  => Fits(u, s)',
         verified' \subseteq Remembered,
         \A v \in verified' : v.row.there /\ (v \in verified \/ v.marked \/ v.user = u),
         \A v \in verified' : ~v.marked /\ v.user = u => Tells(v, row) \/ Forgetting(u)'
  PROVE  AccessIInv'
<1>1. /\ admin' \in [Admins -> Creating \cup Changing \cup {AtRest}]
      /\ \A w \in Accounts \ {u} : /\ \A change : Pending(w, change)' <=> Pending(w, change)
                                   /\ Forgetting(w)' <=> Forgetting(w)
  BY RequestMoves
<1>2. /\ account' \in [Accounts -> UserRows]
      /\ account'[u] = row
      /\ \A w \in Accounts \ {u} : account'[w] = account[w]
  BY DEF AccessIInv, AccessTypeOK
<1>3. /\ client' \in [Clients -> Verifying \cup Refreshing \cup {AtRest}]
      /\ ClientsFit' /\ ChecksFit'
  BY <1>1, <1>2, OvertakenClients
<1>4. TokensFit'
  <2> SUFFICES ASSUME NEW t \in Tokens, token'[t] # NoToken, ~token'[t].marked,
                      NEW w, w = token'[t].user, NEW s, s = token'[t].secret
               PROVE  Fits(w, s)'
    BY DEF TokensFit, Live, Fits, Pending
  <2>1. token'[t] = token[t] /\ token[t] \in TokenRows /\ Live(t) /\ ~token[t].marked
    BY DEF AccessIInv, AccessTypeOK, Live
  <2>2. CASE token[t].user = u
    BY <2>1, <2>2
  <2>3. CASE token[t].user # u
    <3>1. w \in Accounts \ {u} /\ Fits(w, s)
      BY <2>1, <2>3 DEF TokenRows, AccessIInv, TokensFit
    <3>2. account'[w] = account[w] /\ \A change : Pending(w, change)' <=> Pending(w, change)
      BY <1>1, <1>2, <3>1
    <3> QED  BY <3>1, <3>2 DEF Fits
  <2> QED  BY <2>2, <2>3
<1>5. RememberedFits'
  <2> SUFFICES ASSUME NEW v \in verified', ~v.marked
               PROVE  Tells(v, account'[v.user]) \/ Forgetting(v.user)'
    BY DEF RememberedFits, Forgetting, Tells
  <2>1. v.user \in Accounts /\ (v \in verified \/ v.user = u)
    BY DEF Remembered
  <2>2. CASE v.user = u
    BY <1>2, <2>1, <2>2 DEF Forgetting
  <2>3. CASE v.user # u
    BY <1>1, <1>2, <2>1, <2>3 DEF AccessIInv, RememberedFits, Forgetting
  <2> QED  BY <2>2, <2>3
<1> QED  BY <1>1, <1>2, <1>3, <1>4, <1>5 DEF AccessIInv, AccessTypeOK

\* A request begins, or ends before its statement: nothing is changed.
LEMMA RequestBegins ==
  ASSUME AccessIInv, NEW a \in Admins, NEW next \in Creating \cup Changing \cup {AtRest},
         next.pc \in {"idle", "write", "drop"}, admin[a].pc \in {"idle", "write"},
         admin' = [admin EXCEPT ![a] = next],
         UNCHANGED <<account, token, verified, client>>
  PROVE  AccessIInv'
<1>1. /\ admin' \in [Admins -> Creating \cup Changing \cup {AtRest}]
      /\ admin'[a] = next
      /\ \A b \in Admins : b # a => admin'[b] = admin[b]
  BY DEF AccessIInv, AccessTypeOK
<1>2. /\ \A w, change : Pending(w, change)' <=> Pending(w, change)
      /\ \A w : Forgetting(w)' <=> Forgetting(w)
  BY <1>1 DEF Pending, Forgetting
<1>3. \A w, s : Fits(w, s)' <=> Fits(w, s)
  BY <1>2 DEF Fits
<1>4. TokensFit'
  <2> SUFFICES ASSUME NEW t \in Tokens, Live(t), ~token[t].marked,
                      NEW w, w = token[t].user, NEW s, s = token[t].secret
               PROVE  Fits(w, s)'
    BY DEF TokensFit, Live, Fits, Pending
  <2> QED  BY <1>3 DEF AccessIInv, TokensFit
<1>5. ClientsFit'
  <2> SUFFICES ASSUME NEW c \in Clients,
                      client[c].pc \in {"login", "whose", "rotate", "issue"}, ~client[c].marked,
                      NEW w, w = client[c].user, NEW s, s = client[c].secret
               PROVE  Fits(w, s)'
    BY DEF ClientsFit, Fits, Pending
  <2> QED  BY <1>3 DEF AccessIInv, ClientsFit
<1>6. RememberedFits'
  <2> SUFFICES ASSUME NEW v \in verified, ~v.marked, NEW w, w = v.user
               PROVE  Tells(v, account[w]) \/ Forgetting(w)'
    BY DEF AccessIInv, RememberedFits, Forgetting, Tells
  <2> QED  BY <1>2 DEF AccessIInv, RememberedFits
<1> QED  BY <1>1, <1>4, <1>5, <1>6 DEF AccessIInv, AccessTypeOK, ChecksFit

LEMMA AdministerHolds ==
  ASSUME AccessIInv, NEW a \in Admins, NEW who \in Accounts, NEW u \in Accounts,
         DeleteUser(a, who, u) \/ \E change \in Changes : Administer(a, who, u, change)
  PROVE  AccessIInv'
<1>1. CASE DeleteUser(a, who, u)
  <2> DEFINE next == [pc |-> "drop", user |-> u, change |-> "delete"]
  <2>1. next \in Changing /\ next.pc = "drop"
    BY DEF Changing
  <2>2. admin' = [admin EXCEPT ![a] = next] /\ admin[a].pc = "idle"
        /\ UNCHANGED <<account, token, verified, client>>
    BY <1>1 DEF DeleteUser, Proceed, AtRest
  <2> HIDE DEF next
  <2> QED  BY <2>1, <2>2, RequestBegins
<1>2. ASSUME NEW change \in Changes, Administer(a, who, u, change) PROVE AccessIInv'
  <2> DEFINE next == [pc |-> "write", user |-> u, change |-> change]
  <2>1. next \in Changing /\ next.pc = "write"
    BY DEF Changing
  <2>2. admin' = [admin EXCEPT ![a] = next] /\ admin[a].pc = "idle"
        /\ UNCHANGED <<account, token, verified, client>>
    BY <1>2 DEF Administer, Proceed, AtRest
  <2> HIDE DEF next
  <2> QED  BY <2>1, <2>2, RequestBegins
<1> QED  BY <1>1, <1>2

\* An account is created: no session and no remembered credential of an absent
\* account is left but marked ones.
LEMMA CreateUserHolds ==
  ASSUME AccessIInv, NEW a \in Admins, NEW who \in Accounts, NEW u \in Accounts,
         NEW asAdmin \in BOOLEAN, CreateUser(a, who, u, asAdmin)
  PROVE  AccessIInv'
<1> DEFINE row == [there |-> TRUE, enabled |-> TRUE, admin |-> asAdmin, narrowed |-> FALSE,
                   secret |-> account[u].secret + 1]
           next == [pc |-> "profile", user |-> u]
<1>1. row \in UserRows /\ next \in Creating /\ next.pc = "profile"
  BY DEF UserRows, Creating, AccessIInv, AccessTypeOK
<1>2. /\ account' = [account EXCEPT ![u] = row] /\ ~account[u].there
      /\ admin' = [admin EXCEPT ![a] = next] /\ admin[a] = AtRest
      /\ UNCHANGED <<token, verified, client>>
  BY DEF CreateUser, Proceed
<1> HIDE DEF row, next
<1>3. /\ admin' \in [Admins -> Creating \cup Changing \cup {AtRest}]
      /\ admin'[a] = next
      /\ \A b \in Admins : b # a => admin'[b] = admin[b]
  BY <1>1, <1>2 DEF AccessIInv, AccessTypeOK
<1>4. /\ account' \in [Accounts -> UserRows]
      /\ \A w \in Accounts : w # u => account'[w] = account[w]
  BY <1>1, <1>2 DEF AccessIInv, AccessTypeOK
<1>5. AtRest.pc = "idle"
  BY DEF AtRest
<1>6. /\ \A w, change : Pending(w, change)' <=> Pending(w, change)
      /\ \A w : Forgetting(w)' <=> Forgetting(w)
  BY <1>1, <1>2, <1>3, <1>5 DEF Pending, Forgetting
<1>7. \A w \in Accounts : \A s : Fits(w, s) => Fits(w, s)'
  BY <1>2, <1>4, <1>6 DEF Fits
<1>8. TokensFit'
  <2> SUFFICES ASSUME NEW t \in Tokens, Live(t), ~token[t].marked,
                      NEW w, w = token[t].user, NEW s, s = token[t].secret
               PROVE  Fits(w, s)'
    BY <1>2 DEF TokensFit, Live, Fits, Pending
  <2> QED  BY <1>7 DEF AccessIInv, AccessTypeOK, TokensFit, TokenRows, Live
<1>9. ClientsFit'
  <2> SUFFICES ASSUME NEW c \in Clients,
                      client[c].pc \in {"login", "whose", "rotate", "issue"}, ~client[c].marked,
                      NEW w, w = client[c].user, NEW s, s = client[c].secret
               PROVE  Fits(w, s)'
    BY <1>2 DEF ClientsFit, Fits, Pending
  <2>1. w \in Accounts
    BY ClientTyped DEF Verifying, Refreshing
  <2> QED  BY <1>7, <2>1 DEF AccessIInv, ClientsFit
<1>10. ChecksFit'
  <2> SUFFICES ASSUME NEW c \in Clients, client[c].pc = "basic", ~client[c].marked
               PROVE  client[c].row = account'[client[c].user]
    BY <1>2 DEF AccessIInv, ChecksFit
  <2>1. client[c].user \in Accounts /\ client[c].user # u
    BY <1>2, ClientTyped DEF Verifying, AccessIInv, ChecksFit
  <2> QED  BY <1>4, <2>1 DEF AccessIInv, ChecksFit
<1>11. RememberedFits'
  <2> SUFFICES ASSUME NEW v \in verified, ~v.marked, NEW w, w = v.user
               PROVE  Tells(v, account'[w]) \/ Forgetting(w)'
    BY <1>2 DEF AccessIInv, RememberedFits, Forgetting, Tells
  <2>1. w \in Accounts /\ v \in Remembered /\ v.row.there
    BY DEF AccessIInv, AccessTypeOK, Remembered, RememberedFits
  <2>2. CASE w # u
    BY <1>4, <1>6, <2>1, <2>2 DEF AccessIInv, RememberedFits
  <2>3. CASE w = u
    <3>1. ~Tells(v, account[u])
      <4>1. account[u] \in UserRows /\ v.row \in UserRows
        BY <2>1 DEF AccessIInv, AccessTypeOK, Remembered
      <4> QED  BY <1>2, <2>1, <4>1 DEF Tells, UserRows
    <3> QED  BY <1>6, <2>3, <3>1 DEF AccessIInv, RememberedFits
  <2> QED  BY <2>2, <2>3
<1> QED  BY <1>2, <1>3, <1>4, <1>8, <1>9, <1>10, <1>11 DEF AccessIInv, AccessTypeOK

MarkedAs(v, m) == [v EXCEPT !.marked = m]

\* What stays of the remembered credentials may be marked on the way.
LEMMA MarkedRemembered ==
  ASSUME AccessIInv, NEW u, NEW p \in BOOLEAN,
         \A k \in verified' : \E v \in verified : k = MarkedAs(v, v.marked \/ (p /\ v.user = u))
  PROVE  /\ verified' \subseteq Remembered
         /\ \A v \in verified' : v.row.there /\ (v \in verified \/ v.marked)
         /\ p => \A v \in verified' : v.user = u => v.marked
<1> SUFFICES ASSUME NEW v \in verified,
                    NEW k, k = MarkedAs(v, v.marked \/ (p /\ v.user = u))
             PROVE  /\ k \in Remembered
                    /\ k.row.there /\ (k \in verified \/ k.marked)
                    /\ p => (k.user = u => k.marked)
  OBVIOUS
<1>1. v \in Remembered /\ v.row.there /\ v.marked \in BOOLEAN
  BY DEF AccessIInv, AccessTypeOK, RememberedFits, Remembered
<1>2. PICK m \in BOOLEAN : m = (v.marked \/ (p /\ v.user = u))
  BY <1>1
<1>3. k = [v EXCEPT !.marked = m]
  BY <1>2 DEF MarkedAs
<1>4. k \in Remembered /\ k.row = v.row /\ k.user = v.user /\ k.marked = m
  BY <1>1, <1>3 DEF Remembered
<1>5. m = v.marked => k = v
  BY <1>1, <1>3 DEF Remembered
<1>6. m # v.marked => m
  BY <1>1, <1>2
<1> QED  BY <1>1, <1>2, <1>4, <1>5, <1>6

\* The profile of a new account.
LEMMA CreateProfileHolds ==
  ASSUME AccessIInv, NEW a \in Admins, CreateProfile(a)
  PROVE  AccessIInv'
<1>1. admin[a].user \in Accounts /\ admin[a].pc = "profile"
  BY AdminTyped DEF CreateProfile
<1>2. PICK u \in Accounts : u = admin[a].user
  BY <1>1
<1>3. account[u] \in UserRows
  BY DEF AccessIInv, AccessTypeOK
<1>4. PICK row \in UserRows : /\ account' = [account EXCEPT ![u] = row]
                              /\ row.there = account[u].there /\ row.enabled = account[u].enabled
                              /\ row.secret = account[u].secret /\ row.admin = account[u].admin
  <2>1. CASE account[u].there
    <3>1. [account[u] EXCEPT !.narrowed = TRUE] \in UserRows
      BY <1>3 DEF UserRows
    <3>2. account' = [account EXCEPT ![u] = [account[u] EXCEPT !.narrowed = TRUE]]
      BY <1>2, <2>1 DEF CreateProfile, AccessIInv, AccessTypeOK
    <3> QED  BY <1>3, <3>1, <3>2 DEF UserRows
  <2>2. CASE ~account[u].there
    BY <1>2, <1>3, <2>2 DEF CreateProfile, AccessIInv, AccessTypeOK
  <2> QED  BY <2>1, <2>2
<1>5. /\ admin' = [admin EXCEPT ![a] = AtRest]
      /\ Overtake(u)
      /\ UNCHANGED token
      /\ verified' = {[v EXCEPT !.older = @ \/ v.user = u] : v \in verified}
  BY <1>2 DEF CreateProfile, Proceed
<1>6. ASSUME NEW k \in verified'
      PROVE  /\ k \in Remembered /\ k.row.there /\ (k \in verified \/ k.user = u)
             /\ ~k.marked /\ k.user = u => Tells(k, row) \/ Forgetting(u)
  <2>1. PICK v \in verified : k = [v EXCEPT !.older = @ \/ v.user = u]
    BY <1>5, <1>6
  <2>2. v \in Remembered /\ v.row.there /\ v.older \in BOOLEAN /\ v.row \in UserRows
    BY DEF AccessIInv, AccessTypeOK, RememberedFits, Remembered
  <2>3. PICK b \in BOOLEAN : b = (v.older \/ v.user = u)
    BY <2>2
  <2>4. k = [v EXCEPT !.older = b]
    BY <2>1, <2>3
  <2>5. /\ k \in Remembered /\ k.row = v.row /\ k.user = v.user /\ k.marked = v.marked /\ k.older = b
        /\ b = v.older => k = v
    BY <2>2, <2>4 DEF Remembered
  <2>6. k \in verified \/ k.user = u
    BY <2>2, <2>3, <2>5
  <2>7. ASSUME ~k.marked, k.user = u
        PROVE  Tells(k, row) \/ Forgetting(u)
    <3>1. Tells(v, account[u]) \/ Forgetting(u)
      BY <2>5, <2>7 DEF AccessIInv, RememberedFits
    <3>2. k.older
      BY <2>3, <2>5, <2>7
    <3>3. ASSUME Tells(v, account[u]) PROVE Tells(k, row)
      <4>1. /\ v.row.there = row.there /\ v.row.enabled = row.enabled
            /\ v.row.admin = row.admin /\ v.row.secret = row.secret
        BY <1>3, <1>4, <2>2, <3>3 DEF Tells, UserRows
      <4> QED  BY <2>2, <2>5, <3>2, <4>1 DEF Tells, UserRows
    <3> QED  BY <3>1, <3>3
  <2> QED  BY <2>2, <2>5, <2>6, <2>7
<1>7. /\ admin'[a] = AtRest /\ AtRest.pc = "idle"
      /\ \A b \in Admins : b # a => admin'[b] = admin[b]
  BY <1>5 DEF AccessIInv, AccessTypeOK, AtRest
<1>8. /\ \A change : Pending(u, change) => Pending(u, change)'
      /\ Forgetting(u) => Forgetting(u)'
  BY <1>1, <1>7 DEF Pending, Forgetting
<1>9. account'[u] = row
  BY <1>4 DEF AccessIInv, AccessTypeOK
<1>10. \A s : Fits(u, s) => Fits(u, s)'
  BY <1>4, <1>8, <1>9 DEF Fits
<1>11. \A t \in Tokens : \A s : /\ token'[t] = token[t] /\ Live(t) /\ ~token[t].marked
                                /\ token[t].user = u /\ token[t].secret = s
                                => Fits(u, s)'
  BY <1>10 DEF AccessIInv, TokensFit
<1> QED
  <2>1. token' \in [Tokens -> TokenRows \cup {NoToken}]
    BY <1>5 DEF AccessIInv, AccessTypeOK
  <2>2. \A t \in Tokens : token'[t] = token[t]
    BY <1>5
  <2>3. /\ verified' \subseteq Remembered
        /\ \A v \in verified' : v.row.there /\ (v \in verified \/ v.marked \/ v.user = u)
        /\ \A v \in verified' : ~v.marked /\ v.user = u => Tells(v, row) \/ Forgetting(u)'
    BY <1>6, <1>8
  <2>4. AtRest \in Creating \cup Changing \cup {AtRest}
    OBVIOUS
  <2> QED  BY <1>1, <1>2, <1>4, <1>5, <1>11, <2>1, <2>2, <2>3, <2>4, ChangeHolds

\* The fields of a row that a change moves.
LEMMA ChangedTyped ==
  ASSUME AccessIInv, NEW u \in Accounts, NEW change \in Changes
  PROVE  /\ Changed(u, change) \in UserRows
         /\ Changed(u, change).there = account[u].there
         /\ change # "password" => Changed(u, change).secret = account[u].secret
         /\ change # "disable" => (account[u].enabled => Changed(u, change).enabled)
<1>1. account[u] \in UserRows
  BY DEF AccessIInv, AccessTypeOK
<1>2. CASE change = "disable"
  BY <1>1, <1>2 DEF Changed, UserRows
<1>3. CASE change = "enable"
  BY <1>1, <1>3 DEF Changed, UserRows
<1>4. CASE change = "widen"
  BY <1>1, <1>4 DEF Changed, UserRows
<1>5. CASE change = "promote"
  BY <1>1, <1>5 DEF Changed, UserRows
<1>6. CASE change = "demote"
  BY <1>1, <1>6 DEF Changed, UserRows
<1>7. CASE change = "password"
  BY <1>1, <1>7 DEF Changed, UserRows
<1>8. CASE change = "sessions"
  BY <1>1, <1>8 DEF Changed, UserRows
<1>9. CASE change = "narrow"
  BY <1>1, <1>9 DEF Changed, UserRows
<1> QED  BY <1>2, <1>3, <1>4, <1>5, <1>6, <1>7, <1>8, <1>9 DEF Changes, Profile

\* The sessions of an account are revoked.
LEMMA RevokedTyped ==
  ASSUME AccessIInv, NEW u, NEW S, S = TokensOf(u)
  PROVE  /\ Revoked(S) \in [Tokens -> TokenRows \cup {NoToken}]
         /\ \A t \in Tokens : /\ token[t].user = u => Revoked(S)[t] = NoToken
                              /\ token[t].user # u => Revoked(S)[t] = token[t]
BY DEF Revoked, TokensOf, AccessIInv, AccessTypeOK

\* The statement of a change: from here until its caches are dropped and its
\* sessions revoked, the change itself answers for what is left of both.
LEMMA WriteChangeHolds ==
  ASSUME AccessIInv, WritesFit, NEW a \in Admins, WriteChange(a)
  PROVE  AccessIInv'
<1>1. /\ admin[a].user \in Accounts /\ admin[a].pc = "write" /\ admin[a] \in Changing
      /\ admin[a].change \in Changes
  BY AdminTyped DEF WriteChange, WritesFit
<1>2. PICK u \in Accounts, change \in Changes : u = admin[a].user /\ change = admin[a].change
  BY <1>1
<1>3. CASE ~account[u].there
  <2>1. /\ admin' = [admin EXCEPT ![a] = AtRest]
        /\ UNCHANGED <<account, token, verified, client>>
    BY <1>2, <1>3 DEF WriteChange, Proceed
  <2>2. AtRest.pc = "idle"
    BY DEF AtRest
  <2> QED  BY <1>1, <2>1, <2>2, RequestBegins
<1>4. CASE account[u].there
  <2>1. PICK row \in UserRows : row = Changed(u, change)
    BY ChangedTyped
  <2>2. PICK next \in Changing : next = [admin[a] EXCEPT !.pc = "forget"]
    BY <1>1 DEF Changing
  <2>3. next.pc = "forget" /\ next.user = u /\ next.change = change
    BY <1>1, <1>2, <2>2 DEF Changing
  <2>4. /\ account' = [account EXCEPT ![u] = row]
        /\ admin' = [admin EXCEPT ![a] = next]
        /\ Overtake(u)
        /\ verified' = verified
        /\ token' = token \/ token' = Revoked(TokensOf(u))
    BY <1>2, <1>4, <2>1, <2>2 DEF WriteChange, Proceed
  <2>5. /\ token' \in [Tokens -> TokenRows \cup {NoToken}]
        /\ \A t \in Tokens : token'[t] = token[t] \/ token'[t] = NoToken
    BY <2>4, RevokedTyped DEF AccessIInv, AccessTypeOK
  <2>6. /\ admin'[a] = next
        /\ \A b \in Admins : b # a => admin'[b] = admin[b]
    BY <2>4 DEF AccessIInv, AccessTypeOK
  <2>7. account'[u] = row
    BY <2>4 DEF AccessIInv, AccessTypeOK
  <2>8. Forgetting(u)'
    BY <2>3, <2>6 DEF Forgetting
  <2>9. \A kinds : Pending(u, kinds) \/ change \in kinds => Pending(u, kinds)'
    BY <1>1, <2>3, <2>6 DEF Pending
  <2>10. \A s : Fits(u, s) => Fits(u, s)'
    <3> SUFFICES ASSUME NEW s, Fits(u, s) PROVE Fits(u, s)'
      OBVIOUS
    <3>1. account'[u].there
      BY <1>4, <2>1, <2>7, ChangedTyped
    <3>2. account'[u].secret = s \/ Pending(u, {"password"})'
      BY <2>1, <2>7, <2>9, ChangedTyped DEF Fits
    <3>3. account'[u].enabled \/ Pending(u, Profile \cup {"password"})'
      BY <2>1, <2>7, <2>9, ChangedTyped DEF Fits, Profile
    <3> QED  BY <3>1, <3>2, <3>3 DEF Fits
  <2>11. \A t \in Tokens : \A s : /\ token'[t] = token[t] /\ Live(t) /\ ~token[t].marked
                                  /\ token[t].user = u /\ token[t].secret = s
                                  => Fits(u, s)'
    BY <2>10 DEF AccessIInv, TokensFit
  <2>12. /\ verified' \subseteq Remembered
         /\ \A v \in verified' : v.row.there /\ (v \in verified \/ v.marked)
         /\ \A v \in verified' : ~v.marked /\ v.user = u => Tells(v, row) \/ Forgetting(u)'
    BY <2>4, <2>8 DEF AccessIInv, AccessTypeOK, RememberedFits
  <2> QED  BY <1>2, <2>3, <2>4, <2>5, <2>11, <2>12, ChangeHolds
<1> QED  BY <1>3, <1>4

\* InvalidateUser: nothing of the account is remembered any more, and a change
\* that has sessions to revoke still has.
LEMMA ForgetUserHolds ==
  ASSUME AccessIInv, NEW a \in Admins, ForgetUser(a)
  PROVE  AccessIInv'
<1>1. /\ admin[a].user \in Accounts /\ admin[a].pc = "forget" /\ admin[a] \in Changing
  BY AdminTyped DEF ForgetUser
<1>2. PICK u \in Accounts : u = admin[a].user
  BY <1>1
<1>3. PICK row \in UserRows : row = account[u]
  BY DEF AccessIInv, AccessTypeOK
<1>4. AtRest.pc = "idle"
  BY DEF AtRest
<1>5. PICK next \in Changing \cup {AtRest} :
        /\ admin' = [admin EXCEPT ![a] = next]
        /\ next = AtRest \/ next.user = u
        /\ admin[a].change \in Profile \cup {"password"} =>
             next.pc = "revoke" /\ next.user = u /\ next.change = admin[a].change
  <2>1. [admin[a] EXCEPT !.pc = "revoke"] \in Changing
    BY <1>1 DEF Changing
  <2>2. CASE admin[a].change \in Profile \cup {"password"}
    <3>1. admin' = [admin EXCEPT ![a] = [admin[a] EXCEPT !.pc = "revoke"]]
      BY <2>2 DEF ForgetUser, Proceed
    <3> QED  BY <1>1, <1>2, <2>1, <3>1 DEF Changing
  <2>3. CASE admin[a].change \notin Profile \cup {"password"}
    BY <2>3 DEF ForgetUser, Proceed
  <2> QED  BY <2>2, <2>3
<1>6. /\ account' = account /\ token' = token /\ Overtake(u)
      /\ \A v \in verified' : v \in verified /\ v.user # u
  BY <1>2 DEF ForgetUser
<1>7. account' = [account EXCEPT ![u] = row] /\ account'[u] = row
  BY <1>3, <1>6 DEF AccessIInv, AccessTypeOK
<1>8. /\ admin'[a] = next
      /\ \A b \in Admins : b # a => admin'[b] = admin[b]
  BY <1>5 DEF AccessIInv, AccessTypeOK
<1>9. \A kinds \in SUBSET (Profile \cup {"password"}) : Pending(u, kinds) => Pending(u, kinds)'
  BY <1>5, <1>8 DEF Pending
<1>10. Pending(u, {"password"}) => Pending(u, {"password"})'
  BY <1>9
<1>11. Pending(u, Profile \cup {"password"}) => Pending(u, Profile \cup {"password"})'
  BY <1>9
<1>12. \A s : Fits(u, s) => Fits(u, s)'
  BY <1>6, <1>10, <1>11 DEF Fits
<1>13. \A t \in Tokens : \A s : /\ token'[t] = token[t] /\ Live(t) /\ ~token[t].marked
                                /\ token[t].user = u /\ token[t].secret = s
                                => Fits(u, s)'
  BY <1>12 DEF AccessIInv, TokensFit
<1>14. /\ token' \in [Tokens -> TokenRows \cup {NoToken}]
       /\ \A t \in Tokens : token'[t] = token[t]
  BY <1>6 DEF AccessIInv, AccessTypeOK
<1>15. /\ verified' \subseteq Remembered
       /\ \A v \in verified' : v.row.there /\ (v \in verified \/ v.marked)
       /\ \A v \in verified' : ~v.marked /\ v.user = u => Tells(v, row) \/ Forgetting(u)'
  BY <1>6 DEF AccessIInv, AccessTypeOK, RememberedFits
<1> QED
  <2>1. next \in Creating \cup Changing \cup {AtRest}
    OBVIOUS
  <2>2. /\ admin' = [admin EXCEPT ![a] = next]
        /\ admin[a] = AtRest \/ admin[a].user = u
        /\ next = AtRest \/ next.user = u
        /\ account' = [account EXCEPT ![u] = row]
        /\ Overtake(u)
    BY <1>2, <1>5, <1>6, <1>7
  <2> QED  BY <1>13, <1>14, <1>15, <2>1, <2>2, ChangeHolds

\* RevokeUserTokens: the sessions that the change was to end are ended, and the
\* others need no change to answer for them.
LEMMA RevokeUserTokensHolds ==
  ASSUME AccessIInv, NEW a \in Admins, RevokeUserTokens(a)
  PROVE  AccessIInv'
<1>1. /\ admin[a].user \in Accounts /\ admin[a].pc = "revoke"
  BY AdminTyped DEF RevokeUserTokens
<1>2. PICK u \in Accounts : u = admin[a].user
  BY <1>1
<1>3. PICK row \in UserRows : row = account[u]
  BY DEF AccessIInv, AccessTypeOK
<1>4. AtRest.pc = "idle"
  BY DEF AtRest
<1>5. /\ admin' = [admin EXCEPT ![a] = AtRest] /\ account' = account /\ verified' = verified
      /\ Overtake(u)
      /\ token' = IF admin[a].change = "password" \/ ~account[u].enabled
                  THEN Revoked(TokensOf(u)) ELSE token
  BY <1>2 DEF RevokeUserTokens, Proceed
<1>6. account' = [account EXCEPT ![u] = row] /\ account'[u] = row
  BY <1>3, <1>5 DEF AccessIInv, AccessTypeOK
<1>7. /\ admin'[a] = AtRest
      /\ \A b \in Admins : b # a => admin'[b] = admin[b]
  BY <1>5 DEF AccessIInv, AccessTypeOK
<1>8. Forgetting(u) => Forgetting(u)'
  BY <1>1, <1>7 DEF Forgetting
<1>9. \A kinds : admin[a].change \notin kinds => (Pending(u, kinds) => Pending(u, kinds)')
  BY <1>7 DEF Pending
<1>10. /\ token' \in [Tokens -> TokenRows \cup {NoToken}]
       /\ \A t \in Tokens : token'[t] = token[t] \/ token'[t] = NoToken
  BY <1>5, RevokedTyped DEF AccessIInv, AccessTypeOK
<1>11. ASSUME NEW t \in Tokens, NEW s, token'[t] = token[t], Live(t), ~token[t].marked,
              token[t].user = u, token[t].secret = s
       PROVE  Fits(u, s)'
  <2>1. admin[a].change # "password" /\ account[u].enabled
    BY <1>5, <1>11, RevokedTyped DEF Live
  <2>2. Fits(u, s)
    BY <1>11 DEF AccessIInv, TokensFit
  <2>3. Pending(u, {"password"}) => Pending(u, {"password"})'
    BY <1>9, <2>1
  <2> QED  BY <1>5, <2>1, <2>2, <2>3 DEF Fits
<1>12. /\ verified' \subseteq Remembered
       /\ \A v \in verified' : v.row.there /\ (v \in verified \/ v.marked)
       /\ \A v \in verified' : ~v.marked /\ v.user = u => Tells(v, row) \/ Forgetting(u)'
  BY <1>3, <1>5, <1>8 DEF AccessIInv, AccessTypeOK, RememberedFits
<1> QED
  <2>1. AtRest \in Creating \cup Changing \cup {AtRest}
    OBVIOUS
  <2>2. /\ admin' = [admin EXCEPT ![a] = AtRest]
        /\ admin[a] = AtRest \/ admin[a].user = u
        /\ account' = [account EXCEPT ![u] = row]
        /\ Overtake(u)
    BY <1>2, <1>5, <1>6
  <2>3. \A t \in Tokens : \A s : /\ token'[t] = token[t] /\ Live(t) /\ ~token[t].marked
                                 /\ token[t].user = u /\ token[t].secret = s
                                 => Fits(u, s)'
    BY <1>11
  <2> QED  BY <1>10, <1>12, <2>1, <2>2, <2>3, ChangeHolds

\* handleDeleteUser's statement: the sessions go with the row, and what is
\* remembered of it is about to be dropped.
LEMMA DeleteUserRowHolds ==
  ASSUME AccessIInv, NEW a \in Admins, DeleteUserRow(a)
  PROVE  AccessIInv'
<1>1. /\ admin[a].user \in Accounts /\ admin[a].pc = "drop" /\ admin[a] \in Changing
  BY AdminTyped DEF DeleteUserRow
<1>2. PICK u \in Accounts : u = admin[a].user
  BY <1>1
<1>3. PICK row \in UserRows : row = [Absent EXCEPT !.secret = account[u].secret]
  BY DEF AccessIInv, AccessTypeOK, Absent, UserRows
<1>4. PICK next \in Changing : next = [admin[a] EXCEPT !.pc = "forget"]
  BY <1>1 DEF Changing
<1>5. next.pc = "forget" /\ next.user = u
  BY <1>1, <1>2, <1>4 DEF Changing
<1>6. /\ account' = [account EXCEPT ![u] = row]
      /\ admin' = [admin EXCEPT ![a] = next]
      /\ Overtake(u)
      /\ verified' = verified
      /\ token' = Revoked(TokensOf(u))
  BY <1>2, <1>3, <1>4 DEF DeleteUserRow, Proceed
<1>7. /\ token' \in [Tokens -> TokenRows \cup {NoToken}]
      /\ \A t \in Tokens : /\ token[t].user = u => token'[t] = NoToken
                           /\ token[t].user # u => token'[t] = token[t]
  BY <1>6, RevokedTyped
<1>8. /\ \A t \in Tokens : token'[t] = token[t] \/ token'[t] = NoToken
      /\ \A t \in Tokens : \A s : /\ token'[t] = token[t] /\ Live(t) /\ ~token[t].marked
                                  /\ token[t].user = u /\ token[t].secret = s
                                  => Fits(u, s)'
  BY <1>7 DEF Live
<1>9. Forgetting(u)'
  <2>1. admin'[a] = next
    BY <1>6 DEF AccessIInv, AccessTypeOK
  <2> QED  BY <1>5, <2>1 DEF Forgetting
<1>10. /\ verified' \subseteq Remembered
       /\ \A v \in verified' : v.row.there /\ (v \in verified \/ v.marked)
       /\ \A v \in verified' : ~v.marked /\ v.user = u => Tells(v, row) \/ Forgetting(u)'
  BY <1>6, <1>9 DEF AccessIInv, AccessTypeOK, RememberedFits
<1> QED
  <2>1. next \in Creating \cup Changing \cup {AtRest}
    OBVIOUS
  <2> QED  BY <1>2, <1>5, <1>6, <1>7, <1>8, <1>10, <2>1, ChangeHolds

\* A request that is cut short: what its change left undone is marked, and
\* what it had not begun needs no mark.
LEMMA HangsUpHolds ==
  ASSUME AccessIInv, NEW a \in Admins, HangsUp(a)
  PROVE  AccessIInv'
<1>1. admin[a].user \in Accounts /\ admin[a] # AtRest
  BY AdminTyped DEF HangsUp
<1>2. PICK u \in Accounts : u = admin[a].user
  BY <1>1
<1>3. PICK row \in UserRows : row = account[u]
  BY DEF AccessIInv, AccessTypeOK
<1>4. AtRest.pc = "idle"
  BY DEF AtRest
<1>5. PICK done \in BOOLEAN : done <=> (admin[a].pc \in {"forget", "revoke"})
  <2>1. CASE admin[a].pc \in {"forget", "revoke"}
    BY <2>1
  <2>2. CASE admin[a].pc \notin {"forget", "revoke"}
    BY <2>2
  <2> QED  BY <2>1, <2>2
<1>6. /\ admin' = [admin EXCEPT ![a] = AtRest] /\ account' = account
      /\ Overtake(u)
      /\ token' = [t \in Tokens |-> IF done /\ t \in TokensOf(u) THEN Marked(token[t]) ELSE token[t]]
  BY <1>2, <1>5 DEF HangsUp, Proceed
<1>7. \/ done /\ \A v \in verified' : v \in verified /\ v.user # u
      \/ \A k \in verified' : \E v \in verified : k = MarkedAs(v, v.marked \/ (done /\ v.user = u))
  <2>1. CASE admin[a].pc = "forget" /\ admin[a].change \in Profile \cup {"delete"}
    BY <1>2, <1>5, <2>1 DEF HangsUp
  <2>2. CASE ~(admin[a].pc = "forget" /\ admin[a].change \in Profile \cup {"delete"})
    BY <1>2, <1>5, <2>2 DEF HangsUp, MarkedAs
  <2> QED  BY <2>1, <2>2
<1>8. account' = [account EXCEPT ![u] = row] /\ account'[u] = row
  BY <1>3, <1>6 DEF AccessIInv, AccessTypeOK
<1>9. /\ admin'[a] = AtRest
      /\ \A b \in Admins : b # a => admin'[b] = admin[b]
  BY <1>6 DEF AccessIInv, AccessTypeOK
<1>10. ~done => /\ \A kinds : Pending(u, kinds) => Pending(u, kinds)'
                /\ Forgetting(u) => Forgetting(u)'
  BY <1>5, <1>9 DEF Pending, Forgetting
<1>11. \A t \in Tokens : /\ done /\ token[t].user = u => token'[t] = Marked(token[t])
                         /\ ~(done /\ token[t].user = u) => token'[t] = token[t]
  BY <1>6 DEF TokensOf
<1>12. \A t \in Tokens : token[t].user = u => Marked(token[t]) \in TokenRows /\ Marked(token[t]).marked
  <2> SUFFICES ASSUME NEW t \in Tokens, token[t].user = u, NEW k, k = token[t]
               PROVE  Marked(k) \in TokenRows /\ Marked(k).marked
    OBVIOUS
  <2>1. k \in TokenRows \/ (k = NoToken /\ u = "none")
    BY DEF AccessIInv, AccessTypeOK, NoToken
  <2>2. k \in TokenRows
    <3>1. u = "none" => NoToken \in TokenRows
      <4>1. u = "none" => "none" \in Accounts
        OBVIOUS
      <4> QED  BY <4>1 DEF TokenRows, NoToken
    <3> QED  BY <2>1, <3>1
  <2> QED  BY <2>2 DEF Marked, TokenRows
<1>13. /\ token' \in [Tokens -> TokenRows \cup {NoToken}]
       /\ \A t \in Tokens : token'[t] = token[t] \/ token'[t] = NoToken \/ token'[t].marked
  BY <1>6, <1>11, <1>12 DEF AccessIInv, AccessTypeOK
<1>14. ASSUME NEW t \in Tokens, NEW s, token'[t] = token[t], Live(t), ~token[t].marked,
              token[t].user = u, token[t].secret = s
       PROVE  Fits(u, s)'
  <2>1. ~done
    BY <1>11, <1>12, <1>14
  <2>2. Fits(u, s)
    BY <1>14 DEF AccessIInv, TokensFit
  <2> QED  BY <1>6, <1>10, <2>1, <2>2 DEF Fits
<1>15. /\ verified' \subseteq Remembered
       /\ \A v \in verified' : v.row.there /\ (v \in verified \/ v.marked)
       /\ done => \A v \in verified' : v.user = u => v.marked
  <2>1. CASE \A v \in verified' : v \in verified /\ v.user # u
    BY <2>1 DEF AccessIInv, AccessTypeOK, RememberedFits
  <2>2. CASE \A k \in verified' : \E v \in verified : k = MarkedAs(v, v.marked \/ (done /\ v.user = u))
    BY <2>2, MarkedRemembered
  <2> QED  BY <1>7, <2>1, <2>2
<1>16. \A v \in verified' : ~v.marked /\ v.user = u => Tells(v, row) \/ Forgetting(u)'
  BY <1>3, <1>10, <1>15 DEF AccessIInv, RememberedFits
<1> QED
  <2>1. AtRest \in Creating \cup Changing \cup {AtRest}
    OBVIOUS
  <2>2. /\ admin' = [admin EXCEPT ![a] = AtRest]
        /\ admin[a] = AtRest \/ admin[a].user = u
        /\ account' = [account EXCEPT ![u] = row]
        /\ Overtake(u)
    BY <1>2, <1>6, <1>8
  <2>3. \A t \in Tokens : \A s : /\ token'[t] = token[t] /\ Live(t) /\ ~token[t].marked
                                 /\ token[t].user = u /\ token[t].secret = s
                                 => Fits(u, s)'
    BY <1>14
  <2>4. \A v \in verified' : v.row.there /\ (v \in verified \/ v.marked)
    BY <1>15
  <2> QED  BY <1>13, <1>15, <1>16, <2>1, <2>2, <2>3, <2>4, ChangeHolds

\* A request is about to write what its handler accepts.
LEMMA WritesFitHolds == AccessIInv /\ WritesFit /\ [AccessNext]_accessVars => WritesFit'
<1> SUFFICES ASSUME AccessIInv, WritesFit, [AccessNext]_accessVars PROVE WritesFit'
  OBVIOUS
<1>1. ASSUME NEW a \in Admins, NEW next, admin' = [admin EXCEPT ![a] = next],
             next.pc = "write" => next.change \in Changes
      PROVE  WritesFit'
  BY <1>1 DEF WritesFit, AccessIInv, AccessTypeOK
<1>2. CASE UNCHANGED admin
  BY <1>2 DEF WritesFit
<1>3. AtRest.pc = "idle"
  BY DEF AtRest
<1>4. ASSUME NEW a \in Admins, AdminStep(a) PROVE WritesFit'
  <2>1. ASSUME NEW who \in Accounts, NEW u \in Accounts, NEW b \in BOOLEAN, CreateUser(a, who, u, b)
        PROVE  WritesFit'
    BY <1>1, <2>1 DEF CreateUser, Proceed
  <2>2. ASSUME NEW who \in Accounts, NEW u \in Accounts, NEW change \in Changes,
               Administer(a, who, u, change)
        PROVE  WritesFit'
    BY <1>1, <2>2 DEF Administer, Proceed
  <2>3. ASSUME NEW who \in Accounts, NEW u \in Accounts, DeleteUser(a, who, u) PROVE WritesFit'
    BY <1>1, <2>3 DEF DeleteUser, Proceed
  <2>4. CASE CreateProfile(a) \/ RevokeUserTokens(a) \/ HangsUp(a)
    BY <1>1, <1>3, <2>4 DEF CreateProfile, RevokeUserTokens, HangsUp, Proceed
  <2>5. ASSUME admin[a] \in Changing,
               admin' = [admin EXCEPT ![a] = [admin[a] EXCEPT !.pc = "forget"]] \/
               admin' = [admin EXCEPT ![a] = [admin[a] EXCEPT !.pc = "revoke"]]
        PROVE  WritesFit'
    BY <2>5 DEF WritesFit, Changing, AccessIInv, AccessTypeOK
  <2>6. CASE WriteChange(a)
    BY <1>1, <1>3, <2>5, <2>6, AdminTyped DEF WriteChange, Proceed
  <2>7. CASE ForgetUser(a)
    BY <1>1, <1>3, <2>5, <2>7, AdminTyped DEF ForgetUser, Proceed
  <2>8. CASE DeleteUserRow(a)
    BY <2>5, <2>8, AdminTyped DEF DeleteUserRow, Proceed
  <2> QED  BY <1>4, <2>1, <2>2, <2>3, <2>4, <2>6, <2>7, <2>8 DEF AdminStep
<1> QED
  BY <1>2, <1>4 DEF AccessNext, accessVars, ClientStep, Verify, CachePut, CacheExpires, Issue, Refresh,
                    RefreshUser, RefreshRotate, Logout

LEMMA AccessStepHolds == AccessIInv /\ WritesFit /\ [AccessNext]_accessVars => AccessIInv'
<1> SUFFICES ASSUME AccessIInv, WritesFit, [AccessNext]_accessVars PROVE AccessIInv'
  OBVIOUS
<1>1. ASSUME NEW c \in Clients, ClientStep(c) PROVE AccessIInv'
  BY <1>1, VerifyHolds, RefreshHolds, CachePutHolds, IssueHolds, RefreshStepsHold DEF ClientStep
<1>2. ASSUME NEW a \in Admins, AdminStep(a) PROVE AccessIInv'
  BY <1>2, CreateUserHolds, AdministerHolds, CreateProfileHolds, WriteChangeHolds, ForgetUserHolds,
     RevokeUserTokensHolds, DeleteUserRowHolds, HangsUpHolds DEF AdminStep
<1>3. CASE UNCHANGED accessVars
  BY <1>3 DEF accessVars, AccessIInv, AccessTypeOK, TokensFit, Live, Fits, Pending, ClientsFit, ChecksFit,
              RememberedFits, Forgetting, Tells
<1> QED  BY <1>1, <1>2, <1>3, EndsHold DEF AccessNext

\* Whatever clients and any number of administrators do at once, a session, a
\* login under way and a remembered password fit the row of their account, or
\* the change that is about to end them is under way, or they are marked as
\* overtaken.
THEOREM AccessInvariantHolds == AccessSpec => [](AccessIInv /\ WritesFit)
<1>1. AccessInit => AccessIInv /\ WritesFit
  BY AccessInitHolds DEF AccessInit, WritesFit, AtRest
<1>2. AccessIInv /\ WritesFit /\ [AccessNext]_accessVars => (AccessIInv /\ WritesFit)'
  BY AccessStepHolds, WritesFitHolds
<1> QED  BY <1>1, <1>2, PTL DEF AccessSpec

\* Once a change of an account is through, its sessions belong to an enabled
\* account and its password (RevokeUserTokens, RevokeRefreshToken), and what is
\* remembered of its password is its row (InvalidateUser), for any number of
\* accounts, clients and administrators.  It says nothing of a session or a
\* credential whose login, refresh or check was under way during a change, nor
\* of an account whose change was cut short, nor of the permissions of a
\* credential remembered before handleCreateUser wrote the profile.
THEOREM ChangesTakeEffect == AccessSpec => []AccessSound
<1>1. AccessIInv => AccessSound
  <2> SUFFICES ASSUME AccessIInv PROVE SessionsEnd /\ RememberedIsCurrent
    BY DEF AccessSound
  <2>1. AtRest.pc = "idle"
    BY DEF AtRest
  <2>2. \A u : ~UnderChange(u) => ~Forgetting(u) /\ \A kinds : ~Pending(u, kinds)
    BY <2>1 DEF UnderChange, Forgetting, Pending
  <2>3. SessionsEnd
    BY <2>2 DEF AccessIInv, TokensFit, Fits, SessionsEnd, Bearer
  <2>4. RememberedIsCurrent
    BY <2>2 DEF AccessIInv, RememberedFits, RememberedIsCurrent
  <2> QED  BY <2>3, <2>4
<1> QED  BY <1>1, AccessInvariantHolds, PTL

=============================================================================
