----------------------------- MODULE TaskLimiter -----------------------------
(***************************************************************************)
(* The dynamically sized, context-aware FIFO semaphore every transfer goes *)
(* through (internal/drive/limiter.go, taskLimiter).  One step is one      *)
(* critical section of l.mu; a goroutine blocked in acquire's select takes *)
(* its wake-up, or its cancellation, in a later step of its own.           *)
(***************************************************************************)
EXTENDS Integers, Sequences, FiniteSets

CONSTANTS
  Tasks,      \* goroutines that call acquire
  MaxLimit    \* largest configured limit

ASSUME TasksAssumption == IsFiniteSet(Tasks)
ASSUME MaxLimitAssumption == MaxLimit \in Nat \ {0}

VARIABLES
  limit,      \* taskLimiter.limit
  active,     \* taskLimiter.active
  queue,      \* taskLimiter.queue, the tasks whose waiters are in it
  st,         \* where each task is, see States
  ctxDone     \* whether the context a task passed to acquire is done

vars == <<limit, active, queue, st, ctxDone>>

\* idle: not in acquire.  waiting: blocked in the select, its waiter queued.
\* granted: its waiter was granted (ready closed), the goroutine has not run yet.
\* held: acquire returned the release function.  released: that function's
\* sync.Once has fired, the caller still has the function.
States == {"idle", "waiting", "granted", "held", "released"}

Owners == {t \in Tasks : st[t] \in {"granted", "held"}}
Waiters == {queue[i] : i \in 1..Len(queue)}
Callable == {"idle", "released"}

Clamp(n) == IF n < 1 THEN 1 ELSE n

Init ==
  /\ limit \in 1..MaxLimit
  /\ active = 0
  /\ queue = <<>>
  /\ st = [t \in Tasks |-> "idle"]
  /\ ctxDone = [t \in Tasks |-> FALSE]

------------------------------------------------------------------------------
\* The loop stops one short of the limit.
Room_OneShort(lim, a, q) ==
  IF a >= lim - 1 THEN 0 ELSE IF lim - 1 - a <= Len(q) THEN lim - 1 - a ELSE Len(q)

\* How many waiters dispatchLocked pops from q with a slots active under lim.
\* A cancelled waiter leaves the queue in the critical section that marks it,
\* so the loop never meets one.
Room(lim, a, q) ==
  IF a >= lim THEN 0 ELSE IF lim - a <= Len(q) THEN lim - a ELSE Len(q)

\* The queue is served from its tail.
Dispatch_Lifo(lim, a, q, s) ==
  LET k == Room(lim, a, q)
      admitted == {q[i] : i \in (Len(q) - k + 1)..Len(q)}
  IN  /\ active' = a + k
      /\ queue' = SubSeq(q, 1, Len(q) - k)
      /\ st' = [t \in Tasks |-> IF t \in admitted THEN "granted" ELSE s[t]]

\* dispatchLocked run on limit lim, a active slots, queue q and states s.
Dispatch(lim, a, q, s) ==
  LET k == Room(lim, a, q)
      admitted == {q[i] : i \in 1..k}
  IN  /\ active' = a + k
      /\ queue' = SubSeq(q, k + 1, Len(q))
      /\ st' = [t \in Tasks |-> IF t \in admitted THEN "granted" ELSE s[t]]

\* q with its i-th waiter taken out, as the copy in acquire does it.
RemoveAtIndex(q, i) ==
  [j \in 1..(Len(q) - 1) |-> IF j < i THEN q[j] ELSE q[j + 1]]

\* The waiter that gave up stays queued.
Without_Keeps(q, t) == q

Without(q, t) ==
  IF \E i \in 1..Len(q) : q[i] = t
    THEN RemoveAtIndex(q, CHOOSE i \in 1..Len(q) : q[i] = t)
    ELSE q

------------------------------------------------------------------------------
\* The limit is changed and nobody is dispatched.
SetLimit_NoDispatch(n) ==
  LET new == Clamp(n) IN
  /\ new # limit
  /\ limit' = new
  /\ UNCHANGED <<active, queue, st, ctxDone>>

\* A limit of the settings, applied by syncLimiter.
SetLimit(n) ==
  LET new == Clamp(n) IN
  /\ new # limit
  /\ limit' = new
  /\ Dispatch(new, active, queue, st)
  /\ UNCHANGED ctxDone

\* The check for a free slot is one too generous.
Acquire_OffByOne(t) ==
  /\ st[t] \in Callable
  /\ ~ctxDone[t]
  /\ IF active <= limit /\ queue = <<>>
       THEN /\ active' = active + 1
            /\ st' = [st EXCEPT ![t] = "held"]
            /\ UNCHANGED queue
       ELSE /\ queue' = Append(queue, t)
            /\ st' = [st EXCEPT ![t] = "waiting"]
            /\ UNCHANGED active
  /\ UNCHANGED <<limit, ctxDone>>

\* acquire up to its select.  The context is alive: acquire returns at once
\* with ctx.Err() otherwise, changing nothing.
Acquire(t) ==
  /\ st[t] \in Callable
  /\ ~ctxDone[t]
  /\ IF active < limit /\ queue = <<>>
       THEN /\ active' = active + 1
            /\ st' = [st EXCEPT ![t] = "held"]
            /\ UNCHANGED queue
       ELSE /\ queue' = Append(queue, t)
            /\ st' = [st EXCEPT ![t] = "waiting"]
            /\ UNCHANGED active
  /\ UNCHANGED <<limit, ctxDone>>

\* acquire is called with a dead context: the error returns, the caller is
\* done with that context.
AcquireRefused(t) ==
  /\ st[t] \in Callable
  /\ ctxDone[t]
  /\ ctxDone' = [ctxDone EXCEPT ![t] = FALSE]
  /\ UNCHANGED <<limit, active, queue, st>>

\* The request a task serves goes away.
CtxDone(t) ==
  /\ ~ctxDone[t]
  /\ ctxDone' = [ctxDone EXCEPT ![t] = TRUE]
  /\ UNCHANGED <<limit, active, queue, st>>

\* The select takes the ready case, which it may do with the context done too.
Wake(t) ==
  /\ st[t] = "granted"
  /\ st' = [st EXCEPT ![t] = "held"]
  /\ UNCHANGED <<limit, active, queue, ctxDone>>

\* A grant that raced the cancellation is forgotten.
Cancel_LeakGrant(t) ==
  /\ ctxDone[t]
  /\ st[t] \in {"granted", "waiting"}
  /\ Dispatch(limit, active, Without(queue, t), [st EXCEPT ![t] = "idle"])
  /\ ctxDone' = [ctxDone EXCEPT ![t] = FALSE]
  /\ UNCHANGED limit

\* The select takes the ctx.Done case: a slot granted meanwhile is returned,
\* otherwise the waiter leaves the queue.
Cancel(t) ==
  /\ ctxDone[t]
  /\ \/ /\ st[t] = "granted"
        /\ Dispatch(limit, active - 1, queue, [st EXCEPT ![t] = "idle"])
     \/ /\ st[t] = "waiting"
        /\ Dispatch(limit, active, Without(queue, t), [st EXCEPT ![t] = "idle"])
  /\ ctxDone' = [ctxDone EXCEPT ![t] = FALSE]
  /\ UNCHANGED limit

\* The function acquire returned, called once or again: sync.Once lets only
\* the first call reach release.
Release(t) ==
  \/ /\ st[t] = "held"
     /\ Dispatch(limit, IF active > 0 THEN active - 1 ELSE active, queue,
                 [st EXCEPT ![t] = "released"])
     /\ ctxDone' = [ctxDone EXCEPT ![t] = FALSE]
     /\ UNCHANGED limit
  \/ /\ st[t] = "released"
     /\ UNCHANGED vars

Next ==
  \/ \E n \in 0..MaxLimit : SetLimit(n)
  \/ \E t \in Tasks :
       \/ Acquire(t) \/ AcquireRefused(t) \/ CtxDone(t)
       \/ Wake(t) \/ Cancel(t) \/ Release(t)

\* A goroutine whose select can proceed is scheduled, and a transfer that owns
\* a slot ends: every caller of acquire defers the release function.
Fairness ==
  \A t \in Tasks : /\ WF_vars(Wake(t) \/ Cancel(t))
                   /\ WF_vars(st[t] = "held" /\ Release(t))

Spec == Init /\ [][Next]_vars

FairSpec == Spec /\ Fairness

------------------------------------------------------------------------------
TypeOK ==
  /\ limit \in 1..MaxLimit
  /\ active \in Nat
  /\ queue \in Seq(Tasks)
  /\ st \in [Tasks -> States]
  /\ ctxDone \in [Tasks -> BOOLEAN]

\* The counter says exactly how many tasks own a slot, through every race of a
\* grant with a cancellation: a slot is neither leaked nor given back twice.
SlotAccounting == active = Cardinality(Owners)

\* The queue holds each blocked task exactly once and nobody else: no waiter is
\* lost by a removal from the middle, none stays after it gave up.
QueueExact ==
  /\ Waiters = {t \in Tasks : st[t] = "waiting"}
  /\ \A i, j \in 1..Len(queue) : queue[i] = queue[j] => i = j

\* Nobody waits while a slot is free: every path that frees one dispatches.
WorkConserving == queue # <<>> => active >= limit

\* The limit bounds admission: a step that raises the number of owners leaves
\* it within the limit (lowering the limit may leave it above, never push it up).
AdmissionBounded == [][active' > active => active' <= limit']_vars

Ahead(t, u) == \E i, j \in 1..Len(queue) : i < j /\ queue[i] = t /\ queue[j] = u

\* FIFO: a task gets its slot in a step only if nobody who was queued before it
\* (everybody queued, for a newcomer) is still waiting after the step.
NoOvertaking ==
  [][\A u \in Tasks :
       (u \notin Owners /\ u \in Owners') =>
         \A t \in Waiters : (Ahead(t, u) \/ u \notin Waiters) => t \notin Waiters']_vars

\* A task blocked in acquire gets a slot or gives up: nobody starves while
\* holders eventually release.
WaiterServed == \A t \in Tasks : st[t] = "waiting" ~> st[t] # "waiting"

\* What the limiter promises, see Admission.
Promise == INSTANCE Admission WITH cap <- limit, owners <- Owners
PromiseSpec == Promise!Spec
==============================================================================
