------------------------------ MODULE SlotProofs ------------------------------
(***************************************************************************)
(* Proofs about the slots of transfers: the queue for them (TaskLimiter),  *)
(* for every set of tasks and every limit; the leases that share one among *)
(* the segment requests of an upload (UploadLease), for every set of       *)
(* requests and closers, every number of segments and any number of leases;*)
(* and the settings that say how many there are (Settings), for every set  *)
(* of callers and accounts, every environment and every set of updates.    *)
(***************************************************************************)
EXTENDS TaskLimiter, UploadLease, Settings, FiniteSetTheorems, SequenceTheorems, TLAPS

(***************************************************************************)
(* TaskLimiter.                                                            *)
(***************************************************************************)

\* The inductive invariant: the counter, the queue and the task states agree,
\* and no slot is free while a task waits.
IInv == TypeOK /\ QueueExact /\ SlotAccounting /\ WorkConserving

\* The same facts about the values a critical section hands to dispatchLocked,
\* which may have a free slot in front of a queue: that is what it repairs.
Consistent(a, q, s) ==
  /\ a \in Nat
  /\ q \in Seq(Tasks)
  /\ s \in [Tasks -> States]
  /\ {q[i] : i \in 1..Len(q)} = {t \in Tasks : s[t] = "waiting"}
  /\ \A i, j \in 1..Len(q) : q[i] = q[j] => i = j
  /\ a = Cardinality({t \in Tasks : s[t] \in {"granted", "held"}})

\* A duplicate-free prefix of a sequence has as many elements as positions.
LEMMA PrefixCardinality ==
  ASSUME NEW q \in Seq(Tasks), NEW k \in 0..Len(q),
         \A i, j \in 1..Len(q) : q[i] = q[j] => i = j
  PROVE  LET A == {q[i] : i \in 1..k}
         IN  IsFiniteSet(A) /\ Cardinality(A) = k
  <1> DEFINE A == {q[i] : i \in 1..k}
             f == [i \in 1..k |-> q[i]]
  <1>1. f \in Bijection(1..k, A)
    <2>1. f \in [1..k -> A]
      OBVIOUS
    <2>2. \A i, j \in 1..k : f[i] = f[j] => i = j
      OBVIOUS
    <2>3. \A x \in A : \E i \in 1..k : f[i] = x
      OBVIOUS
    <2>4. QED
      BY <2>1, <2>2, <2>3 DEF Bijection, Injection, Surjection, IsInjective
  <1>2. k \in Nat
    OBVIOUS
  <1> HIDE DEF A, f
  <1>3. ExistsBijection(1..k, A)
    BY <1>1, Zenon DEF ExistsBijection
  <1>4. IsFiniteSet(1..k)
    BY <1>2, FS_Interval
  <1>5. IsFiniteSet(A) /\ Cardinality(A) = k
    BY <1>2, <1>3, <1>4, FS_CountingElements, FS_Bijection
  <1>6. QED
    BY <1>5 DEF A

\* Every subset of the tasks is finite.
LEMMA FiniteTasks ==
  ASSUME NEW S, S \subseteq Tasks
  PROVE  IsFiniteSet(S) /\ Cardinality(S) \in Nat
  BY TasksAssumption, FS_Subset, FS_CardinalityType

\* dispatchLocked turns consistent values into a state with no free slot in
\* front of a waiting task.
LEMMA DispatchRestores ==
  ASSUME NEW lim \in 1..MaxLimit, NEW a, NEW q, NEW s,
         Consistent(a, q, s), Dispatch(lim, a, q, s)
  PROVE  /\ Consistent(active', queue', st')
         /\ queue' # <<>> => active' >= lim
         /\ active' > a => active' <= lim
         /\ \E S \in SUBSET Tasks :
              LET Own == {t \in Tasks : s[t] \in {"granted", "held"}}
              IN  /\ S \cap Own = {}
                  /\ S # {} => Cardinality(Own \cup S) <= lim
                  /\ Owners' = Own \cup S
  <1> DEFINE k == Room(lim, a, q)
             A == {q[i] : i \in 1..k}
             Own == {t \in Tasks : s[t] \in {"granted", "held"}}
             Own1 == {t \in Tasks : st'[t] \in {"granted", "held"}}
  <1>1. /\ k \in 0..Len(q)
        /\ k > 0 => a + k <= lim
        /\ k < Len(q) => a + k >= lim
    BY MaxLimitAssumption DEF Room, Consistent
  <1>2. /\ active' = a + k
        /\ queue' = SubSeq(q, k + 1, Len(q))
        /\ st' = [t \in Tasks |-> IF t \in A THEN "granted" ELSE s[t]]
    BY DEF Dispatch
  <1> HIDE DEF k
  <1>3. /\ queue' \in Seq(Tasks)
        /\ Len(queue') = Len(q) - k
        /\ \A i \in 1..Len(queue') : queue'[i] = q[i + k]
    BY <1>1, <1>2, SubSeqProperties DEF Consistent
  <1>4. st' \in [Tasks -> States]
    BY <1>2 DEF Consistent, States
  <1>5. ASSUME NEW i \in 1..Len(queue'), NEW j \in 1..Len(queue'),
               queue'[i] = queue'[j]
        PROVE  i = j
    <2>1. i + k \in 1..Len(q) /\ j + k \in 1..Len(q) /\ q[i + k] = q[j + k]
      BY <1>1, <1>3, <1>5 DEF Consistent
    <2>2. i + k = j + k
      BY <2>1 DEF Consistent
    <2>3. QED
      BY <1>1, <2>2
  <1>6. A \subseteq Tasks /\ A \cap Own = {}
    BY <1>1, SMTT(60) DEF Consistent
  <1>7. {queue'[i] : i \in 1..Len(queue')} = {t \in Tasks : st'[t] = "waiting"}
    <2>1. ASSUME NEW i \in 1..Len(queue')
          PROVE  queue'[i] \in Tasks /\ st'[queue'[i]] = "waiting"
      <3>1. i + k \in 1..Len(q) /\ queue'[i] = q[i + k]
        BY <1>1, <1>3
      <3>2. q[i + k] \in Tasks /\ s[q[i + k]] = "waiting"
        BY <3>1 DEF Consistent
      <3>3. q[i + k] \notin A
        BY <1>1, <3>1 DEF Consistent
      <3>4. QED
        BY <1>2, <3>1, <3>2, <3>3
    <2>2. ASSUME NEW t \in Tasks, st'[t] = "waiting"
          PROVE  \E i \in 1..Len(queue') : queue'[i] = t
      <3>1. t \notin A /\ s[t] = "waiting"
        BY <1>2, <2>2
      <3>2. PICK i \in 1..Len(q) : q[i] = t
        BY <3>1 DEF Consistent
      <3>3. i \notin 1..k
        BY <3>1, <3>2
      <3>4. i - k \in 1..Len(queue') /\ queue'[i - k] = q[i]
        BY <1>1, <1>3, <3>3 DEF Consistent
      <3>5. QED
        BY <3>2, <3>4
    <2>3. QED
      BY <2>1, <2>2
  <1>8. active' = Cardinality(Own1)
    <2>1. Own1 = Own \cup A
      BY <1>2, <1>6
    <2>2. IsFiniteSet(A) /\ Cardinality(A) = k
      BY <1>1, PrefixCardinality DEF Consistent
    <2>3. IsFiniteSet(Own) /\ Cardinality(Own) = a
      BY FiniteTasks DEF Consistent
    <2>4. Cardinality(Own \cap A) = 0
      BY <1>6, FS_EmptySet
    <2> HIDE DEF A, Own, Own1
    <2>5. Cardinality(Own \cup A) = a + k - 0
      BY <2>2, <2>3, <2>4, FS_Union
    <2>6. QED
      BY <1>1, <1>2, <2>1, <2>5 DEF Consistent
  <1>9. active' \in Nat
    BY <1>1, <1>2 DEF Consistent
  <1>10. queue' # <<>> => active' >= lim
    BY <1>1, <1>2, <1>3, EmptySeq
  <1>11. Consistent(active', queue', st')
    BY <1>3, <1>4, <1>5, <1>7, <1>8, <1>9 DEF Consistent
  <1>12. active' > a => active' <= lim
    BY <1>1, <1>2 DEF Consistent
  <1>13. /\ A \in SUBSET Tasks
         /\ A \cap Own = {}
         /\ A # {} => Cardinality(Own \cup A) <= lim
         /\ Owners' = Own \cup A
    <2>1. Own1 = Own \cup A /\ Owners' = Own1
      BY <1>2, <1>6 DEF Owners
    <2>2. A # {} => k > 0
      BY <1>1
    <2>3. k > 0 => active' <= lim
      BY <1>1, <1>2, <1>12 DEF Consistent
    <2>4. QED
      BY <1>6, <1>8, <2>1, <2>2, <2>3
  <1>14. QED
    BY <1>10, <1>11, <1>12, <1>13

\* Taking a queued task out of the queue leaves every other waiter in it.
LEMMA WithoutProperties ==
  ASSUME NEW q \in Seq(Tasks), NEW t \in {q[i] : i \in 1..Len(q)},
         \A i, j \in 1..Len(q) : q[i] = q[j] => i = j
  PROVE  LET w == Without(q, t)
         IN  /\ w \in Seq(Tasks)
             /\ {w[i] : i \in 1..Len(w)} = {q[i] : i \in 1..Len(q)} \ {t}
             /\ \A i, j \in 1..Len(w) : w[i] = w[j] => i = j
  <1> DEFINE n == CHOOSE i \in 1..Len(q) : q[i] = t
             w == Without(q, t)
  <1>1. n \in 1..Len(q) /\ q[n] = t
    OBVIOUS
  <1>2. w = RemoveAtIndex(q, n)
    BY DEF Without
  <1>3. w = [j \in 1..(Len(q) - 1) |-> IF j < n THEN q[j] ELSE q[j + 1]]
    BY <1>2 DEF RemoveAtIndex
  <1> HIDE DEF n, w
  <1>4. Len(q) \in Nat /\ Len(q) - 1 \in Nat
    BY <1>1
  <1>5. w \in Seq(Tasks) /\ Len(w) = Len(q) - 1
    BY <1>1, <1>3, <1>4, IsASeq
  <1>6. \A i, j \in 1..Len(w) : w[i] = w[j] => i = j
    BY <1>1, <1>3, <1>5
  <1>7. {w[i] : i \in 1..Len(w)} = {q[i] : i \in 1..Len(q)} \ {t}
    <2>1. ASSUME NEW i \in 1..Len(w)
          PROVE  w[i] # t /\ \E j \in 1..Len(q) : w[i] = q[j]
      BY <1>1, <1>3, <1>5
    <2>2. ASSUME NEW j \in 1..Len(q), q[j] # t
          PROVE  \E i \in 1..Len(w) : w[i] = q[j]
      <3>1. CASE j < n
        BY <1>1, <1>3, <1>5, <3>1
      <3>2. CASE j > n
        <4>1. j - 1 \in 1..Len(w) /\ w[j - 1] = q[j]
          BY <1>1, <1>3, <1>5, <3>2
        <4>2. QED
          BY <4>1
      <3>3. QED
        BY <1>1, <2>2, <3>1, <3>2
    <2>3. \A x : x \in {w[i] : i \in 1..Len(w)} <=> x \in {q[i] : i \in 1..Len(q)} \ {t}
      BY <2>1, <2>2
    <2>4. QED
      BY <2>3, Zenon
  <1>8. QED
    BY <1>5, <1>6, <1>7 DEF w

\* The invariant says the current values are consistent.
LEMMA IInvConsistent == TypeOK => (IInv <=> Consistent(active, queue, st) /\ WorkConserving)
  BY DEF IInv, TypeOK, QueueExact, SlotAccounting, Consistent, Waiters, Owners

\* The parts of the invariant an action has to re-establish.
LEMMA FromConsistent ==
  ASSUME limit' \in 1..MaxLimit, ctxDone' \in [Tasks -> BOOLEAN],
         Consistent(active', queue', st'), queue' # <<>> => active' >= limit'
  PROVE  IInv'
  BY DEF IInv, TypeOK, QueueExact, SlotAccounting, WorkConserving, Consistent,
         Waiters, Owners

\* Giving a task that owns a slot a state that owns none frees exactly one slot.
LEMMA LeaveConsistent ==
  ASSUME Consistent(active, queue, st), NEW t \in Owners,
         NEW x \in {"idle", "released"}
  PROVE  active > 0 /\ Consistent(active - 1, queue, [st EXCEPT ![t] = x])
  <1> DEFINE s == [st EXCEPT ![t] = x]
             Own1 == {u \in Tasks : s[u] \in {"granted", "held"}}
  <1>1. t \in Tasks /\ st[t] \in {"granted", "held"}
    BY DEF Owners
  <1>2. s \in [Tasks -> States]
    BY <1>1 DEF Consistent, States
  <1>3. {u \in Tasks : s[u] = "waiting"} = {u \in Tasks : st[u] = "waiting"}
    BY <1>1 DEF Consistent
  <1>4. Own1 = Owners \ {t}
    BY <1>1 DEF Consistent, Owners
  <1>5. IsFiniteSet(Owners) /\ active = Cardinality(Owners)
    BY FiniteTasks DEF Consistent, Owners
  <1>6. Cardinality(Own1) = active - 1
    BY <1>1, <1>4, <1>5, FS_RemoveElement
  <1>7. Cardinality(Own1) \in Nat
    BY FiniteTasks
  <1>8. QED
    BY <1>2, <1>3, <1>6, <1>7 DEF Consistent

\* A queued task that gives up leaves consistent values behind.
LEMMA QuitConsistent ==
  ASSUME Consistent(active, queue, st), NEW t \in Tasks, st[t] = "waiting"
  PROVE  Consistent(active, Without(queue, t), [st EXCEPT ![t] = "idle"])
  <1> DEFINE s == [st EXCEPT ![t] = "idle"]
             w == Without(queue, t)
  <1>1. t \in {queue[i] : i \in 1..Len(queue)}
    BY DEF Consistent
  <1>2. /\ w \in Seq(Tasks)
        /\ {w[i] : i \in 1..Len(w)} = {queue[i] : i \in 1..Len(queue)} \ {t}
        /\ \A i, j \in 1..Len(w) : w[i] = w[j] => i = j
    BY <1>1, WithoutProperties DEF Consistent
  <1>3. s \in [Tasks -> States]
    BY DEF Consistent, States
  <1>4. {u \in Tasks : s[u] = "waiting"} = {u \in Tasks : st[u] = "waiting"} \ {t}
    BY DEF Consistent
  <1>5. {u \in Tasks : s[u] \in {"granted", "held"}}
          = {u \in Tasks : st[u] \in {"granted", "held"}}
    BY DEF Consistent
  <1> HIDE DEF w, s
  <1>6. QED
    BY <1>2, <1>3, <1>4, <1>5 DEF Consistent, w, s

\* Every step preserves the invariant.
LEMMA NextInv == IInv /\ [Next]_vars => IInv'
  <1> SUFFICES ASSUME IInv, [Next]_vars PROVE IInv'
    OBVIOUS
  <1>1. TypeOK /\ Consistent(active, queue, st) /\ WorkConserving
    BY IInvConsistent DEF IInv
  <1>2. ASSUME NEW n \in 0..MaxLimit, SetLimit(n) PROVE IInv'
    <2>1. limit' \in 1..MaxLimit
      BY <1>2, MaxLimitAssumption DEF SetLimit, Clamp
    <2>2. Dispatch(limit', active, queue, st) /\ ctxDone' = ctxDone
      BY <1>2 DEF SetLimit
    <2>3. QED
      BY <1>1, <2>1, <2>2, DispatchRestores, FromConsistent DEF TypeOK
  <1>3. ASSUME NEW t \in Tasks, Acquire(t) PROVE IInv'
    <2>1. limit' = limit /\ ctxDone' = ctxDone /\ st[t] \in Callable
      BY <1>3 DEF Acquire
    <2>2. CASE active < limit /\ queue = <<>>
      <3>1. active' = active + 1 /\ queue' = queue /\ st' = [st EXCEPT ![t] = "held"]
        BY <1>3, <2>2 DEF Acquire
      <3>2. Owners' = Owners \cup {t} /\ t \notin Owners
        BY <1>1, <2>1, <3>1 DEF TypeOK, Owners, Callable
      <3>3. IsFiniteSet(Owners) /\ Cardinality(Owners') = Cardinality(Owners) + 1
        BY <3>2, FiniteTasks, FS_AddElement DEF Owners
      <3>4. {u \in Tasks : st'[u] = "waiting"} = {u \in Tasks : st[u] = "waiting"}
        BY <1>1, <2>1, <3>1 DEF TypeOK, Callable
      <3>5. st' \in [Tasks -> States]
        BY <1>1, <3>1 DEF TypeOK, States
      <3>6. Consistent(active', queue', st')
        BY <1>1, <3>1, <3>3, <3>4, <3>5 DEF Consistent, Owners
      <3>7. QED
        BY <1>1, <2>1, <2>2, <3>1, <3>6, FromConsistent DEF TypeOK
    <2>3. CASE ~(active < limit /\ queue = <<>>)
      <3>1. active' = active /\ queue' = Append(queue, t) /\ st' = [st EXCEPT ![t] = "waiting"]
        BY <1>3, <2>3 DEF Acquire
      <3>2. /\ queue' \in Seq(Tasks) /\ Len(queue') = Len(queue) + 1
            /\ \A i \in 1..Len(queue) : queue'[i] = queue[i]
            /\ queue'[Len(queue) + 1] = t
        BY <1>1, <3>1, AppendProperties DEF Consistent
      <3>3. t \notin {queue[i] : i \in 1..Len(queue)}
        BY <1>1, <2>1 DEF Consistent, Callable
      <3>4. {queue'[i] : i \in 1..Len(queue')} = {queue[i] : i \in 1..Len(queue)} \cup {t}
        <4>1. Len(queue) \in Nat
          BY <1>1, LenProperties DEF Consistent
        <4>2. 1..Len(queue') = 1..Len(queue) \cup {Len(queue) + 1}
          BY <3>2, <4>1
        <4>3. QED
          BY <3>2, <4>2
      <3>5. \A i, j \in 1..Len(queue') : queue'[i] = queue'[j] => i = j
        BY <1>1, <3>2, <3>3, LenProperties DEF Consistent
      <3>6. {u \in Tasks : st'[u] = "waiting"} = {u \in Tasks : st[u] = "waiting"} \cup {t}
        BY <1>1, <3>1 DEF TypeOK
      <3>7. {u \in Tasks : st'[u] \in {"granted", "held"}}
              = {u \in Tasks : st[u] \in {"granted", "held"}}
        BY <1>1, <2>1, <3>1 DEF TypeOK, Callable
      <3>8. st' \in [Tasks -> States]
        BY <1>1, <3>1 DEF TypeOK, States
      <3>9. Consistent(active', queue', st')
        BY <1>1, <3>1, <3>2, <3>4, <3>5, <3>6, <3>7, <3>8 DEF Consistent
      <3>10. active' >= limit'
        BY <1>1, <2>1, <2>3, <3>1 DEF WorkConserving, TypeOK
      <3>11. QED
        BY <1>1, <2>1, <3>9, <3>10, FromConsistent DEF TypeOK
    <2>4. QED
      BY <2>2, <2>3
  <1>4. ASSUME NEW t \in Tasks, AcquireRefused(t) \/ CtxDone(t) PROVE IInv'
    <2>1. UNCHANGED <<limit, active, queue, st>> /\ ctxDone' \in [Tasks -> BOOLEAN]
      BY <1>1, <1>4 DEF AcquireRefused, CtxDone, TypeOK
    <2>2. QED
      BY <1>1, <2>1, FromConsistent DEF TypeOK, WorkConserving
  <1>5. ASSUME NEW t \in Tasks, Wake(t) PROVE IInv'
    <2>1. /\ limit' = limit /\ active' = active /\ queue' = queue /\ ctxDone' = ctxDone
          /\ st[t] = "granted" /\ st' = [st EXCEPT ![t] = "held"]
      BY <1>5 DEF Wake
    <2>2. /\ {u \in Tasks : st'[u] = "waiting"} = {u \in Tasks : st[u] = "waiting"}
          /\ {u \in Tasks : st'[u] \in {"granted", "held"}}
               = {u \in Tasks : st[u] \in {"granted", "held"}}
          /\ st' \in [Tasks -> States]
      BY <1>1, <2>1 DEF TypeOK, States
    <2>3. Consistent(active', queue', st')
      <3>1. active = Cardinality({u \in Tasks : st'[u] \in {"granted", "held"}})
        BY <1>1, <2>2, Zenon DEF Consistent
      <3>2. {queue[i] : i \in 1..Len(queue)} = {u \in Tasks : st'[u] = "waiting"}
        BY <1>1, <2>2, Zenon DEF Consistent
      <3>3. QED
        BY <1>1, <2>1, <2>2, <3>1, <3>2 DEF Consistent
    <2>4. QED
      BY <1>1, <2>1, <2>3, FromConsistent DEF TypeOK, WorkConserving
  <1>6. ASSUME NEW t \in Tasks, Cancel(t) PROVE IInv'
    <2>1. limit' = limit /\ ctxDone' \in [Tasks -> BOOLEAN]
      BY <1>1, <1>6 DEF Cancel, TypeOK
    <2>2. PICK a, q : /\ Consistent(a, q, [st EXCEPT ![t] = "idle"])
                      /\ Dispatch(limit, a, q, [st EXCEPT ![t] = "idle"])
      <3>1. CASE st[t] = "granted"
        <4>1. Dispatch(limit, active - 1, queue, [st EXCEPT ![t] = "idle"])
          BY <1>6, <3>1 DEF Cancel
        <4>2. t \in Owners
          BY <3>1 DEF Owners
        <4>3. QED
          BY <1>1, <4>1, <4>2, LeaveConsistent
      <3>2. CASE st[t] = "waiting"
        BY <1>1, <1>6, <3>2, QuitConsistent DEF Cancel
      <3>3. QED
        BY <1>6, <3>1, <3>2 DEF Cancel
    <2>3. QED
      BY <1>1, <2>1, <2>2, DispatchRestores, FromConsistent DEF TypeOK
  <1>7. ASSUME NEW t \in Tasks, Release(t) PROVE IInv'
    <2>1. CASE st[t] = "held"
      <3>1. limit' = limit /\ ctxDone' \in [Tasks -> BOOLEAN]
        BY <1>1, <1>7, <2>1 DEF Release, TypeOK
      <3>2. t \in Owners
        BY <2>1 DEF Owners
      <3>3. active > 0 /\ Consistent(active - 1, queue, [st EXCEPT ![t] = "released"])
        BY <1>1, <3>2, LeaveConsistent
      <3>4. Dispatch(limit, active - 1, queue, [st EXCEPT ![t] = "released"])
        BY <1>7, <2>1, <3>3 DEF Release
      <3>5. QED
        BY <1>1, <3>1, <3>3, <3>4, DispatchRestores, FromConsistent DEF TypeOK
    <2>2. CASE st[t] = "released"
      <3>1. UNCHANGED vars
        BY <1>7, <2>2 DEF Release
      <3>2. QED
        BY <1>1, <3>1, FromConsistent DEF TypeOK, WorkConserving, vars
    <2>3. QED
      BY <1>7, <2>1, <2>2 DEF Release
  <1>8. CASE UNCHANGED vars
    BY <1>1, <1>8, FromConsistent DEF TypeOK, WorkConserving, vars
  <1>9. QED
    BY <1>2, <1>3, <1>4, <1>5, <1>6, <1>7, <1>8 DEF Next

\* The limiter starts in a state of the invariant.
LEMMA InitInv == Init => IInv
  <1> SUFFICES ASSUME Init PROVE IInv
    OBVIOUS
  <1>1. Owners = {} /\ queue = <<>> /\ active = 0
    BY DEF Init, Owners
  <1>2. SlotAccounting
    BY <1>1, FS_EmptySet DEF SlotAccounting
  <1>3. QueueExact
    BY <1>1 DEF Init, QueueExact, Waiters
  <1>4. TypeOK
    BY MaxLimitAssumption DEF Init, TypeOK, States
  <1>5. QED
    BY <1>1, <1>2, <1>3, <1>4 DEF IInv, WorkConserving

\* Cardinality means in Admission what it means here.
LEMMA SameCardinality == \A S : Promise!Cardinality(S) = Cardinality(S)
  BY DEF Promise!Cardinality, Cardinality

\* Every step is a step of Admission or leaves it alone.
LEMMA NextRefines == IInv /\ [Next]_vars => [Promise!Next]_<<limit, Owners>>
  <1> SUFFICES ASSUME IInv, [Next]_vars PROVE [Promise!Next]_<<limit, Owners>>
    OBVIOUS
  <1>1. TypeOK /\ Consistent(active, queue, st) /\ WorkConserving
    BY IInvConsistent DEF IInv
  <1>2. ASSUME NEW n \in 0..MaxLimit, SetLimit(n)
        PROVE  Promise!Next
    <2>1. limit' \in 1..MaxLimit
      BY <1>2, MaxLimitAssumption DEF SetLimit, Clamp
    <2>2. Dispatch(limit', active, queue, st)
      BY <1>2 DEF SetLimit
    <2>3. \E S \in SUBSET Tasks : Promise!Resize(limit', S)
      BY <1>1, <2>1, <2>2, DispatchRestores, SameCardinality, ZenonT(60) DEF Promise!Resize, Owners
    <2>4. QED
      BY <2>1, <2>3 DEF Promise!Next
  <1>3. ASSUME NEW t \in Tasks, Acquire(t)
        PROVE  Promise!Next \/ UNCHANGED <<limit, Owners>>
    <2>1. CASE active < limit /\ queue = <<>>
      <3>1. limit' = limit /\ Owners' = Owners \cup {t} /\ t \notin Owners
        BY <1>1, <1>3, <2>1 DEF Acquire, TypeOK, Owners, Callable
      <3>2. Cardinality(Owners \cup {t}) = active + 1
        BY <1>1, <3>1, FiniteTasks, FS_AddElement DEF Owners, Consistent
      <3>3. Promise!Admit({t})
        BY <1>1, <2>1, <3>1, <3>2, SameCardinality DEF Promise!Admit, TypeOK
      <3>4. QED
        BY <3>3 DEF Promise!Next
    <2>2. CASE ~(active < limit /\ queue = <<>>)
      BY <1>1, <1>3, <2>2 DEF Acquire, TypeOK, Owners, Callable
    <2>3. QED
      BY <2>1, <2>2
  <1>4. ASSUME NEW t \in Tasks, AcquireRefused(t) \/ CtxDone(t) \/ Wake(t)
        PROVE  UNCHANGED <<limit, Owners>>
    BY <1>1, <1>4 DEF AcquireRefused, CtxDone, Wake, TypeOK, Owners
  <1>5. ASSUME NEW t \in Owners, NEW x \in {"idle", "released"}, limit' = limit,
               Dispatch(limit, active - 1, queue, [st EXCEPT ![t] = x])
        PROVE  Promise!Next
    <2> DEFINE s == [st EXCEPT ![t] = x]
               Own == {u \in Tasks : s[u] \in {"granted", "held"}}
    <2>1. Consistent(active - 1, queue, s)
      BY <1>1, <1>5, LeaveConsistent
    <2>2. Own = Owners \ {t}
      BY <1>1, <1>5 DEF TypeOK, Owners
    <2>3. PICK S \in SUBSET Tasks : /\ S \cap Own = {}
                                    /\ S # {} => Cardinality(Own \cup S) <= limit
                                    /\ Owners' = Own \cup S
      BY <1>1, <1>5, <2>1, DispatchRestores, ZenonT(60) DEF TypeOK
    <2>4. t \in Tasks
      BY <1>5 DEF Owners
    <2> HIDE DEF Own
    <2>5. CASE t \notin S
      <3>1. Promise!Leave(t, S)
        BY <1>5, <2>2, <2>3, <2>5, SameCardinality DEF Promise!Leave
      <3>2. QED
        BY <2>4, <3>1 DEF Promise!Next
    <2>6. CASE t \in S
      <3>1. st'[t] = x \/ t \in {queue[i] : i \in 1..Len(queue)}
        <4>1. Room(limit, active - 1, queue) \in 0..Len(queue)
          BY <1>1 DEF Room, TypeOK
        <4>2. QED
          BY <1>1, <1>5, <2>4, <4>1 DEF Dispatch, TypeOK
      <3>2. t \notin {queue[i] : i \in 1..Len(queue)}
        BY <1>1, <1>5 DEF Consistent, Owners
      <3>3. t \notin Owners'
        BY <3>1, <3>2 DEF Owners
      <3>4. QED
        BY <2>3, <2>6, <3>3
    <2>7. QED
      BY <2>5, <2>6
  <1>6. ASSUME NEW t \in Tasks, Cancel(t)
        PROVE  Promise!Next \/ UNCHANGED <<limit, Owners>>
    <2>1. limit' = limit
      BY <1>6 DEF Cancel
    <2>2. CASE st[t] = "granted"
      <3>1. Dispatch(limit, active - 1, queue, [st EXCEPT ![t] = "idle"]) /\ t \in Owners
        BY <1>6, <2>2 DEF Cancel, Owners
      <3>2. QED
        BY <1>5, <2>1, <3>1
    <2>3. CASE st[t] = "waiting"
      <3> DEFINE s == [st EXCEPT ![t] = "idle"]
                 Own == {u \in Tasks : s[u] \in {"granted", "held"}}
      <3>1. Dispatch(limit, active, Without(queue, t), s)
        BY <1>6, <2>3 DEF Cancel
      <3>2. Consistent(active, Without(queue, t), s)
        BY <1>1, <2>3, QuitConsistent
      <3>3. Own = Owners
        BY <1>1, <2>3 DEF TypeOK, Owners
      <3> HIDE DEF s
      <3>4. PICK S \in SUBSET Tasks : /\ S \cap Own = {}
                                      /\ S # {} => Cardinality(Own \cup S) <= limit
                                      /\ Owners' = Own \cup S
        <4>1. limit \in 1..MaxLimit
          BY <1>1 DEF TypeOK
        <4>2. QED
          BY <3>1, <3>2, <4>1, DispatchRestores, Zenon
      <3> HIDE DEF Own
      <3>5. CASE S = {}
        BY <2>1, <3>3, <3>4, <3>5
      <3>6. CASE S # {}
        <4>1. Promise!Admit(S)
          BY <2>1, <3>3, <3>4, <3>6, SameCardinality DEF Promise!Admit
        <4>2. QED
          BY <4>1 DEF Promise!Next
      <3>7. QED
        BY <3>5, <3>6
    <2>4. QED
      BY <1>6, <2>2, <2>3 DEF Cancel
  <1>7. ASSUME NEW t \in Tasks, Release(t)
        PROVE  Promise!Next \/ UNCHANGED <<limit, Owners>>
    <2>1. CASE st[t] = "held"
      <3>1. t \in Owners
        BY <2>1 DEF Owners
      <3>2. active > 0
        BY <1>1, <3>1, LeaveConsistent
      <3>3. limit' = limit /\ Dispatch(limit, active - 1, queue, [st EXCEPT ![t] = "released"])
        BY <1>7, <2>1, <3>2 DEF Release
      <3>4. QED
        BY <1>5, <3>1, <3>3
    <2>2. CASE st[t] = "released"
      BY <1>7, <2>2 DEF Release, vars, Owners
    <2>3. QED
      BY <1>7, <2>1, <2>2 DEF Release
  <1>8. CASE UNCHANGED vars
    BY <1>8 DEF vars, Owners
  <1>9. QED
    BY <1>2, <1>3, <1>4, <1>6, <1>7, <1>8 DEF Next

\* The inductive invariant holds in every reachable state.
THEOREM InvariantHolds == Spec => []IInv
  BY InitInv, NextInv, PTL DEF Spec

\* Type correctness of the limiter.
THEOREM TypeCorrect == Spec => []TypeOK
  <1>1. IInv => TypeOK
    BY DEF IInv
  <1>2. QED
    BY <1>1, InvariantHolds, PTL

\* No slot is leaked or returned twice, for every number of tasks and limits.
THEOREM SlotsNeverLeak == Spec => []SlotAccounting
  <1>1. IInv => SlotAccounting
    BY DEF IInv
  <1>2. QED
    BY <1>1, InvariantHolds, PTL

\* No free slot is left in front of a waiting task.
THEOREM NoIdleSlot == Spec => []WorkConserving
  <1>1. IInv => WorkConserving
    BY DEF IInv
  <1>2. QED
    BY <1>1, InvariantHolds, PTL

\* The queue and the blocked tasks always agree.
THEOREM QueueIsExact == Spec => []QueueExact
  <1>1. IInv => QueueExact
    BY DEF IInv
  <1>2. QED
    BY <1>1, InvariantHolds, PTL

\* The limiter implements Admission, for every number of tasks and limits.
THEOREM LimiterKeepsPromise == Spec => PromiseSpec
  <1>1. Init => Promise!Init
    BY DEF Init, Promise!Init, Owners
  <1>2. IInv /\ [Next]_vars => [Promise!Next]_(Promise!avars)
    BY NextRefines DEF Promise!avars
  <1>3. QED
    BY <1>1, <1>2, InvariantHolds, PTL DEF Spec, PromiseSpec, Promise!Spec

\* A step that raises the number of owners leaves it within the limit.
THEOREM AdmissionIsBounded == Spec => AdmissionBounded
  <1>1. IInv /\ [Next]_vars => [active' > active => active' <= limit']_vars
    <2> SUFFICES ASSUME IInv, [Next]_vars, active' > active PROVE active' <= limit'
      OBVIOUS
    <2>1. TypeOK /\ Consistent(active, queue, st)
      BY IInvConsistent DEF IInv
    <2>2. ASSUME NEW n \in 0..MaxLimit, SetLimit(n) PROVE active' <= limit'
      <3>1. limit' \in 1..MaxLimit /\ Dispatch(limit', active, queue, st)
        BY <2>2, MaxLimitAssumption DEF SetLimit, Clamp
      <3>2. QED
        BY <2>1, <3>1, DispatchRestores
    <2>3. ASSUME NEW t \in Tasks, Acquire(t) PROVE active' <= limit'
      BY <2>1, <2>3 DEF Acquire, TypeOK
    <2>4. ASSUME NEW t \in Tasks, AcquireRefused(t) \/ CtxDone(t) \/ Wake(t) PROVE FALSE
      BY <2>1, <2>4 DEF AcquireRefused, CtxDone, Wake, TypeOK
    <2>5. ASSUME NEW t \in Owners, NEW x \in {"idle", "released"},
                 Dispatch(limit, active - 1, queue, [st EXCEPT ![t] = x])
          PROVE  active' <= limit
      <3>1. Consistent(active - 1, queue, [st EXCEPT ![t] = x])
        BY <2>1, <2>5, LeaveConsistent
      <3>2. active' > active - 1
        BY <2>1, <2>5, <3>1 DEF TypeOK, Dispatch, Room
      <3>3. QED
        BY <2>1, <2>5, <3>1, <3>2, DispatchRestores DEF TypeOK
    <2>6. ASSUME NEW t \in Tasks, Cancel(t) PROVE active' <= limit'
      <3>1. CASE st[t] = "granted"
        BY <2>5, <2>6, <3>1 DEF Cancel, Owners
      <3>2. CASE st[t] = "waiting"
        <4>1. /\ Consistent(active, Without(queue, t), [st EXCEPT ![t] = "idle"])
              /\ Dispatch(limit, active, Without(queue, t), [st EXCEPT ![t] = "idle"])
              /\ limit' = limit
          BY <2>1, <2>6, <3>2, QuitConsistent DEF Cancel
        <4>2. QED
          BY <2>1, <4>1, DispatchRestores DEF TypeOK
      <3>3. QED
        BY <2>6, <3>1, <3>2 DEF Cancel
    <2>7. ASSUME NEW t \in Tasks, Release(t) PROVE active' <= limit'
      <3>1. CASE st[t] = "held"
        <4>1. t \in Owners
          BY <3>1 DEF Owners
        <4>2. active > 0
          BY <2>1, <4>1, LeaveConsistent
        <4>3. limit' = limit /\ Dispatch(limit, active - 1, queue, [st EXCEPT ![t] = "released"])
          BY <2>7, <3>1, <4>2 DEF Release
        <4>4. QED
          BY <2>5, <4>1, <4>3
      <3>2. CASE st[t] = "released"
        BY <2>1, <2>7, <3>2 DEF Release, vars, TypeOK
      <3>3. QED
        BY <2>7, <3>1, <3>2 DEF Release
    <2>8. CASE UNCHANGED vars
      BY <2>1, <2>8 DEF vars, TypeOK
    <2>9. QED
      BY <2>2, <2>3, <2>4, <2>6, <2>7, <2>8 DEF Next
  <1>2. QED
    BY <1>1, InvariantHolds, PTL DEF Spec, AdmissionBounded

\* Taking a waiter out of the queue leaves the others in their order.
LEMMA WithoutKeepsOrder ==
  ASSUME NEW q \in Seq(Tasks), NEW t \in {q[m] : m \in 1..Len(q)},
         NEW i \in 1..Len(q), NEW j \in 1..Len(q), i < j, q[i] # t, q[j] # t
  PROVE  LET w == Without(q, t)
         IN  \E x, y \in 1..Len(w) : x < y /\ w[x] = q[i] /\ w[y] = q[j]
  <1> DEFINE n == CHOOSE m \in 1..Len(q) : q[m] = t
             w == Without(q, t)
             x == IF i < n THEN i ELSE i - 1
             y == IF j < n THEN j ELSE j - 1
  <1>1. n \in 1..Len(q) /\ q[n] = t
    OBVIOUS
  <1>2. w = [m \in 1..(Len(q) - 1) |-> IF m < n THEN q[m] ELSE q[m + 1]]
    BY DEF Without, RemoveAtIndex
  <1> HIDE DEF n, w
  <1>3. Len(q) \in Nat /\ Len(q) - 1 \in Nat
    BY <1>1
  <1>4. Len(w) = Len(q) - 1
    <2>1. w \in Seq(Tasks)
      BY <1>1, <1>2, <1>3, IsASeq
    <2>2. QED
      BY <1>2, <1>3, <2>1
  <1>5. i # n /\ j # n
    BY <1>1
  <1>6. x \in 1..Len(w) /\ y \in 1..Len(w) /\ x < y
    BY <1>1, <1>3, <1>4, <1>5
  <1>7. w[x] = q[i] /\ w[y] = q[j]
    BY <1>1, <1>2, <1>3, <1>4, <1>5, <1>6
  <1> HIDE DEF x, y
  <1>8. QED
    BY <1>6, <1>7 DEF w

\* dispatchLocked admits only from the queue, and nobody who is behind a task
\* that it leaves waiting.
LEMMA DispatchInOrder ==
  ASSUME NEW lim \in 1..MaxLimit, NEW a, NEW q, NEW s,
         Consistent(a, q, s), Dispatch(lim, a, q, s),
         NEW u \in Tasks, s[u] \notin {"granted", "held"}, u \in Owners'
  PROVE  /\ u \in {q[i] : i \in 1..Len(q)}
         /\ Waiters' \subseteq {q[i] : i \in 1..Len(q)}
         /\ \A i, j \in 1..Len(q) : (i < j /\ q[j] = u) => q[i] \notin Waiters'
  <1> DEFINE k == Room(lim, a, q)
             A == {q[i] : i \in 1..k}
  <1>1. k \in 0..Len(q)
    BY MaxLimitAssumption DEF Room, Consistent
  <1>2. st' = [t \in Tasks |-> IF t \in A THEN "granted" ELSE s[t]]
    BY DEF Dispatch
  <1> HIDE DEF k
  <1>3. PICK n \in 1..k : q[n] = u
    BY <1>2 DEF Owners
  <1>4. Waiters' = {t \in Tasks : st'[t] = "waiting"}
    BY DispatchRestores DEF Consistent, Waiters
  <1>5. ASSUME NEW t \in Waiters' PROVE t \in {q[i] : i \in 1..Len(q)} /\ t \notin A
    <2>1. t \in Tasks /\ st'[t] = "waiting"
      BY <1>4
    <2>2. t \notin A /\ s[t] = "waiting"
      BY <1>2, <2>1
    <2>3. QED
      BY <2>1, <2>2 DEF Consistent
  <1>6. ASSUME NEW i \in 1..Len(q), NEW j \in 1..Len(q), i < j, q[j] = u
        PROVE  q[i] \in A
    <2>1. j = n
      BY <1>1, <1>3, <1>6 DEF Consistent
    <2>2. i \in 1..k
      BY <1>1, <1>6, <2>1
    <2>3. QED
      BY <2>2
  <1>7. QED
    BY <1>1, <1>3, <1>5, <1>6

\* Slots are granted in the order of arrival: who gets one passes nobody that was
\* queued before and still waits, through grants, cancellations and new limits.
THEOREM SlotsInOrder == Spec => NoOvertaking
  <1>1. IInv /\ [Next]_vars =>
          [\A u \in Tasks :
             (u \notin Owners /\ u \in Owners') =>
               \A t \in Waiters : (Ahead(t, u) \/ u \notin Waiters) => t \notin Waiters']_vars
    <2> SUFFICES ASSUME IInv, [Next]_vars, NEW u \in Tasks, u \notin Owners, u \in Owners',
                        NEW t \in Waiters, Ahead(t, u) \/ u \notin Waiters
                 PROVE  t \notin Waiters'
      OBVIOUS
    <2>1. TypeOK /\ Consistent(active, queue, st)
      BY IInvConsistent DEF IInv
    <2>2. st[u] \notin {"granted", "held"}
      BY DEF Owners
    <2>3. ASSUME NEW lim \in 1..MaxLimit, NEW a, NEW s, Consistent(a, queue, s),
                 Dispatch(lim, a, queue, s), s[u] \notin {"granted", "held"}
          PROVE  t \notin Waiters'
      <3>1. /\ u \in Waiters
            /\ \A i, j \in 1..Len(queue) : (i < j /\ queue[j] = u) => queue[i] \notin Waiters'
        BY <2>3, DispatchInOrder DEF Waiters
      <3>2. QED
        BY <3>1 DEF Ahead
    <2>4. ASSUME NEW n \in 0..MaxLimit, SetLimit(n) PROVE t \notin Waiters'
      <3>1. limit' \in 1..MaxLimit /\ Dispatch(limit', active, queue, st)
        BY <2>4, MaxLimitAssumption DEF SetLimit, Clamp
      <3>2. QED
        BY <2>1, <2>2, <2>3, <3>1
    <2>5. ASSUME NEW v \in Tasks, Acquire(v) PROVE FALSE
      <3>1. CASE active < limit /\ queue = <<>>
        BY <3>1 DEF Waiters
      <3>2. CASE ~(active < limit /\ queue = <<>>)
        BY <2>1, <2>2, <2>5, <3>2 DEF Acquire, Owners, TypeOK
      <3>3. QED
        BY <3>1, <3>2
    <2>6. ASSUME NEW v \in Tasks, AcquireRefused(v) \/ CtxDone(v) \/ Wake(v) PROVE FALSE
      BY <2>1, <2>2, <2>6 DEF AcquireRefused, CtxDone, Wake, Owners, TypeOK
    <2>7. ASSUME NEW v \in Owners, NEW x \in {"idle", "released"},
                 Dispatch(limit, active - 1, queue, [st EXCEPT ![v] = x])
          PROVE  t \notin Waiters'
      <3>1. Consistent(active - 1, queue, [st EXCEPT ![v] = x])
        BY <2>1, <2>7, LeaveConsistent
      <3>2. [st EXCEPT ![v] = x][u] \notin {"granted", "held"}
        BY <2>1, <2>2, <2>7 DEF TypeOK, Owners
      <3>3. QED
        BY <2>1, <2>3, <2>7, <3>1, <3>2 DEF TypeOK
    <2>8. ASSUME NEW v \in Tasks, ctxDone[v], Cancel(v), st[v] = "waiting"
          PROVE  t \notin Waiters'
      <3> DEFINE w == Without(queue, v)
                 s == [st EXCEPT ![v] = "idle"]
      <3>1. v \in {queue[i] : i \in 1..Len(queue)}
        BY <2>1, <2>8 DEF Consistent
      <3>2. {w[i] : i \in 1..Len(w)} = Waiters \ {v}
        BY <2>1, <3>1, WithoutProperties DEF Consistent, Waiters
      <3>3. Consistent(active, w, s) /\ Dispatch(limit, active, w, s)
        BY <2>1, <2>8, QuitConsistent DEF Cancel
      <3>4. s[u] \notin {"granted", "held"}
        BY <2>1, <2>2, <2>8 DEF TypeOK
      <3> HIDE DEF w, s
      <3>5. /\ u \in Waiters \ {v}
            /\ Waiters' \subseteq Waiters \ {v}
            /\ \A i, j \in 1..Len(w) : (i < j /\ w[j] = u) => w[i] \notin Waiters'
        BY <2>1, <3>2, <3>3, <3>4, DispatchInOrder DEF TypeOK
      <3>6. CASE t = v
        BY <3>5, <3>6
      <3>7. CASE t # v
        <4>1. PICK i, j \in 1..Len(queue) : i < j /\ queue[i] = t /\ queue[j] = u
          BY <3>5 DEF Ahead
        <4>2. queue \in Seq(Tasks) /\ queue[i] # v /\ queue[j] # v
          BY <2>1, <3>5, <3>7, <4>1 DEF TypeOK
        <4>3. \E x, y \in 1..Len(w) : x < y /\ w[x] = queue[i] /\ w[y] = queue[j]
          BY <3>1, <4>1, <4>2, WithoutKeepsOrder DEF w
        <4>4. QED
          BY <3>5, <4>1, <4>3
      <3>8. QED
        BY <3>6, <3>7
    <2>9. ASSUME NEW v \in Tasks, Cancel(v) PROVE t \notin Waiters'
      BY <2>7, <2>8, <2>9 DEF Cancel, Owners
    <2>10. ASSUME NEW v \in Tasks, Release(v) PROVE t \notin Waiters'
      <3>1. CASE st[v] = "held"
        <4>1. v \in Owners
          BY <3>1 DEF Owners
        <4>2. active > 0
          BY <2>1, <4>1, LeaveConsistent
        <4>3. Dispatch(limit, active - 1, queue, [st EXCEPT ![v] = "released"])
          BY <2>10, <3>1, <4>2 DEF Release
        <4>4. QED
          BY <2>7, <4>1, <4>3
      <3>2. CASE st[v] = "released"
        BY <2>10, <3>2 DEF Release, vars, Owners
      <3>3. QED
        BY <2>10, <3>1, <3>2 DEF Release
    <2>11. CASE UNCHANGED vars
      BY <2>11 DEF vars, Owners
    <2>12. QED
      BY <2>4, <2>5, <2>6, <2>9, <2>10, <2>11 DEF Next
  <1>2. QED
    BY <1>1, InvariantHolds, PTL DEF Spec, NoOvertaking

-----------------------------------------------------------------------------
(***************************************************************************)
(* UploadLease.                                                            *)
(***************************************************************************)
\* The steps of a request that is counted in its lease.
Inside == {"start", "put", "look", "closing", "releasing"}

\* A request is in or waits for a lease exactly between its two ends; what waits
\* waits for a lease in the right state, and a closer only closes.
RequestsPlaced ==
  /\ \A r \in Writers :
       /\ mine[r] = 0 <=> pc[r] \in {"idle", "enter"}
       /\ pc[r] = "creating" => slot[mine[r]] = "queued"
       /\ pc[r] = "relock" => slot[mine[r]] # "queued"
  /\ \A c \in Closers : pc[c] \in {"idle", "closing"}

\* The slot stays until the last request is out, also while one closes the lease.
SlotUnderHolder == \A r \in Writers : pc[r] \in Inside => slot[mine[r]] = "owned"

\* The count of a lease is the number of the requests in it.
WritersExact == \A l \in Leases : writers[l] = Cardinality(Holders(l))

\* A lease has one creator.
OneCreator ==
  \A q, r \in Writers :
    (pc[q] = "creating" /\ pc[r] = "creating" /\ mine[q] = mine[r]) => q = r

\* The lease in the map has its slot or queues for it.
CurrentLive == current # 0 => slot[current] \in {"queued", "owned"}

\* Leases are made in order, and only a closed one gives its slot back.
LeasesFollowSlots ==
  \A l \in Leases :
    /\ slot[l] = "unmade" <=> l > created
    /\ slot[l] \in {"returning", "returned"} => l \in closed

\* The inductive invariant: what LeaseSound says of the requests that write has
\* to be known of those that wait and of those that leave.
LeaseIInv ==
  /\ LeaseSound /\ RequestsPlaced /\ SlotUnderHolder /\ WritersExact /\ OneCreator
  /\ CurrentLive /\ LeasesFollowSlots

\* Every set of requests is finite and no larger than all of them.
LEMMA FiniteHolders ==
  ASSUME NEW l
  PROVE  /\ IsFiniteSet(Holders(l)) /\ Cardinality(Holders(l)) \in Nat
         /\ IsFiniteSet(Holders(l)') /\ Cardinality(Holders(l)') \in Nat
         /\ Cardinality(Writers) \in Nat
         /\ Cardinality(Holders(l)') <= Cardinality(Writers)
  <1>1. Holders(l) \subseteq Writers /\ Holders(l)' \subseteq Writers
    BY DEF Holders
  <1>2. QED
    BY <1>1, WritersAssumption, FS_Subset, FS_CardinalityType

\* What a request is in or waits for is a lease.
LEMMA HasLease ==
  ASSUME LeaseTypeOK, RequestsPlaced, NEW r \in Writers, pc[r] \notin {"idle", "enter"}
  PROVE  mine[r] \in 1..created /\ mine[r] \in Leases
  <1>1. mine[r] \in 0..created /\ mine[r] # 0 /\ created \in 0..MaxLeases
    BY DEF LeaseTypeOK, RequestsPlaced
  <1>2. QED
    BY <1>1, MaxLeasesAssumption DEF Leases

\* A request that goes from one step inside its lease to another, while the job
\* row may change, disturbs nothing.
LEMMA StepInside ==
  ASSUME LeaseIInv, NEW r \in Writers, NEW step \in Inside,
         pc[r] \in Inside, pc' = [pc EXCEPT ![r] = step],
         UNCHANGED <<current, created, slot, writers, closed, actual, charged, mine>>,
         uploaded' \in 0..SegmentCount, status' \in {"live", "complete", "aborted"}
  PROVE  LeaseIInv'
  <1> USE DEF LeaseIInv, LeaseSound
  <1>1. r \notin Closers /\ step \in Steps
    BY ClosersAssumption DEF Inside, Steps
  <1>2. LeaseTypeOK'
    BY <1>1 DEF LeaseTypeOK, SlotStates, Steps, Leases, Procs
  <1>3. SlotUnderWriter' /\ SlotUnderHolder'
    BY <1>1 DEF LeaseTypeOK, SlotUnderHolder, SlotUnderWriter, Inside, Leases, Procs
  <1>4. OneLeaseOpen' /\ CurrentLive'
    BY <1>1 DEF LeaseTypeOK, OneLeaseOpen, CurrentLive, Leases
  <1>5. NoStrandedLease'
    BY <1>1 DEF LeaseTypeOK, NoStrandedLease, CurrentLive, Leases
  <1>6. RequestsPlaced'
    BY <1>1 DEF LeaseTypeOK, RequestsPlaced, Procs, Inside
  <1>7. OneCreator'
    BY <1>1 DEF LeaseTypeOK, OneCreator, Procs, Inside
  <1>8. LeasesFollowSlots'
    BY <1>1 DEF LeaseTypeOK, LeasesFollowSlots, Leases
  <1>9. WritersExact'
    <2>1. \A l \in Leases : Holders(l)' = Holders(l)
      BY <1>1 DEF LeaseTypeOK, Holders, Procs, Inside
    <2>2. QED
      BY <1>1, <2>1 DEF WritersExact
  <1>10. QED
    BY <1>2, <1>3, <1>4, <1>5, <1>6, <1>7, <1>8, <1>9

\* A request that is not inside a lease and goes to a step outside of one gives up
\* waiting, if it did.
LEMMA StepOutside ==
  ASSUME LeaseIInv, NEW r \in Writers, NEW step \in {"idle", "enter"},
         pc[r] \in {"idle", "enter", "joining", "relock"},
         pc' = [pc EXCEPT ![r] = step], mine' = [mine EXCEPT ![r] = 0],
         UNCHANGED <<current, created, slot, writers, closed, actual, charged, jobVars>>
  PROVE  LeaseIInv'
  <1> USE DEF LeaseIInv, LeaseSound
  <1>1. r \notin Closers /\ step \in Steps
    BY ClosersAssumption DEF Steps
  <1>2. UNCHANGED <<uploaded, status>>
    BY DEF jobVars
  <1>3. LeaseTypeOK'
    BY <1>1, <1>2 DEF LeaseTypeOK, SlotStates, Steps, Leases, Procs
  <1>4. SlotUnderWriter' /\ SlotUnderHolder'
    BY <1>1, <1>2 DEF LeaseTypeOK, SlotUnderHolder, SlotUnderWriter, Inside, Leases, Procs
  <1>5. OneLeaseOpen' /\ CurrentLive'
    BY <1>1, <1>2 DEF LeaseTypeOK, OneLeaseOpen, CurrentLive, Leases
  <1>6. NoStrandedLease'
    BY <1>1, <1>2 DEF LeaseTypeOK, NoStrandedLease, CurrentLive, Leases
  <1>7. RequestsPlaced'
    BY <1>1, <1>2 DEF LeaseTypeOK, RequestsPlaced, Procs
  <1>8. OneCreator'
    BY <1>1, <1>2 DEF LeaseTypeOK, OneCreator, Procs
  <1>9. LeasesFollowSlots'
    BY <1>1, <1>2 DEF LeaseTypeOK, LeasesFollowSlots, Leases
  <1>10. WritersExact'
    <2>1. \A l \in Leases : Holders(l)' = Holders(l)
      BY <1>1, <1>2 DEF LeaseTypeOK, Holders, Procs, Inside
    <2>2. QED
      BY <1>1, <1>2, <2>1 DEF WritersExact
  <1>11. QED
    BY <1>3, <1>4, <1>5, <1>6, <1>7, <1>8, <1>9, <1>10

LEMMA LeaseInitInv == LeaseInit => LeaseIInv
  <1> SUFFICES ASSUME LeaseInit PROVE LeaseIInv
    OBVIOUS
  <1>1. LeaseTypeOK
    <2>1. Cardinality(Writers) \in Nat
      BY WritersAssumption, FS_CardinalityType
    <2>2. QED
      BY <2>1, SegmentCountAssumption, MaxLeasesAssumption
      DEF LeaseInit, LeaseTypeOK, SlotStates, Steps, Leases, Procs
  <1>2. WritersExact
    <2>1. \A l \in Leases : Holders(l) = {} /\ writers[l] = 0
      BY DEF LeaseInit, Holders, Procs
    <2>2. QED
      BY <2>1, FS_EmptySet DEF WritersExact
  <1>3. SlotUnderWriter /\ OneLeaseOpen /\ NoStrandedLease
    BY DEF LeaseInit, SlotUnderWriter, OneLeaseOpen, NoStrandedLease, Procs
  <1>4. RequestsPlaced /\ SlotUnderHolder /\ OneCreator /\ CurrentLive /\ LeasesFollowSlots
    BY DEF LeaseInit, RequestsPlaced, SlotUnderHolder, OneCreator, CurrentLive,
           LeasesFollowSlots, Leases, Procs, Inside
  <1>5. QED
    BY <1>1, <1>2, <1>3, <1>4 DEF LeaseIInv, LeaseSound

\* A request that enters an open lease waits for it; one that finds none makes it.
LEMMA EnterInv == ASSUME LeaseIInv, NEW r \in Writers, Enter(r) PROVE LeaseIInv'
  <1> USE DEF LeaseIInv, LeaseSound
  <1>1. r \notin Closers
    BY ClosersAssumption
  <1>2. mine[r] = 0
    BY DEF Enter, RequestsPlaced
  <1>3. CASE pc'[r] = "idle"
    <2>1. pc' = [pc EXCEPT ![r] = "idle"] /\ mine' = [mine EXCEPT ![r] = 0]
      BY <1>2, <1>3 DEF Enter, Goto, LeaseTypeOK, Procs
    <2>2. UNCHANGED <<current, created, slot>>
      BY <1>3 DEF Enter, Goto, LeaseTypeOK, Procs
    <2>3. QED
      BY <2>1, <2>2, StepOutside DEF Enter
  <1>4. CASE pc'[r] = "joining"
    <2>1. /\ pc[r] = "enter" /\ current \in 1..created /\ current \notin closed
          /\ pc' = [pc EXCEPT ![r] = "joining"] /\ mine' = [mine EXCEPT ![r] = current]
          /\ UNCHANGED <<current, created, slot, writers, closed, actual, charged, uploaded, status>>
      BY <1>4 DEF Enter, Goto, LeaseTypeOK, Procs, jobVars
    <2>2. LeaseTypeOK'
      BY <1>1, <2>1 DEF LeaseTypeOK, SlotStates, Steps, Leases, Procs
    <2>3. SlotUnderWriter' /\ SlotUnderHolder'
      BY <1>1, <2>1 DEF LeaseTypeOK, SlotUnderHolder, SlotUnderWriter, Inside, Leases, Procs
    <2>4. OneLeaseOpen' /\ CurrentLive'
      BY <1>1, <2>1 DEF LeaseTypeOK, OneLeaseOpen, CurrentLive, Leases
    <2>5. NoStrandedLease'
      BY <1>1, <2>1 DEF LeaseTypeOK, NoStrandedLease, CurrentLive, Leases
    <2>6. RequestsPlaced'
      BY <1>1, <2>1 DEF LeaseTypeOK, RequestsPlaced, Procs
    <2>7. OneCreator'
      BY <1>1, <2>1 DEF LeaseTypeOK, OneCreator, Procs
    <2>8. LeasesFollowSlots'
      BY <1>1, <2>1 DEF LeaseTypeOK, LeasesFollowSlots, Leases
    <2>9. WritersExact'
      <3>1. \A l \in Leases : Holders(l)' = Holders(l)
        BY <1>1, <2>1 DEF LeaseTypeOK, Holders, Procs, Inside
      <3>2. QED
        BY <1>1, <2>1, <3>1 DEF WritersExact
    <2>10. QED
      BY <2>2, <2>3, <2>4, <2>5, <2>6, <2>7, <2>8, <2>9
  <1>5. CASE pc'[r] = "creating"
    <2>1. /\ pc[r] = "enter" /\ current = 0 /\ created < MaxLeases
          /\ created' = created + 1 /\ current' = created + 1
          /\ slot' = [slot EXCEPT ![created + 1] = "queued"]
          /\ pc' = [pc EXCEPT ![r] = "creating"] /\ mine' = [mine EXCEPT ![r] = created + 1]
          /\ UNCHANGED <<writers, closed, actual, charged, uploaded, status>>
          /\ created \in Nat /\ created + 1 \in Leases
      BY <1>5, MaxLeasesAssumption DEF Enter, Goto, LeaseTypeOK, Procs, jobVars, Leases
    <2>2. LeaseTypeOK'
      BY <1>1, <2>1 DEF LeaseTypeOK, SlotStates, Steps, Leases, Procs
    <2>3. SlotUnderWriter' /\ SlotUnderHolder'
      BY <1>1, <2>1 DEF LeaseTypeOK, SlotUnderHolder, SlotUnderWriter, Inside, Leases, Procs, RequestsPlaced
    <2>4. OneLeaseOpen' /\ CurrentLive'
      BY <1>1, <2>1 DEF LeaseTypeOK, OneLeaseOpen, CurrentLive, Leases
    <2>5. NoStrandedLease'
      BY <1>1, <2>1 DEF LeaseTypeOK, NoStrandedLease, CurrentLive, Leases
    <2>6. RequestsPlaced'
      BY <1>1, <2>1 DEF LeaseTypeOK, RequestsPlaced, Procs
    <2>7. OneCreator'
      BY <1>1, <2>1 DEF LeaseTypeOK, OneCreator, Procs
    <2>8. LeasesFollowSlots'
      BY <1>1, <2>1 DEF LeaseTypeOK, LeasesFollowSlots, Leases
    <2>9. WritersExact'
      <3>1. \A l \in Leases : Holders(l)' = Holders(l)
        BY <1>1, <2>1 DEF LeaseTypeOK, Holders, Procs, Inside
      <3>2. QED
        BY <1>1, <2>1, <3>1 DEF WritersExact
    <2>10. QED
      BY <2>2, <2>3, <2>4, <2>5, <2>6, <2>7, <2>8, <2>9
  <1>6. QED
    BY <1>3, <1>4, <1>5 DEF Enter, Goto, LeaseTypeOK, Procs

\* A creator that comes back with a slot for an open lease is its first request;
\* otherwise the lease leaves the map.
LEMMA CreatedInv == ASSUME LeaseIInv, NEW r \in Writers, Created(r) PROVE LeaseIInv'
  <1> USE DEF LeaseIInv, LeaseSound
  <1>1. r \notin Closers
    BY ClosersAssumption
  <1>2. /\ pc[r] = "creating" /\ mine[r] \in 1..created /\ mine[r] \in Leases
        /\ slot[mine[r]] = "queued" /\ current = mine[r]
        /\ UNCHANGED <<created, closed, actual, charged, uploaded, status>>
    <2>1. /\ pc[r] = "creating" /\ slot[mine[r]] = "queued"
      BY DEF Created, LeaseTypeOK, RequestsPlaced
    <2>2. mine[r] \in 1..created /\ mine[r] \in Leases
      BY <2>1, HasLease
    <2>3. QED
      BY <2>1, <2>2 DEF Created, OneLeaseOpen, jobVars
  <1>3. PICK l \in Leases : l = mine[r]
    BY <1>2
  <1>4. Holders(l) = {}
    BY <1>2, <1>3 DEF Holders, SlotUnderHolder, Inside
  <1>5. \A q \in Writers : pc[q] \notin Inside
    <2>1. SUFFICES ASSUME NEW q \in Writers, pc[q] \in Inside PROVE FALSE
      OBVIOUS
    <2>2. slot[mine[q]] = "owned"
      BY <2>1 DEF SlotUnderHolder
    <2>3. mine[q] \in Leases
      BY <2>1, HasLease DEF Inside
    <2>4. mine[q] = l
      BY <1>2, <1>3, <2>2, <2>3 DEF OneLeaseOpen
    <2>5. QED
      BY <1>4, <2>1, <2>4 DEF Holders, Inside
  <1>6. CASE pc'[r] = "start"
    <2>1. /\ l \notin closed /\ slot' = [slot EXCEPT ![l] = "owned"]
          /\ writers' = [writers EXCEPT ![l] = 1]
          /\ pc' = [pc EXCEPT ![r] = "start"] /\ UNCHANGED <<current, mine>>
      BY <1>2, <1>3, <1>6 DEF Created, Goto, LeaseTypeOK, Procs
    <2>2. /\ Holders(l)' = {r} /\ \A x \in Leases \ {l} : Holders(x)' = Holders(x)
      BY <1>1, <1>2, <1>3, <1>5, <2>1 DEF Holders, LeaseTypeOK, Procs, Inside
    <2>3. Cardinality(Holders(l)') = 1 /\ 1 \in 0..Cardinality(Writers)
      BY <2>2, FiniteHolders, FS_Singleton
    <2>4. LeaseTypeOK'
      BY <1>1, <1>2, <1>3, <1>5, <2>1, <2>3 DEF LeaseTypeOK, SlotStates, Steps, Leases, Procs
    <2>5. SlotUnderWriter' /\ SlotUnderHolder'
      BY <1>1, <1>2, <1>3, <1>5, <2>1, <2>3 DEF LeaseTypeOK, SlotUnderHolder, SlotUnderWriter, Inside, Leases, Procs
    <2>6. OneLeaseOpen' /\ CurrentLive'
      BY <1>1, <1>2, <1>3, <1>5, <2>1, <2>3 DEF LeaseTypeOK, OneLeaseOpen, CurrentLive, Leases
    <2>7. NoStrandedLease'
      BY <1>1, <1>2, <1>3, <1>5, <2>1, <2>3 DEF LeaseTypeOK, NoStrandedLease, CurrentLive, Leases
    <2>8. RequestsPlaced'
      BY <1>1, <1>2, <1>3, <1>5, <2>1, <2>3 DEF LeaseTypeOK, RequestsPlaced, OneCreator, Procs
    <2>9. OneCreator'
      BY <1>1, <1>2, <1>3, <1>5, <2>1, <2>3 DEF LeaseTypeOK, OneCreator, Procs
    <2>10. LeasesFollowSlots'
      BY <1>1, <1>2, <1>3, <1>5, <2>1, <2>3 DEF LeaseTypeOK, LeasesFollowSlots, Leases
    <2>11. WritersExact'
      <3>1. QED
        BY <2>1, <2>2, <2>3 DEF LeaseTypeOK, WritersExact
    <2>12. QED
      BY <2>4, <2>5, <2>6, <2>7, <2>8, <2>9, <2>10, <2>11
  <1>7. CASE pc'[r] = "idle"
    <2>1. /\ \/ l \in closed /\ slot' = [slot EXCEPT ![l] = "returning"]
             \/ slot' = [slot EXCEPT ![l] = "failed"]
          /\ current' = 0 /\ mine' = [mine EXCEPT ![r] = 0]
          /\ pc' = [pc EXCEPT ![r] = "idle"] /\ UNCHANGED writers
      BY <1>2, <1>3, <1>7 DEF Created, Goto, LeaseTypeOK, Procs
    <2>2. \A q \in Writers \ {r} : pc[q] = "creating" => mine[q] # l
      BY <1>2, <1>3 DEF OneCreator
    <2>3. slot'[l] \notin {"unmade", "queued"} /\ \A x \in Leases \ {l} : slot'[x] = slot[x]
      BY <2>1 DEF LeaseTypeOK
    <2>4. \A q \in Writers : pc[q] \in {"creating", "relock"} => mine[q] \in Leases
      BY HasLease
    <2>5. /\ \A q \in Procs \ {r} : pc'[q] = pc[q]
          /\ \A q \in Writers \ {r} : mine'[q] = mine[q]
          /\ pc'[r] = "idle" /\ mine'[r] = 0
      BY <2>1 DEF LeaseTypeOK, Procs
    <2>6. LeaseTypeOK'
      BY <1>1, <1>2, <1>3, <1>5, <2>1, SMTT(60) DEF LeaseTypeOK, SlotStates, Steps, Leases, Procs
    <2>7. SlotUnderWriter' /\ SlotUnderHolder'
      BY <1>1, <1>2, <1>3, <1>5, <2>1 DEF LeaseTypeOK, SlotUnderHolder, SlotUnderWriter, Inside, Leases, Procs
    <2>8. OneLeaseOpen' /\ CurrentLive'
      BY <1>1, <1>2, <1>3, <1>5, <2>1 DEF LeaseTypeOK, OneLeaseOpen, CurrentLive, Leases
    <2>9. NoStrandedLease'
      BY <1>1, <1>2, <1>3, <1>5, <2>1 DEF LeaseTypeOK, NoStrandedLease, CurrentLive, Leases
    <2>10. RequestsPlaced'
      BY <1>1, <2>2, <2>3, <2>4, <2>5 DEF RequestsPlaced, Procs
    <2>11. OneCreator'
      BY <1>1, <1>2, <1>3, <1>5, <2>1 DEF LeaseTypeOK, OneCreator, Procs
    <2>12. LeasesFollowSlots'
      BY <1>1, <1>2, <1>3, <1>5, <2>1 DEF LeaseTypeOK, LeasesFollowSlots, Leases
    <2>13. WritersExact'
      <3>1. \A x \in Leases : Holders(x)' = Holders(x)
        BY <1>1, <1>2, <1>3, <1>5, <2>1 DEF LeaseTypeOK, Holders, Procs, Inside
      <3>2. QED
        BY <1>1, <1>2, <1>3, <1>5, <2>1, <3>1 DEF WritersExact
    <2>14. QED
      BY <2>6, <2>7, <2>8, <2>9, <2>10, <2>11, <2>12, <2>13
  <1>8. QED
    BY <1>6, <1>7 DEF Created, Goto, LeaseTypeOK, Procs

\* A joiner that gets in finds the slot still owned and is counted.
LEMMA JoinInv == ASSUME LeaseIInv, NEW r \in Writers, Join(r) PROVE LeaseIInv'
  <1> USE DEF LeaseIInv, LeaseSound
  <1>1. r \notin Closers
    BY ClosersAssumption
  <1>2. /\ pc[r] = "relock" /\ mine[r] \in 1..created /\ mine[r] \in Leases
        /\ slot[mine[r]] \notin {"queued", "unmade"}
        /\ UNCHANGED <<current, created, slot, closed, actual, charged, uploaded, status>>
    <2>1. pc[r] = "relock"
      BY DEF Join
    <2>2. mine[r] \in 1..created /\ mine[r] \in Leases
      BY <2>1, HasLease
    <2>3. QED
      BY <2>1, <2>2 DEF Join, RequestsPlaced, LeasesFollowSlots, LeaseTypeOK, jobVars
  <1>3. PICK l \in Leases : l = mine[r]
    BY <1>2
  <1>4. CASE Refused(l)
    <2>1. pc' = [pc EXCEPT ![r] = "idle"] /\ mine' = [mine EXCEPT ![r] = 0] /\ UNCHANGED writers
      BY <1>3, <1>4 DEF Join, Goto
    <2>2. QED
      BY <1>2, <2>1, StepOutside DEF jobVars
  <1>5. CASE ~Refused(l)
    <2>1. /\ writers' = [writers EXCEPT ![l] = writers[l] + 1]
          /\ pc' = [pc EXCEPT ![r] = "start"] /\ UNCHANGED mine
      BY <1>3, <1>5 DEF Join, Goto
    <2>2. slot[l] = "owned" /\ current = l /\ l \notin closed
      BY <1>2, <1>3, <1>5 DEF Refused, LeaseTypeOK, SlotStates, LeasesFollowSlots, OneLeaseOpen
    <2>3. /\ r \notin Holders(l) /\ Holders(l)' = Holders(l) \cup {r}
          /\ \A x \in Leases \ {l} : Holders(x)' = Holders(x)
      BY <1>1, <1>2, <1>3, <2>1 DEF Holders, LeaseTypeOK, Procs
    <2>4. Cardinality(Holders(l)') = writers[l] + 1 /\ writers[l] + 1 \in 0..Cardinality(Writers)
      <3>1. Cardinality(Holders(l)') = Cardinality(Holders(l)) + 1
        BY <2>3, FiniteHolders, FS_AddElement
      <3>2. QED
        BY <3>1, FiniteHolders DEF WritersExact
    <2>5. LeaseTypeOK'
      BY <1>1, <1>2, <1>3, <2>1, <2>2, <2>4 DEF LeaseTypeOK, SlotStates, Steps, Leases, Procs
    <2>6. SlotUnderWriter' /\ SlotUnderHolder'
      BY <1>1, <1>2, <1>3, <2>1, <2>2, <2>4 DEF LeaseTypeOK, SlotUnderHolder, SlotUnderWriter, Inside, Leases, Procs
    <2>7. OneLeaseOpen' /\ CurrentLive'
      BY <1>1, <1>2, <1>3, <2>1, <2>2, <2>4 DEF LeaseTypeOK, OneLeaseOpen, CurrentLive, Leases
    <2>8. NoStrandedLease'
      BY <1>1, <1>2, <1>3, <2>1, <2>2, <2>4 DEF LeaseTypeOK, NoStrandedLease, CurrentLive, Leases
    <2>9. RequestsPlaced'
      BY <1>1, <1>2, <1>3, <2>1, <2>2, <2>4 DEF LeaseTypeOK, RequestsPlaced, Procs
    <2>10. OneCreator'
      BY <1>1, <1>2, <1>3, <2>1, <2>2, <2>4 DEF LeaseTypeOK, OneCreator, Procs
    <2>11. LeasesFollowSlots'
      BY <1>1, <1>2, <1>3, <2>1, <2>2, <2>4 DEF LeaseTypeOK, LeasesFollowSlots, Leases
    <2>12. WritersExact'
      <3>1. QED
        BY <2>1, <2>3, <2>4 DEF LeaseTypeOK, WritersExact
    <2>13. QED
      BY <2>5, <2>6, <2>7, <2>8, <2>9, <2>10, <2>11, <2>12
  <1>6. QED
    BY <1>4, <1>5

\* Nobody closes the lease twice, and its slot goes only when nobody is inside:
\* ReleaseUploadJob by a request that is still inside, or by Complete or Abort.
LEMMA ReleaseUploadJobInv == ASSUME LeaseIInv, NEW p \in Procs, ReleaseUploadJob(p) PROVE LeaseIInv'
  <1> USE DEF LeaseIInv, LeaseSound
  <1>1. /\ pc[p] = "closing"
        /\ \/ p \in Closers /\ p \notin Writers /\ pc' = [pc EXCEPT ![p] = "idle"]
           \/ p \in Writers /\ p \notin Closers /\ pc' = [pc EXCEPT ![p] = "releasing"]
        /\ UNCHANGED <<created, writers, charged, uploaded, status, mine>>
    BY ClosersAssumption DEF ReleaseUploadJob, Goto, Procs, jobVars
  <1>2. \A l \in Leases : Holders(l)' = Holders(l)
    BY <1>1 DEF Holders, LeaseTypeOK, Procs
  <1>3. WritersExact'
    BY <1>1, <1>2 DEF WritersExact
  <1>4. (RequestsPlaced' /\ OneCreator') \/ slot' # slot
    BY <1>1 DEF RequestsPlaced, OneCreator, LeaseTypeOK, Procs
  <1>5. CASE current = 0
    <2>1. UNCHANGED <<current, slot, closed, actual>>
      BY <1>5 DEF ReleaseUploadJob
    <2>2. LeaseTypeOK'
      BY <1>1, <2>1 DEF LeaseTypeOK, Steps, Procs
    <2>3. SlotUnderWriter' /\ SlotUnderHolder'
      BY <1>1, <2>1 DEF SlotUnderWriter, SlotUnderHolder, LeaseTypeOK, Inside, Procs
    <2>4. OneLeaseOpen' /\ CurrentLive' /\ NoStrandedLease' /\ LeasesFollowSlots'
      BY <1>1, <2>1 DEF OneLeaseOpen, CurrentLive, NoStrandedLease, LeasesFollowSlots
    <2>5. QED
      BY <1>3, <1>4, <2>1, <2>2, <2>3, <2>4
  <1>6. CASE current # 0
    <2>1. current \in 1..created /\ current \in Leases
      BY <1>6, MaxLeasesAssumption DEF LeaseTypeOK, Leases
    <2>2. /\ closed' = closed \cup {current}
          /\ actual' \in [Leases -> 0..SegmentCount]
      <3>1. PICK n \in 0..SegmentCount : actual' = [actual EXCEPT ![current] = n]
        BY <1>6, <2>1, SegmentCountAssumption DEF ReleaseUploadJob, LeaseTypeOK
      <3>2. QED
        BY <1>6, <3>1 DEF ReleaseUploadJob, LeaseTypeOK
    <2>3. CASE writers[current] = 0 /\ slot[current] = "owned"
      <3>1. slot' = [slot EXCEPT ![current] = "returning"] /\ current' = 0
        BY <1>6, <2>3 DEF ReleaseUploadJob, Idle
      <3>2. \A q \in Writers : pc[q] \in Inside => mine[q] # current
        <4>1. Holders(current) = {}
          BY <2>1, <2>3, FiniteHolders, FS_EmptySet DEF WritersExact
        <4>2. QED
          BY <4>1 DEF Holders, Inside
      <3>3. LeaseTypeOK'
        BY <1>1, <2>1, <2>2, <3>1 DEF LeaseTypeOK, Steps, SlotStates, Procs
      <3>4. SlotUnderWriter' /\ SlotUnderHolder'
        <4>1. p \in Writers => pc[p] \in Inside
          BY <1>1 DEF Inside
        <4>2. SlotUnderHolder'
          BY <1>1, <3>1, <3>2, <4>1 DEF SlotUnderHolder, LeaseTypeOK, Inside, Procs
        <4>3. QED
          BY <4>2 DEF SlotUnderWriter, SlotUnderHolder, Inside
      <3>5. OneLeaseOpen' /\ CurrentLive' /\ NoStrandedLease'
        BY <2>1, <2>3, <3>1 DEF OneLeaseOpen, CurrentLive, NoStrandedLease, LeaseTypeOK
      <3>6. RequestsPlaced' /\ OneCreator'
        BY <1>1, <2>1, <2>3, <3>1 DEF RequestsPlaced, OneCreator, LeaseTypeOK, Procs
      <3>7. LeasesFollowSlots'
        BY <1>1, <2>1, <2>2, <2>3, <3>1 DEF LeasesFollowSlots, LeaseTypeOK
      <3>8. QED
        BY <1>3, <3>3, <3>4, <3>5, <3>6, <3>7
    <2>4. CASE ~(writers[current] = 0 /\ slot[current] = "owned")
      <3>1. UNCHANGED <<current, slot>>
        BY <1>6, <2>4 DEF ReleaseUploadJob, Idle
      <3>2. LeaseTypeOK'
        BY <1>1, <2>1, <2>2, <3>1 DEF LeaseTypeOK, Steps, Procs
      <3>3. SlotUnderWriter' /\ SlotUnderHolder'
        BY <1>1, <3>1 DEF SlotUnderWriter, SlotUnderHolder, LeaseTypeOK, Inside, Procs
      <3>4. OneLeaseOpen' /\ CurrentLive' /\ LeasesFollowSlots'
        BY <1>1, <2>2, <3>1 DEF OneLeaseOpen, CurrentLive, LeasesFollowSlots
      <3>5. NoStrandedLease'
        <4>1. writers[current] \in Nat
          BY <2>1, FiniteHolders DEF WritersExact
        <4>2. QED
          BY <1>1, <1>6, <2>4, <3>1, <4>1 DEF NoStrandedLease, CurrentLive
      <3>6. QED
        BY <1>3, <1>4, <3>1, <3>2, <3>3, <3>4, <3>5
    <2>5. QED
      BY <2>3, <2>4
  <1>7. QED
    BY <1>5, <1>6

\* The last request out of a closed lease takes the slot and the lease with it.
LEMMA RequestReleaseInv == ASSUME LeaseIInv, NEW r \in Writers, RequestRelease(r) PROVE LeaseIInv'
  <1> USE DEF LeaseIInv, LeaseSound
  <1>1. r \notin Closers /\ pc[r] = "releasing"
    BY ClosersAssumption DEF RequestRelease
  <1>2. PICK l \in Leases : l = mine[r]
    BY <1>1, HasLease
  <1>3. slot[l] = "owned" /\ current = l /\ l # 0
    <2>1. slot[l] = "owned"
      BY <1>1, <1>2 DEF SlotUnderHolder, Inside
    <2>2. QED
      BY <1>2, <2>1 DEF OneLeaseOpen, Leases
  <1>4. /\ writers' = [writers EXCEPT ![l] = writers[l] - 1]
        /\ pc' = [pc EXCEPT ![r] = "idle"] /\ mine' = [mine EXCEPT ![r] = 0]
        /\ UNCHANGED <<created, closed, actual, charged, uploaded, status>>
    BY <1>2 DEF RequestRelease, Goto, jobVars
  <1>5. /\ r \in Holders(l) /\ Holders(l)' = Holders(l) \ {r}
        /\ \A x \in Leases \ {l} : Holders(x)' = Holders(x)
    BY <1>1, <1>2, <1>3, <1>4 DEF Holders, LeaseTypeOK, Procs
  <1>6. /\ Cardinality(Holders(l)') = writers[l] - 1 /\ writers[l] \in Nat
        /\ writers[l] - 1 \in 0..Cardinality(Writers)
    <2>1. Cardinality(Holders(l)') = Cardinality(Holders(l)) - 1
      BY <1>5, FiniteHolders, FS_RemoveElement
    <2>2. QED
      BY <2>1, FiniteHolders DEF WritersExact
  <1>7. WritersExact'
    BY <1>4, <1>5, <1>6 DEF WritersExact, LeaseTypeOK
  <1>8. writers' \in [Leases -> 0..Cardinality(Writers)]
    BY <1>4, <1>6 DEF LeaseTypeOK
  <1>9. CASE l \in closed /\ writers[l] - 1 = 0
    <2>1. current' = 0 /\ slot' = [slot EXCEPT ![l] = "returning"]
      BY <1>2, <1>3, <1>9 DEF RequestRelease
    <2>2. \A q \in Writers \ {r} : pc[q] \in Inside => mine[q] # l
      <3>1. Holders(l)' = {}
        BY <1>6, <1>9, FiniteHolders, FS_EmptySet
      <3>2. QED
        BY <1>5, <3>1 DEF Holders, Inside
    <2>3. LeaseTypeOK'
      BY <1>4, <1>8, <2>1 DEF LeaseTypeOK, Steps, SlotStates, Procs
    <2>4. SlotUnderWriter' /\ SlotUnderHolder'
      <3>1. SlotUnderHolder'
        BY <1>4, <2>1, <2>2 DEF SlotUnderHolder, LeaseTypeOK, Inside, Procs
      <3>2. QED
        BY <3>1 DEF SlotUnderWriter, SlotUnderHolder, Inside
    <2>5. OneLeaseOpen' /\ CurrentLive' /\ NoStrandedLease'
      BY <1>3, <2>1 DEF OneLeaseOpen, CurrentLive, NoStrandedLease, LeaseTypeOK
    <2>6. RequestsPlaced' /\ OneCreator'
      BY <1>1, <1>3, <1>4, <2>1 DEF RequestsPlaced, OneCreator, LeaseTypeOK, Procs
    <2>7. LeasesFollowSlots'
      BY <1>3, <1>4, <1>9, <2>1 DEF LeasesFollowSlots, LeaseTypeOK
    <2>8. QED
      BY <1>7, <2>3, <2>4, <2>5, <2>6, <2>7
  <1>10. CASE ~(l \in closed /\ writers[l] - 1 = 0)
    <2>1. UNCHANGED <<current, slot>>
      BY <1>2, <1>10 DEF RequestRelease
    <2>2. LeaseTypeOK'
      BY <1>4, <1>8, <2>1 DEF LeaseTypeOK, Steps, Procs
    <2>3. SlotUnderWriter' /\ SlotUnderHolder'
      BY <1>4, <2>1 DEF SlotUnderWriter, SlotUnderHolder, LeaseTypeOK, Inside, Procs
    <2>4. OneLeaseOpen' /\ CurrentLive' /\ LeasesFollowSlots'
      BY <1>4, <2>1 DEF OneLeaseOpen, CurrentLive, LeasesFollowSlots
    <2>5. NoStrandedLease'
      BY <1>3, <1>4, <1>6, <1>10, <2>1 DEF NoStrandedLease, LeaseTypeOK
    <2>6. RequestsPlaced' /\ OneCreator'
      BY <1>1, <1>4, <2>1 DEF RequestsPlaced, OneCreator, LeaseTypeOK, Procs
    <2>7. QED
      BY <1>7, <2>2, <2>3, <2>4, <2>5, <2>6
  <1>11. QED
    BY <1>9, <1>10

LEMMA LeaseNextInv == LeaseIInv /\ [LeaseNext]_leaseVars => LeaseIInv'
  <1> SUFFICES ASSUME LeaseIInv, [LeaseNext]_leaseVars PROVE LeaseIInv'
    OBVIOUS
  <1> USE DEF LeaseIInv, LeaseSound
  <1>1. ASSUME NEW r \in Writers, HandlePut(r) PROVE LeaseIInv'
    <2>1. pc[r] = "idle" /\ mine[r] = 0
      BY <1>1 DEF HandlePut, RequestsPlaced
    <2>2. mine' = [mine EXCEPT ![r] = 0]
      BY <1>1, <2>1 DEF HandlePut, LeaseTypeOK
    <2>3. QED
      BY <1>1, <2>1, <2>2, StepOutside DEF HandlePut, Goto
  <1>2. ASSUME NEW r \in Writers, JoinWait(r) PROVE LeaseIInv'
    <2>1. /\ pc[r] = "joining"
          /\ UNCHANGED <<current, created, slot, writers, closed, actual, charged, jobVars>>
      BY <1>2 DEF JoinWait
    <2>2. CASE pc' = [pc EXCEPT ![r] = "idle"] /\ mine' = [mine EXCEPT ![r] = 0]
      BY <2>1, <2>2, StepOutside
    <2>3. CASE slot[mine[r]] # "queued" /\ pc' = [pc EXCEPT ![r] = "relock"] /\ mine' = mine
      <3>1. r \notin Closers /\ UNCHANGED <<uploaded, status>>
        BY <2>1, ClosersAssumption DEF jobVars
      <3>2. LeaseTypeOK'
        BY <2>1, <2>3, <3>1 DEF LeaseTypeOK, SlotStates, Steps, Leases, Procs
      <3>3. SlotUnderWriter' /\ SlotUnderHolder'
        BY <2>1, <2>3, <3>1 DEF LeaseTypeOK, SlotUnderHolder, SlotUnderWriter, Inside, Leases, Procs
      <3>4. OneLeaseOpen' /\ CurrentLive'
        BY <2>1, <2>3, <3>1 DEF LeaseTypeOK, OneLeaseOpen, CurrentLive, Leases
      <3>5. NoStrandedLease'
        BY <2>1, <2>3, <3>1 DEF LeaseTypeOK, NoStrandedLease, CurrentLive, Leases
      <3>6. RequestsPlaced'
        BY <2>1, <2>3, <3>1 DEF LeaseTypeOK, RequestsPlaced, Procs
      <3>7. OneCreator'
        BY <2>1, <2>3, <3>1 DEF LeaseTypeOK, OneCreator, Procs
      <3>8. LeasesFollowSlots'
        BY <2>1, <2>3, <3>1 DEF LeaseTypeOK, LeasesFollowSlots, Leases
      <3>9. WritersExact'
        <4>1. \A l \in Leases : Holders(l)' = Holders(l)
          BY <2>1, <2>3, <3>1 DEF LeaseTypeOK, Holders, Procs, Inside
        <4>2. QED
          BY <2>1, <2>3, <3>1, <4>1 DEF WritersExact
      <3>10. QED
        BY <3>2, <3>3, <3>4, <3>5, <3>6, <3>7, <3>8, <3>9
    <2>4. QED
      BY <1>2, <2>2, <2>3 DEF JoinWait, Goto
  <1>3. ASSUME NEW r \in Writers, Start(r) \/ Put(r) \/ Look(r) PROVE LeaseIInv'
    <2>1. /\ pc[r] \in Inside
          /\ \E step \in Inside : pc' = [pc EXCEPT ![r] = step]
          /\ UNCHANGED <<current, created, slot, writers, closed, actual, charged, mine>>
      BY <1>3 DEF Start, Put, Look, Goto, Inside
    <2>2. uploaded' \in 0..SegmentCount /\ status' \in {"live", "complete", "aborted"}
      BY <1>3, SegmentCountAssumption DEF Start, Put, Look, jobVars, LeaseTypeOK
    <2>3. QED
      BY <2>1, <2>2, StepInside
  <1>4. ASSUME NEW c \in Closers, CloseJob(c) PROVE LeaseIInv'
    <2>1. /\ c \notin Writers /\ pc' = [pc EXCEPT ![c] = "closing"]
          /\ status' \in {"live", "complete", "aborted"}
          /\ UNCHANGED <<current, created, slot, writers, closed, actual, charged, uploaded, mine>>
      BY <1>4, ClosersAssumption DEF CloseJob, Goto, LeaseTypeOK
    <2>2. LeaseTypeOK'
      BY <2>1 DEF LeaseTypeOK, SlotStates, Steps, Leases, Procs
    <2>3. SlotUnderWriter' /\ SlotUnderHolder'
      BY <2>1 DEF LeaseTypeOK, SlotUnderHolder, SlotUnderWriter, Inside, Leases, Procs
    <2>4. OneLeaseOpen' /\ CurrentLive'
      BY <2>1 DEF LeaseTypeOK, OneLeaseOpen, CurrentLive, Leases
    <2>5. NoStrandedLease'
      BY <2>1 DEF LeaseTypeOK, NoStrandedLease, CurrentLive, Leases
    <2>6. RequestsPlaced'
      BY <2>1 DEF LeaseTypeOK, RequestsPlaced, Procs
    <2>7. OneCreator'
      BY <2>1 DEF LeaseTypeOK, OneCreator, Procs
    <2>8. LeasesFollowSlots'
      BY <2>1 DEF LeaseTypeOK, LeasesFollowSlots, Leases
    <2>9. WritersExact'
      <3>1. \A l \in Leases : Holders(l)' = Holders(l)
        BY <2>1 DEF LeaseTypeOK, Holders, Procs, Inside
      <3>2. QED
        BY <2>1, <3>1 DEF WritersExact
    <2>10. QED
      BY <2>2, <2>3, <2>4, <2>5, <2>6, <2>7, <2>8, <2>9
  <1>5. ASSUME NEW l \in Leases, ReturnSlot(l) PROVE LeaseIInv'
    <2>1. /\ slot[l] = "returning" /\ slot' = [slot EXCEPT ![l] = "returned"]
          /\ UNCHANGED <<current, created, writers, closed, actual, uploaded, status, pc, mine>>
      BY <1>5 DEF ReturnSlot, jobVars
    <2>2. charged' \in Nat
      BY <1>5, SegmentCountAssumption DEF ReturnSlot, LeaseTypeOK
    <2>3. LeaseTypeOK'
      BY <2>1, <2>2 DEF LeaseTypeOK, SlotStates, Steps, Leases, Procs
    <2>4. SlotUnderWriter' /\ SlotUnderHolder'
      BY <2>1, <2>2 DEF LeaseTypeOK, SlotUnderHolder, SlotUnderWriter, Inside, Leases, Procs
    <2>5. OneLeaseOpen' /\ CurrentLive'
      BY <2>1, <2>2 DEF LeaseTypeOK, OneLeaseOpen, CurrentLive, Leases
    <2>6. NoStrandedLease'
      BY <2>1, <2>2 DEF LeaseTypeOK, NoStrandedLease, CurrentLive, Leases
    <2>7. RequestsPlaced'
      BY <2>1, <2>2 DEF LeaseTypeOK, RequestsPlaced, Procs
    <2>8. OneCreator'
      BY <2>1, <2>2 DEF LeaseTypeOK, OneCreator, Procs
    <2>9. LeasesFollowSlots'
      BY <2>1, <2>2 DEF LeaseTypeOK, LeasesFollowSlots, Leases
    <2>10. WritersExact'
      <3>1. \A x \in Leases : Holders(x)' = Holders(x)
        BY <2>1, <2>2 DEF LeaseTypeOK, Holders, Procs, Inside
      <3>2. QED
        BY <2>1, <2>2, <3>1 DEF WritersExact
    <2>11. QED
      BY <2>3, <2>4, <2>5, <2>6, <2>7, <2>8, <2>9, <2>10
  <1>6. CASE UNCHANGED leaseVars
    <2>1. LeaseTypeOK'
      BY <1>6 DEF leaseVars, LeaseTypeOK, SlotStates, Steps, Leases, Procs
    <2>2. SlotUnderWriter' /\ SlotUnderHolder'
      BY <1>6 DEF leaseVars, LeaseTypeOK, SlotUnderHolder, SlotUnderWriter, Inside, Leases, Procs
    <2>3. OneLeaseOpen' /\ CurrentLive'
      BY <1>6 DEF leaseVars, LeaseTypeOK, OneLeaseOpen, CurrentLive, Leases
    <2>4. NoStrandedLease'
      BY <1>6 DEF leaseVars, LeaseTypeOK, NoStrandedLease, CurrentLive, Leases
    <2>5. RequestsPlaced'
      BY <1>6 DEF leaseVars, LeaseTypeOK, RequestsPlaced, Procs
    <2>6. OneCreator'
      BY <1>6 DEF leaseVars, LeaseTypeOK, OneCreator, Procs
    <2>7. LeasesFollowSlots'
      BY <1>6 DEF leaseVars, LeaseTypeOK, LeasesFollowSlots, Leases
    <2>8. WritersExact'
      <3>1. \A l \in Leases : Holders(l)' = Holders(l)
        BY <1>6 DEF leaseVars, LeaseTypeOK, Holders, Procs, Inside
      <3>2. QED
        BY <1>6, <3>1 DEF leaseVars, WritersExact
    <2>9. QED
      BY <2>1, <2>2, <2>3, <2>4, <2>5, <2>6, <2>7, <2>8
  <1>7. QED
    BY <1>1, <1>2, <1>3, <1>4, <1>5, <1>6, EnterInv, CreatedInv, JoinInv,
       ReleaseUploadJobInv, RequestReleaseInv
    DEF LeaseNext, RequestStep, Procs

\* The inductive invariant holds in every reachable state.
THEOREM LeaseInvariantHolds == LeaseSpec => []LeaseIInv
  BY LeaseInitInv, LeaseNextInv, PTL DEF LeaseSpec

\* The lease of a browser upload keeps its slot under its writers, is the only
\* one of the job and leaves the map once it is closed, for any number of
\* requests and of Complete and Abort calls, whenever they close it.
THEOREM LeasesAreSound == LeaseSpec => []LeaseSound
  <1>1. LeaseIInv => LeaseSound
    BY DEF LeaseIInv
  <1>2. QED
    BY <1>1, LeaseInvariantHolds, PTL

(***************************************************************************)
(* Settings.  One caller at a time is past its arrival or the lock; what   *)
(* it has done decides how the rows and the snapshot stand to each other.  *)
(***************************************************************************)
\* Settings with values.
Typed(s) == DOMAIN s = Fields /\ \A f \in Fields : s[f] \in Values(f)

\* The services cannot tell s from t, but for a log level that t has not.
Same(s, t) ==
  /\ s.creds = t.creds /\ s.root = t.root /\ s.segment = t.segment /\ s.pool = t.pool
  /\ Default(s.part, MaxPart) = Default(t.part, MaxPart)
  /\ Default(s.conc, DefaultConc) = Default(t.conc, DefaultConc)
  /\ Default(s.conns, DefaultConns) = Default(t.conns, DefaultConns)
  /\ t.level \in {"", s.level}

Waits(c) == Doing(c, "idle") \/ Doing(c, "lock")
Adopting == {"adopt", "row", "mirror", "reread", "reflect"}
Dials == {"dial", "await", "reload"}
PanelSteps == {"idle", "lock", "store", "publish", "apply"} \cup Adopting \cup Dials
WizardSteps == {"idle"} \cup Adopting \cup Dials
GuestSteps == {"idle", "hostRead", "hostPublish", "hostApply", "hostStore"}

UpdatesTyped ==
  /\ DOMAIN upd = Updaters
  /\ \A c \in Updaters :
       /\ DOMAIN upd[c] = {"step", "patch", "old", "new", "todo", "acct"}
       /\ c \in Panels => upd[c].step \in PanelSteps
       /\ c \in Wizards => upd[c].step \in WizardSteps
       /\ c \in Guests => upd[c].step \in GuestSteps
       /\ upd[c].step # "idle" => upd[c].patch \in Patches

\* Callers do not overlap past the lock.
OneUpdate ==
  \A c, d \in Updaters : c # d /\ ~Doing(c, "idle") /\ ~Doing(d, "idle") =>
    c \in Panels /\ d \in Panels /\ (Waits(c) \/ Waits(d))

\* What a caller has computed.
Checked(s) == Typed(s) /\ Valid(s)
UpdateFits(c) ==
  LET u == upd[c] IN
  /\ u.step = "store" => /\ Checked(u.new) /\ CredentialsAllowed(u.old, u.new)
                         /\ u.old.creds = published.creds
                         /\ Normal(u.new.root) \/ u.new.root = published.root
  /\ u.step \in {"publish", "apply"} =>
       /\ Checked(u.new) /\ settingRow = u.new
       /\ u.old.creds # u.new.creds => Complete(u.new.creds)
       /\ ~unsaved /\ u.new.creds.hash = "" => Environment.creds.hash = ""
       /\ ~unsaved => Normal(u.new.root)
  /\ u.step = "apply" => published = u.new
  /\ u.step \in Adopting => Complete(Wanted(c)) /\ Wanted(c) \in Values("creds")
  /\ u.step = "reflect" => u.old = WithDefaults(published)
  /\ u.step \in {"hostPublish", "hostApply", "hostStore"} => Checked(u.new)
  /\ u.step \in {"hostApply", "hostStore"} => published = u.new
  /\ u.step = "hostStore" => gate = u.new.conc

\* The rows yield what is published, with the credentials of a caller that has
\* stored them; nothing is said while one is between its two writes.
RowsAgree ==
  ~unsaved /\ (\A c \in Updaters : ~(upd[c].step \in {"publish", "hostApply", "hostStore"})) =>
    /\ Valid(Stored)
    /\ \/ \E c \in Updaters : /\ upd[c].step \in {"reread", "reflect"}
                              /\ Same(Stored, [published EXCEPT !.creds = Wanted(c)])
       \/ (\A c \in Updaters : upd[c].step \notin {"reread", "reflect"}) /\ Same(Stored, published)

GateFits ==
  (\A c \in Updaters : upd[c].step \notin {"apply", "hostApply"}) =>
    gate = Default(published.conc, DefaultConc)

SettingsIInv ==
  /\ Typed(published)
  /\ DOMAIN settingRow \subseteq Fields /\ \A f \in DOMAIN settingRow : settingRow[f] \in Values(f)
  /\ UpdatesTyped /\ OneUpdate
  /\ \A c \in Updaters : UpdateFits(c)
  /\ RowsAgree /\ GateFits

\* Callers of different kinds do not overlap.
OneUpdater == ~Overlap

Numeric == {"part", "segment", "pool", "conc", "conns"}

LEMMA FieldsAre ==
  /\ Fields = {"creds", "root", "level"} \cup Numeric
  /\ Values("creds") = [id : Int, hash : STRING]
  /\ \A f \in Numeric : Values(f) = Int
  /\ Values("root") = Directories /\ Values("level") = STRING
  BY DEF Fields, Numeric, Values

\* What WithDefaults changes and keeps.
LEMMA DefaultsAre ==
  ASSUME NEW s, DOMAIN s = Fields
  PROVE  LET d == WithDefaults(s) IN
         /\ DOMAIN d = Fields
         /\ d.part = Default(s.part, MaxPart)
         /\ d.conc = Default(s.conc, DefaultConc)
         /\ d.conns = Default(s.conns, DefaultConns)
         /\ \A f \in {"creds", "root", "segment", "pool", "level"} : d[f] = s[f]
  BY DEF WithDefaults, Fields

LEMMA DefaultsTyped ==
  ASSUME NEW s, Typed(s)
  PROVE  Typed(WithDefaults(s))
<1> DEFINE d == WithDefaults(s)
<1>1. DOMAIN s = Fields /\ \A f \in Fields : s[f] \in Values(f)
  BY DEF Typed
<1>2. /\ DOMAIN d = Fields
      /\ d["part"] = Default(s["part"], MaxPart)
      /\ d["conc"] = Default(s["conc"], DefaultConc)
      /\ d["conns"] = Default(s["conns"], DefaultConns)
      /\ \A f \in {"creds", "root", "segment", "pool", "level"} : d[f] = s[f]
  BY <1>1, DefaultsAre
<1> HIDE DEF d
<1>3. \A f \in {"part", "conc", "conns"} : s[f] \in Int /\ Values(f) = Int
  BY <1>1, FieldsAre DEF Numeric
<1>4. \A f \in {"part", "conc", "conns"} : d[f] \in Values(f)
  BY <1>2, <1>3 DEF Default, MaxPart, DefaultConc, DefaultConns
<1>5. \A f \in Fields : d[f] \in Values(f)
  BY <1>1, <1>2, <1>4, FieldsAre DEF Numeric
<1>6. QED
  BY <1>2, <1>5 DEF Typed, d

\* Settings the services cannot tell apart are the same once filled in.
LEMMA SameIsEqual ==
  ASSUME NEW s, NEW t, DOMAIN s = Fields, DOMAIN t = Fields, Same(s, t)
  PROVE  \A f \in Fields \ {"level"} : WithDefaults(s)[f] = WithDefaults(t)[f]
  BY DefaultsAre, FieldsAre DEF Same, Numeric

LEMMA SameTrans ==
  ASSUME NEW s, NEW t, NEW u, Same(s, t), Same(t, u)
  PROVE  Same(s, u)
  BY DEF Same

LEMMA SameAsDefaults ==
  ASSUME NEW s, Typed(s)
  PROVE  Same(s, WithDefaults(s))
<1>1. DOMAIN s = Fields /\ s["part"] \in Int /\ s["conc"] \in Int /\ s["conns"] \in Int
  BY FieldsAre DEF Typed, Numeric
<1>2. \A v \in Int : Default(Default(v, 2), 2) = Default(v, 2)
  BY DEF Default
<1>3. QED
  BY <1>1, <1>2, DefaultsAre DEF Same, MaxPart, DefaultConc, DefaultConns

\* An update leaves the fields it does not name; the page makes its directory
\* absolute.
LEMMA PatchedTyped ==
  ASSUME NEW s, Typed(s), NEW p \in Patches
  PROVE  /\ Typed(Patched(s, p)) /\ Typed(Patched(s, Asked(p)))
         /\ LET n == Patched(s, Asked(p)) IN Normal(n.root) \/ n.root = s.root
<1> DEFINE q == Asked(p)
           m == Patched(s, p)
           n == Patched(s, q)
<1>1. DOMAIN p \subseteq Fields /\ \A f \in DOMAIN p : p[f] \in Values(f)
  BY PatchesAssumption
<1>2. /\ DOMAIN q = DOMAIN p
      /\ \A f \in DOMAIN p \ {"root"} : q[f] = p[f]
      /\ "root" \in DOMAIN p => q["root"] = NormalizeLocalRoot[p["root"]]
  BY DEF Asked
<1>3. "root" \in DOMAIN p => q["root"] \in Values("root") /\ Normal(q["root"])
  BY <1>1, <1>2, FieldsAre, NormalizeAssumption
<1>4. \A f \in DOMAIN q : q[f] \in Values(f)
  BY <1>1, <1>2, <1>3
<1>5. /\ DOMAIN m = Fields /\ \A f \in Fields : m[f] = IF f \in DOMAIN p THEN p[f] ELSE s[f]
      /\ DOMAIN n = Fields /\ \A f \in Fields : n[f] = IF f \in DOMAIN q THEN q[f] ELSE s[f]
  BY DEF Patched
<1> HIDE DEF q, m, n
<1>6. Typed(m) /\ Typed(n)
  BY <1>1, <1>4, <1>5 DEF Typed
<1>7. Normal(n.root) \/ n.root = s.root
  BY <1>2, <1>3, <1>5, FieldsAre
<1>8. QED
  BY <1>6, <1>7 DEF q, m, n

Env == WithDefaults(Environment)

LEMMA EnvironmentTyped == Checked(Env) /\ DOMAIN Env = Fields /\ Env.creds = Environment.creds
                          /\ Env.level = Environment.level /\ Env.root = Environment.root
<1>1. Typed(Environment)
  BY EnvironmentAssumption DEF Typed
<1>2. QED
  BY <1>1, DefaultsTyped, DefaultsAre, EnvironmentAssumption DEF Env, Checked, Typed

RowTyped == DOMAIN settingRow \subseteq Fields /\ \A f \in DOMAIN settingRow : settingRow[f] \in Values(f)

\* What a restart reads, field by field.
StoredIs ==
  /\ DOMAIN Stored = Fields
  /\ \A f \in Fields \ DOMAIN settingRow : Stored[f] = Env[f]
  /\ \A f \in DOMAIN settingRow \ {"creds", "level", "root"} : Stored[f] = settingRow[f]
  /\ "root" \in DOMAIN settingRow => Stored["root"] = NormalizeLocalRoot[settingRow["root"]]
  /\ "level" \in DOMAIN settingRow =>
       Stored["level"] = IF settingRow["level"] = "" THEN Env["level"] ELSE settingRow["level"]
  /\ "creds" \in DOMAIN settingRow =>
       /\ Stored["creds"] \in Values("creds") /\ Stored["creds"].id = settingRow["creds"].id
       /\ settingRow["creds"].hash # "" => Stored["creds"] = settingRow["creds"]
       /\ settingRow["creds"].hash = Environment.creds.hash => Stored["creds"] = settingRow["creds"]
       /\ settingRow["creds"].hash = "" => Stored["creds"].hash = Environment.creds.hash

LEMMA StoredFields == RowTyped => StoredIs
<1> SUFFICES ASSUME RowTyped PROVE StoredIs
  OBVIOUS
<1> DEFINE row == settingRow
<1>1. Stored = [f \in Fields |-> IF f \in DOMAIN row THEN Loads(f, row[f], Env[f]) ELSE Env[f]]
  BY DEF Stored, Env
<1>2. DOMAIN Stored = Fields /\ DOMAIN row \subseteq Fields
  BY <1>1 DEF RowTyped
<1>3. \A f \in Fields \ DOMAIN row : Stored[f] = Env[f]
  BY <1>1
<1>4. /\ \A f \in DOMAIN row \ {"creds", "level", "root"} : Stored[f] = row[f]
      /\ "root" \in DOMAIN row => Stored["root"] = NormalizeLocalRoot[row["root"]]
  BY <1>1, <1>2 DEF Loads
<1>5. "level" \in DOMAIN row => Stored["level"] = IF row["level"] = "" THEN Env["level"] ELSE row["level"]
  BY <1>1, <1>2 DEF Loads
<1>6. ASSUME "creds" \in DOMAIN row
      PROVE  /\ Stored["creds"] \in Values("creds") /\ Stored["creds"].id = row["creds"].id
             /\ row["creds"].hash # "" => Stored["creds"] = row["creds"]
             /\ row["creds"].hash = Environment.creds.hash => Stored["creds"] = row["creds"]
             /\ row["creds"].hash = "" => Stored["creds"].hash = Environment.creds.hash
  <2> DEFINE v == row["creds"]
             w == Env["creds"]
  <2>1. v \in [id : Int, hash : STRING] /\ w \in [id : Int, hash : STRING] /\ w = Environment.creds
    BY <1>2, <1>6, FieldsAre, EnvironmentTyped DEF RowTyped, Checked, Typed
  <2>2. Stored["creds"] = [v EXCEPT !.hash = IF v.hash = "" THEN w.hash ELSE v.hash]
    BY <1>1, <1>2, <1>6 DEF Loads
  <2> HIDE DEF v, w
  <2>3. v.hash # "" \/ v.hash = w.hash => [v EXCEPT !.hash = IF v.hash = "" THEN w.hash ELSE v.hash] = v
    BY <2>1
  <2>4. [v EXCEPT !.hash = IF v.hash = "" THEN w.hash ELSE v.hash] \in [id : Int, hash : STRING]
        /\ [v EXCEPT !.hash = IF v.hash = "" THEN w.hash ELSE v.hash].id = v.id
        /\ v.hash = "" => [v EXCEPT !.hash = IF v.hash = "" THEN w.hash ELSE v.hash].hash = w.hash
    BY <2>1
  <2>5. QED
    BY <2>1, <2>2, <2>3, <2>4, FieldsAre DEF v, w
<1>7. QED
  BY <1>2, <1>3, <1>4, <1>5, <1>6 DEF StoredIs

LEMMA StoredTyped ==
  ASSUME RowTyped
  PROVE  Typed(Stored) /\ Normal(Stored.root)
<1>1. /\ DOMAIN Stored = Fields
      /\ \A f \in Fields \ DOMAIN settingRow : Stored[f] = Env[f]
      /\ \A f \in DOMAIN settingRow \ {"creds", "level", "root"} : Stored[f] = settingRow[f]
      /\ "root" \in DOMAIN settingRow => Stored["root"] = NormalizeLocalRoot[settingRow["root"]]
      /\ "level" \in DOMAIN settingRow =>
              Stored["level"] = IF settingRow["level"] = "" THEN Env["level"] ELSE settingRow["level"]
      /\ "creds" \in DOMAIN settingRow => Stored["creds"] \in Values("creds")
  BY StoredFields DEF StoredIs
<1>2. \A f \in Fields : Env[f] \in Values(f)
  BY EnvironmentTyped DEF Checked, Typed
<1>3. \A f \in Fields : Stored[f] \in Values(f)
  <2>1. SUFFICES ASSUME NEW f \in Fields PROVE Stored[f] \in Values(f)
    OBVIOUS
  <2>2. CASE f \notin DOMAIN settingRow
    BY <1>1, <1>2, <2>2
  <2>3. CASE f \in DOMAIN settingRow \ {"creds", "level", "root"}
    BY <1>1, <2>3 DEF RowTyped
  <2>4. CASE f \in DOMAIN settingRow /\ f = "creds"
    BY <1>1, <2>4
  <2>5. CASE f \in DOMAIN settingRow /\ f = "level"
    BY <1>1, <1>2, <2>5 DEF RowTyped
  <2>6. CASE f \in DOMAIN settingRow /\ f = "root"
    BY <1>1, <2>6, FieldsAre, NormalizeAssumption DEF RowTyped
  <2>7. QED
    BY <2>2, <2>3, <2>4, <2>5, <2>6
<1>4. Normal(Stored.root)
  <2>1. CASE "root" \in DOMAIN settingRow
    BY <1>1, <2>1, FieldsAre, NormalizeAssumption DEF RowTyped
  <2>2. CASE "root" \notin DOMAIN settingRow
    BY <1>1, <2>2, FieldsAre, EnvironmentTyped, NormalizeAssumption
  <2>3. QED
    BY <2>1, <2>2
<1>5. QED
  BY <1>1, <1>3, <1>4 DEF Typed

\* What is stored as a whole is read back, but for an empty hash or log level or a
\* directory that is not absolute.
Yields(s) ==
  /\ RowTyped /\ Checked(s) /\ settingRow = s /\ Normal(s.root)
  /\ s.creds.hash = "" => Environment.creds.hash = ""
  => Valid(Stored) /\ Same(Stored, s)

LEMMA RowsYield == \A s : Yields(s)
<1> SUFFICES ASSUME NEW s, RowTyped, Checked(s), settingRow = s, Normal(s.root),
                    s.creds.hash = "" => Environment.creds.hash = ""
             PROVE  Valid(Stored) /\ Same(Stored, s)
  BY DEF Yields
<1>1. DOMAIN settingRow = Fields
  BY DEF Checked, Typed
<1>2. \A f \in Fields \ {"creds", "level"} : Stored[f] = s[f]
  BY <1>1, StoredFields, FieldsAre DEF StoredIs, Normal
<1>3. Stored.creds = s.creds
  BY <1>1, StoredFields, FieldsAre DEF StoredIs
<1>4. s.level \in {"", Stored.level}
  BY <1>1, StoredFields, FieldsAre DEF StoredIs
<1>5. QED
  BY <1>2, <1>3, <1>4, FieldsAre DEF Checked, Valid, Same, Numeric

\* Credentials that are stored alone change nothing else a restart reads.
LEMMA MirrorYields ==
  ASSUME RowTyped, NEW w \in Values("creds"), Complete(w),
         settingRow' = [f \in DOMAIN settingRow \cup {"creds"} |-> IF f = "creds" THEN w ELSE settingRow[f]]
  PROVE  /\ RowTyped' /\ (Valid(Stored) => Valid(Stored)')
         /\ \A f \in Fields \ {"creds"} : Stored'[f] = Stored[f]
         /\ Stored'["creds"] = w
<1> DEFINE row == settingRow'
<1>1. /\ DOMAIN row = DOMAIN settingRow \cup {"creds"} /\ row["creds"] = w
      /\ \A f \in DOMAIN settingRow \ {"creds"} : row[f] = settingRow[f]
  OBVIOUS
<1>2. RowTyped'
  BY <1>1, FieldsAre DEF RowTyped
<1>3. w.hash # "" /\ w.id > 0
  BY DEF Complete
<1>7. StoredIs /\ StoredIs'
  BY <1>2, StoredFields, PTL
<1>4. Stored'["creds"] = w
  BY <1>1, <1>3, <1>7 DEF StoredIs
<1>5. \A f \in Fields \ {"creds"} : Stored'[f] = Stored[f]
  BY <1>1, <1>7, ZenonT(60) DEF StoredIs
<1>6. ASSUME Valid(Stored) PROVE Valid(Stored)'
  <2>1. /\ Stored'["part"] = Stored["part"] /\ Stored'["segment"] = Stored["segment"]
        /\ Stored'["pool"] = Stored["pool"] /\ Stored'["conc"] = Stored["conc"]
        /\ Stored'["conns"] = Stored["conns"]
    BY <1>5, FieldsAre DEF Numeric
  <2>2. Stored'["creds"].id >= 0
    <3>4. w \in [id : Int, hash : STRING]
      BY FieldsAre
    <3>1. w.id \in Int /\ w.id > 0
      BY <1>3, <3>4
    <3>2. w.id >= 0
      BY <3>1
    <3>3. QED
      BY <1>4, <3>2
  <2>3. QED
    BY <1>6, <2>1, <2>2 DEF Valid
<1>8. QED
  BY <1>2, <1>4, <1>5, <1>6

\* What there is to say when nobody but c is past its arrival or the lock.
OthersWait(c) ==
  \A d \in Updaters \ {c} : Waits(d) /\ (Doing(d, "idle") \/ (c \in Panels /\ d \in Panels))

Unequal == {"publish", "hostApply", "hostStore"}
Reflecting == {"reread", "reflect"}
Ungated == {"apply", "hostApply"}

RowsAt(c) ==
  ~unsaved /\ upd[c].step \notin Unequal =>
    /\ Valid(Stored)
    /\ Same(Stored, IF upd[c].step \in Reflecting THEN [published EXCEPT !.creds = Wanted(c)] ELSE published)

GateAt(c) ==
  upd[c].step \notin Ungated => gate = Default(published.conc, DefaultConc)

TypedAt(c) ==
  /\ DOMAIN upd[c] = {"step", "patch", "old", "new", "todo", "acct"}
  /\ c \in Panels => upd[c].step \in PanelSteps
  /\ c \in Wizards => upd[c].step \in WizardSteps
  /\ c \in Guests => upd[c].step \in GuestSteps
  /\ upd[c].step # "idle" => upd[c].patch \in Patches

LEMMA Waiting ==
  ASSUME SettingsIInv, NEW c \in Updaters, ~Waits(c)
  PROVE  OthersWait(c)
  BY DEF SettingsIInv, OneUpdate, OthersWait, Waits

LEMMA AtOne ==
  ASSUME SettingsIInv, NEW c \in Updaters, OthersWait(c)
  PROVE  RowsAt(c) /\ GateAt(c) /\ UpdateFits(c) /\ TypedAt(c) /\ RowTyped /\ Typed(published)
<1>1. \A d \in Updaters : d = c \/ upd[d].step \in {"idle", "lock"}
  BY DEF OthersWait, Waits, Doing
<1>2. RowsAt(c)
  <2>1. CASE upd[c].step \in Reflecting
    <3>1. SUFFICES ASSUME ~unsaved
                   PROVE  Valid(Stored) /\ Same(Stored, [published EXCEPT !.creds = Wanted(c)])
      BY <2>1 DEF RowsAt
    <3>2. RowsAgree
      BY DEF SettingsIInv
    <3>3. \A d \in Updaters : ~(upd[d].step \in {"publish", "hostApply", "hostStore"})
      BY <1>1, <2>1 DEF Reflecting
    <3>4. \E d \in Updaters : upd[d].step \in {"reread", "reflect"} /\ Same(Stored, [published EXCEPT !.creds = Wanted(d)])
      BY <2>1, <3>1, <3>2, <3>3 DEF RowsAgree, Reflecting
    <3>5. QED
      BY <1>1, <3>1, <3>2, <3>3, <3>4 DEF RowsAgree
  <2>2. CASE upd[c].step \notin Reflecting
    <3>1. SUFFICES ASSUME ~unsaved, upd[c].step \notin Unequal
                   PROVE  Valid(Stored) /\ Same(Stored, published)
      BY <2>2 DEF RowsAt
    <3>2. RowsAgree
      BY DEF SettingsIInv
    <3>3. \A d \in Updaters : ~(upd[d].step \in {"publish", "hostApply", "hostStore"}) /\ upd[d].step \notin {"reread", "reflect"}
      BY <1>1, <2>2, <3>1 DEF Reflecting, Unequal
    <3>4. QED
      BY <3>1, <3>2, <3>3 DEF RowsAgree
  <2>3. QED
    BY <2>1, <2>2
<1>3. GateAt(c)
  BY <1>1 DEF SettingsIInv, GateFits, GateAt, Ungated
<1>4. QED
  BY <1>2, <1>3 DEF SettingsIInv, UpdatesTyped, TypedAt, RowTyped

\* A caller moves on.
LEMMA Moves ==
  ASSUME SettingsIInv, NEW c \in Updaters, OthersWait(c),
         DOMAIN upd' = Updaters, \A d \in Updaters \ {c} : upd'[d] = upd[d],
         Typed(published)', RowTyped', TypedAt(c)', UpdateFits(c)', RowsAt(c)', GateAt(c)'
  PROVE  SettingsIInv'
<1>1. \A d \in Updaters \ {c} : upd'[d].step \in {"idle", "lock"} /\ upd'[d] = upd[d]
  BY DEF OthersWait, Waits, Doing
<1>2. UpdatesTyped'
  BY <1>1 DEF SettingsIInv, UpdatesTyped, TypedAt
<1>3. OneUpdate'
  BY <1>1 DEF OneUpdate, OthersWait, Waits, Doing
<1>4. \A d \in Updaters : UpdateFits(d)'
  <2>1. SUFFICES ASSUME NEW d \in Updaters, d # c PROVE UpdateFits(d)'
    OBVIOUS
  <2>2. upd'[d].step \in {"idle", "lock"}
    BY <1>1, <2>1
  <2>3. QED
    BY <2>2 DEF UpdateFits, Adopting
<1>5. RowsAgree'
  <2>1. SUFFICES ASSUME ~unsaved', upd'[c].step \notin Unequal
                 PROVE  /\ Valid(Stored)'
                        /\ \/ upd'[c].step \in Reflecting /\ Same(Stored, [published EXCEPT !.creds = Wanted(c)])'
                           \/ upd'[c].step \notin Reflecting /\ Same(Stored, published)'
    BY <1>1 DEF RowsAgree, Unequal, Reflecting
  <2>2. QED
    BY <2>1 DEF RowsAt
<1>6. GateFits'
  BY <1>1 DEF GateFits, GateAt, Ungated
<1>7. QED
  BY <1>2, <1>3, <1>4, <1>5, <1>6 DEF SettingsIInv, RowTyped

LEMMA GoMoves ==
  ASSUME SettingsIInv, NEW c \in Updaters, NEW step, Go(c, step)
  PROVE  /\ DOMAIN upd' = Updaters /\ \A d \in Updaters \ {c} : upd'[d] = upd[d]
         /\ DOMAIN upd'[c] = {"step", "patch", "old", "new", "todo", "acct"}
         /\ upd'[c].step = step /\ upd'[c].patch = upd[c].patch
         /\ upd'[c].old = upd[c].old /\ upd'[c].new = upd[c].new
<1>1. DOMAIN upd = Updaters /\ DOMAIN upd[c] = {"step", "patch", "old", "new", "todo", "acct"}
  BY DEF SettingsIInv, UpdatesTyped
<1>2. QED
  BY <1>1 DEF Go

LEMMA OverMoves ==
  ASSUME SettingsIInv, NEW c \in Updaters, Over(c)
  PROVE  /\ DOMAIN upd' = Updaters /\ \A d \in Updaters \ {c} : upd'[d] = upd[d]
         /\ TypedAt(c)' /\ UpdateFits(c)' /\ upd'[c].step = "idle"
<1>1. DOMAIN upd = Updaters
  BY DEF SettingsIInv, UpdatesTyped
<1>2. upd'[c] = NoUpdate /\ \A d \in Updaters \ {c} : upd'[d] = upd[d]
  BY <1>1 DEF Over
<1>3. DOMAIN upd'[c] = {"step", "patch", "old", "new", "todo", "acct"} /\ upd'[c].step = "idle"
  BY <1>2 DEF NoUpdate
<1>4. TypedAt(c)'
  BY <1>3 DEF TypedAt, PanelSteps, WizardSteps, GuestSteps
<1>5. UpdateFits(c)'
  BY <1>3 DEF UpdateFits, Adopting
<1>6. DOMAIN upd' = Updaters
  BY <1>1 DEF Over
<1>7. QED
  BY <1>2, <1>3, <1>4, <1>5, <1>6

LEMMA RowsKept ==
  ASSUME UNCHANGED settingRow
  PROVE  Stored' = Stored /\ (RowTyped <=> RowTyped')
  BY DEF Stored, RowTyped

\* A step that leaves the snapshot, the rows and the gate alone.
Calm == {"publish", "apply", "reread", "reflect", "hostApply", "hostStore"}

LEMMA Aside ==
  ASSUME SettingsIInv, NEW c \in Updaters, OthersWait(c),
         UNCHANGED <<published, settingRow, gate, unsaved>>,
         upd[c].step \notin Calm, upd'[c].step \notin Calm,
         DOMAIN upd' = Updaters, \A d \in Updaters \ {c} : upd'[d] = upd[d],
         TypedAt(c)', UpdateFits(c)'
  PROVE  SettingsIInv'
<1>1. RowsAt(c) /\ GateAt(c) /\ RowTyped /\ Typed(published)
  BY AtOne
<1>2. Stored' = Stored /\ RowTyped'
  BY <1>1, RowsKept
<1>3. RowsAt(c)'
  BY <1>1, <1>2 DEF RowsAt, Calm, Unequal, Reflecting, Valid, Same
<1>4. GateAt(c)'
  BY <1>1 DEF GateAt, Calm, Ungated
<1>5. Typed(published)'
  BY <1>1 DEF Typed
<1>6. QED
  BY <1>2, <1>3, <1>4, <1>5, Moves

LEMMA KindOf ==
  ASSUME SettingsIInv, NEW c \in Updaters
  PROVE  /\ upd[c].step \in {"lock", "store", "publish", "apply"} => c \in Panels
         /\ upd[c].step \in {"hostRead", "hostPublish", "hostApply", "hostStore"} => c \in Guests
         /\ upd[c].step \in Adopting \cup Dials => c \notin Guests
         /\ c \in Panels => c \notin Guests \cup Wizards
  BY KindsAssumption DEF SettingsIInv, UpdatesTyped, Updaters, PanelSteps, WizardSteps, GuestSteps, Adopting, Dials

LEMMA ReadSettingsKeeps ==
  ASSUME SettingsIInv, NEW c \in Updaters, ReadSettings(c)
  PROVE  SettingsIInv'
<1> DEFINE old == WithDefaults(published)
           new == Patched(old, Asked(upd[c].patch))
<1>1. /\ upd[c].step = "lock" /\ c \in Panels /\ \A d \in Panels : ~Locked(d)
      /\ UNCHANGED <<published, settingRow, gate, unsaved>>
  BY KindOf DEF ReadSettings, Doing
<1>2. OthersWait(c)
  BY <1>1 DEF SettingsIInv, OneUpdate, OthersWait, Waits, Doing, Locked
<1>3. CASE Over(c)
  BY <1>1, <1>2, <1>3, OverMoves, Aside DEF Calm
<1>4. CASE /\ Valid(new) /\ CredentialsAllowed(old, new)
           /\ upd' = [upd EXCEPT ![c] = [@ EXCEPT !.step = "store", !.old = old, !.new = new]]
  <2>1. DOMAIN upd = Updaters /\ TypedAt(c) /\ Typed(published)
    BY <1>2, AtOne DEF SettingsIInv, UpdatesTyped
  <2>2. /\ DOMAIN upd' = Updaters /\ \A d \in Updaters \ {c} : upd'[d] = upd[d]
        /\ DOMAIN upd'[c] = {"step", "patch", "old", "new", "todo", "acct"}
        /\ upd'[c].step = "store" /\ upd'[c].patch = upd[c].patch
        /\ upd'[c].old = old /\ upd'[c].new = new
    BY <1>4, <2>1 DEF TypedAt
  <2>3. upd[c].patch \in Patches
    BY <1>1, <2>1 DEF TypedAt
  <2>4. Typed(old) /\ old.creds = published.creds /\ old.root = published.root
    BY <2>1, DefaultsTyped, DefaultsAre DEF Typed
  <2>5. Typed(new) /\ (Normal(new.root) \/ new.root = published.root)
    BY <2>3, <2>4, PatchedTyped
  <2> HIDE DEF old, new
  <2>6. TypedAt(c)'
    BY <1>1, <2>2, <2>3, KindsAssumption DEF TypedAt, PanelSteps
  <2>7. UpdateFits(c)'
    BY <1>1, <1>4, <2>2, <2>4, <2>5 DEF UpdateFits, Checked, Adopting
  <2>8. QED
    BY <1>1, <1>2, <2>2, <2>6, <2>7, Aside DEF Calm
<1>5. QED
  BY <1>3, <1>4 DEF ReadSettings

LEMMA StoreSettingsKeeps ==
  ASSUME SettingsIInv, NEW c \in Updaters, StoreSettings(c)
  PROVE  SettingsIInv'
<1> DEFINE u == upd[c]
<1>1. u.step = "store" /\ UNCHANGED <<published, gate>>
  BY DEF StoreSettings, Doing
<1>2. OthersWait(c) /\ c \in Panels
  BY <1>1, Waiting, KindOf DEF Waits, Doing
<1>3. RowsAt(c) /\ GateAt(c) /\ UpdateFits(c) /\ TypedAt(c) /\ RowTyped /\ Typed(published)
  BY <1>2, AtOne
<1>4. CASE Over(c) /\ UNCHANGED <<settingRow, unsaved>>
  BY <1>1, <1>2, <1>4, OverMoves, Aside DEF Calm
<1>5. CASE settingRow' = u.new /\ Go(c, "publish") /\ unsaved' = (unsaved /\ LoadsOther(u.new))
  <2>1. /\ DOMAIN upd' = Updaters /\ \A d \in Updaters \ {c} : upd'[d] = upd[d]
        /\ DOMAIN upd'[c] = {"step", "patch", "old", "new", "todo", "acct"}
        /\ upd'[c].step = "publish" /\ upd'[c].patch = u.patch
        /\ upd'[c].old = u.old /\ upd'[c].new = u.new
    BY <1>5, GoMoves
  <2>2. /\ Checked(u.new) /\ CredentialsAllowed(u.old, u.new) /\ u.old.creds = published.creds
        /\ Normal(u.new.root) \/ u.new.root = published.root
    BY <1>1, <1>3 DEF UpdateFits
  <2>3. TypedAt(c)'
    BY <1>1, <1>2, <1>3, <2>1, KindsAssumption DEF TypedAt, PanelSteps
  <2>4. RowTyped'
    BY <1>5, <2>2 DEF RowTyped, Checked, Typed
  <2>5. ASSUME ~unsaved', u.new.creds.hash = ""
        PROVE  Environment.creds.hash = ""
    <3>1. ~unsaved
      BY <1>5, <2>5 DEF LoadsOther
    <3>2. Stored.creds = published.creds
      BY <1>1, <1>3, <3>1 DEF RowsAt, Unequal, Reflecting, Same
    <3>3. published.creds = u.new.creds
      BY <2>2, <2>5 DEF CredentialsAllowed, Complete
    <3>4. Stored.creds.hash = ""
      BY <2>5, <3>2, <3>3
    <3>5. StoredIs
      BY <1>3, StoredFields
    <3>6. CASE "creds" \in DOMAIN settingRow
      BY <3>4, <3>5, <3>6 DEF StoredIs
    <3>7. CASE "creds" \notin DOMAIN settingRow
      BY <3>4, <3>5, <3>7, EnvironmentTyped, FieldsAre DEF StoredIs
    <3>8. QED
      BY <3>6, <3>7
  <2>10. ASSUME ~unsaved' PROVE Normal(u.new.root)
    <3>1. CASE unsaved
      BY <1>5, <2>10, <3>1 DEF LoadsOther
    <3>2. CASE ~unsaved
      <4>1. Stored.root = published.root
        BY <1>1, <1>3, <3>2 DEF RowsAt, Unequal, Reflecting, Same
      <4>2. Normal(Stored.root)
        BY <1>3, StoredTyped
      <4>3. QED
        BY <2>2, <4>1, <4>2
    <3>3. QED
      BY <3>1, <3>2
  <2>6. UpdateFits(c)'
    BY <1>5, <2>1, <2>2, <2>5, <2>10 DEF UpdateFits, CredentialsAllowed, Adopting, Normal
  <2>7. RowsAt(c)' /\ GateAt(c)'
    BY <1>1, <1>3, <2>1 DEF RowsAt, GateAt, Unequal, Ungated
  <2>8. Typed(published)'
    BY <1>1, <1>3 DEF Typed
  <2>9. QED
    BY <1>2, <2>1, <2>3, <2>4, <2>6, <2>7, <2>8, Moves
<1>6. QED
  BY <1>4, <1>5 DEF StoreSettings

\* Facts about the caller that moves.
LEMMA Mover ==
  ASSUME SettingsIInv, NEW c \in Updaters, upd[c].step \notin {"idle", "lock"}
  PROVE  /\ OthersWait(c)
         /\ RowsAt(c) /\ GateAt(c) /\ UpdateFits(c) /\ TypedAt(c) /\ RowTyped /\ Typed(published)
         /\ Stored' = Stored \/ settingRow' # settingRow
  BY Waiting, AtOne, RowsKept DEF Waits, Doing

LEMMA PublishKeeps ==
  ASSUME SettingsIInv, NEW c \in Updaters, Publish(c)
  PROVE  SettingsIInv'
<1> DEFINE u == upd[c]
<1>1. u.step = "publish" /\ UNCHANGED <<settingRow, gate, unsaved>> /\ published' = u.new /\ Go(c, "apply")
  BY DEF Publish, Doing
<1>2. /\ OthersWait(c) /\ c \in Panels /\ UpdateFits(c) /\ TypedAt(c) /\ RowTyped
      /\ Stored' = Stored
  BY <1>1, Mover, KindOf
<1>3. /\ DOMAIN upd' = Updaters /\ \A d \in Updaters \ {c} : upd'[d] = upd[d]
      /\ DOMAIN upd'[c] = {"step", "patch", "old", "new", "todo", "acct"}
      /\ upd'[c].step = "apply" /\ upd'[c].patch = u.patch
      /\ upd'[c].old = u.old /\ upd'[c].new = u.new
  BY <1>1, GoMoves
<1>4. /\ Checked(u.new) /\ settingRow = u.new
      /\ u.old.creds # u.new.creds => Complete(u.new.creds)
      /\ ~unsaved /\ u.new.creds.hash = "" => Environment.creds.hash = ""
      /\ ~unsaved => Normal(u.new.root)
  BY <1>1, <1>2 DEF UpdateFits
<1>5. TypedAt(c)'
  BY <1>1, <1>2, <1>3, KindsAssumption DEF TypedAt, PanelSteps
<1>6. Typed(published)' /\ RowTyped'
  BY <1>1, <1>2, <1>4 DEF Typed, Checked, RowTyped
<1>7. UpdateFits(c)'
  BY <1>1, <1>3, <1>4 DEF UpdateFits, Adopting, Normal
<1>8. RowsAt(c)'
  <2>1. SUFFICES ASSUME ~unsaved PROVE (Valid(Stored) /\ Same(Stored, u.new))
    BY <1>1, <1>2, <1>3 DEF RowsAt, Reflecting, Valid, Same
  <2>2. QED
    BY <1>2, <1>4, <2>1, RowsYield DEF Yields
<1>9. GateAt(c)'
  BY <1>3 DEF GateAt, Ungated
<1>10. QED
  BY <1>2, <1>3, <1>5, <1>6, <1>7, <1>8, <1>9, Moves

LEMMA ValidDefaults ==
  ASSUME NEW s, Checked(s)
  PROVE  Default(s.conc, DefaultConc) = s.conc
<1>1. s.conc \in Int /\ s.conc >= 1
  BY FieldsAre DEF Checked, Typed, Valid, Numeric
<1>2. QED
  BY <1>1 DEF Default

LEMMA ApplyKeeps ==
  ASSUME SettingsIInv, NEW c \in Updaters, Apply(c)
  PROVE  SettingsIInv'
<1> DEFINE u == upd[c]
<1>1. u.step = "apply" /\ UNCHANGED <<published, settingRow, unsaved>> /\ gate' = u.new.conc
  BY DEF Apply, Doing
<1>2. /\ OthersWait(c) /\ c \in Panels /\ UpdateFits(c) /\ TypedAt(c) /\ RowTyped /\ RowsAt(c)
      /\ Typed(published) /\ Stored' = Stored
  BY <1>1, Mover, KindOf
<1>3. /\ Checked(u.new) /\ published = u.new
      /\ u.old.creds # u.new.creds => Complete(u.new.creds)
  BY <1>1, <1>2 DEF UpdateFits
<1>4. RowsAt(c) => (~unsaved => Valid(Stored) /\ Same(Stored, published))
  BY <1>1 DEF RowsAt, Unequal, Reflecting
<1>5. gate' = Default(published.conc, DefaultConc)
  BY <1>1, <1>3, ValidDefaults
<1>6. Typed(published)' /\ RowTyped'
  BY <1>1, <1>2 DEF Typed, RowTyped
<1>7. ASSUME DOMAIN upd' = Updaters, \A d \in Updaters \ {c} : upd'[d] = upd[d],
             TypedAt(c)', UpdateFits(c)', upd'[c].step \notin Calm
      PROVE  SettingsIInv'
  <2>1. RowsAt(c)'
    BY <1>1, <1>2, <1>4, <1>7 DEF RowsAt, Calm, Reflecting, Valid, Same
  <2>2. GateAt(c)'
    BY <1>1, <1>5 DEF GateAt
  <2>3. QED
    BY <1>2, <1>6, <1>7, <2>1, <2>2, Moves
<1>8. CASE Over(c)
  BY <1>7, <1>8, OverMoves DEF Calm
<1>9. CASE /\ Go(c, "adopt")
           /\ u.old.creds # u.new.creds \/ Complete(u.new.creds)
  <2>1. /\ DOMAIN upd' = Updaters /\ \A d \in Updaters \ {c} : upd'[d] = upd[d]
        /\ DOMAIN upd'[c] = {"step", "patch", "old", "new", "todo", "acct"}
        /\ upd'[c].step = "adopt" /\ upd'[c].patch = u.patch /\ upd'[c].new = u.new
    BY <1>9, GoMoves
  <2>2. TypedAt(c)'
    BY <1>1, <1>2, <2>1, KindsAssumption DEF TypedAt, PanelSteps, Adopting
  <2>3. Complete(u.new.creds) /\ u.new.creds \in Values("creds")
    BY <1>3, <1>9, FieldsAre DEF Checked, Typed
  <2>4. UpdateFits(c)'
    BY <1>2, <2>1, <2>3 DEF UpdateFits, Wanted
  <2>5. QED
    BY <1>7, <2>1, <2>2, <2>4 DEF Calm
<1>10. CASE upd' = [upd EXCEPT ![c].step = "reload", ![c].todo = Logins]
  <2>1. DOMAIN upd = Updaters /\ DOMAIN upd[c] = {"step", "patch", "old", "new", "todo", "acct"}
    BY DEF SettingsIInv, UpdatesTyped
  <2>2. /\ DOMAIN upd' = Updaters /\ \A d \in Updaters \ {c} : upd'[d] = upd[d]
        /\ DOMAIN upd'[c] = {"step", "patch", "old", "new", "todo", "acct"}
        /\ upd'[c].step = "reload" /\ upd'[c].patch = u.patch
    BY <1>10, <2>1
  <2>3. TypedAt(c)'
    BY <1>1, <1>2, <2>2, KindsAssumption DEF TypedAt, PanelSteps, Dials
  <2>4. UpdateFits(c)'
    BY <2>2 DEF UpdateFits, Adopting
  <2>5. QED
    BY <1>7, <2>2, <2>3, <2>4 DEF Calm
<1>11. QED
  BY <1>8, <1>9, <1>10 DEF Apply

\* A step between two that say nothing of the settings.
LEMMA DialStep ==
  ASSUME SettingsIInv, NEW c \in Updaters, upd[c].step \in {"dial", "await", "reload"},
         DOMAIN upd' = Updaters, \A d \in Updaters \ {c} : upd'[d] = upd[d],
         DOMAIN upd'[c] = {"step", "patch", "old", "new", "todo", "acct"},
         upd'[c].step \in Dials, upd'[c].patch = upd[c].patch,
         UNCHANGED <<published, settingRow, gate, unsaved>>
  PROVE  SettingsIInv'
<1>1. OthersWait(c) /\ TypedAt(c) /\ c \notin Guests
  BY Mover, KindOf DEF Dials
<1>2. TypedAt(c)'
  BY <1>1 DEF TypedAt, PanelSteps, WizardSteps, Dials
<1>3. UpdateFits(c)'
  BY DEF UpdateFits, Adopting, Dials
<1>4. upd[c].step \notin Calm /\ upd'[c].step \notin Calm
  BY DEF Calm, Dials
<1>5. QED
  BY <1>1, <1>2, <1>3, <1>4, Aside

LEMMA DialsKeep ==
  ASSUME SettingsIInv, NEW c \in Updaters, ReloadNext(c) \/ Await(c) \/ DialMain(c)
  PROVE  SettingsIInv'
<1>1. UNCHANGED <<published, settingRow, gate, unsaved>> /\ upd[c].step \in {"dial", "await", "reload"}
  BY DEF ReloadNext, Await, DialMain, Doing
<1>2. DOMAIN upd = Updaters /\ DOMAIN upd[c] = {"step", "patch", "old", "new", "todo", "acct"}
  BY DEF SettingsIInv, UpdatesTyped
<1>3. CASE Over(c)
  <2>1. OthersWait(c)
    BY <1>1, Mover
  <2>2. QED
    BY <1>1, <1>3, <2>1, OverMoves, Aside DEF Calm
<1>4. CASE /\ DOMAIN upd' = Updaters /\ \A d \in Updaters \ {c} : upd'[d] = upd[d]
           /\ DOMAIN upd'[c] = {"step", "patch", "old", "new", "todo", "acct"}
           /\ upd'[c].step \in Dials /\ upd'[c].patch = upd[c].patch
  BY <1>1, <1>4, DialStep
<1>5. CASE Await(c) \/ DialMain(c)
  <2>1. /\ DOMAIN upd' = Updaters /\ \A d \in Updaters \ {c} : upd'[d] = upd[d]
        /\ DOMAIN upd'[c] = {"step", "patch", "old", "new", "todo", "acct"}
        /\ upd'[c].step \in Dials /\ upd'[c].patch = upd[c].patch
    BY <1>2, <1>5, GoMoves DEF Await, DialMain, Dials
  <2>2. QED
    BY <1>4, <2>1
<1>6. CASE ReloadNext(c) /\ ~Over(c)
  <2>1. PICK a \in upd[c].todo :
          IF conn[a].is = "ready"
            THEN upd' = [upd EXCEPT ![c].todo = @ \ {a}, ![c].acct = a, ![c].step = "await"]
            ELSE upd' = [upd EXCEPT ![c].todo = @ \ {a}]
    BY <1>6 DEF ReloadNext
  <2>2. upd[c].step = "reload"
    BY <1>6 DEF ReloadNext, Doing
  <2>3. /\ DOMAIN upd' = Updaters /\ \A d \in Updaters \ {c} : upd'[d] = upd[d]
        /\ DOMAIN upd'[c] = {"step", "patch", "old", "new", "todo", "acct"}
        /\ upd'[c].step \in Dials /\ upd'[c].patch = upd[c].patch
    <3>1. CASE conn[a].is = "ready"
      BY <1>2, <2>1, <3>1 DEF Dials
    <3>2. CASE conn[a].is # "ready"
      BY <1>2, <2>1, <2>2, <3>2 DEF Dials
    <3>3. QED
      BY <3>1, <3>2
  <2>4. QED
    BY <1>4, <2>3
<1>7. QED
  BY <1>3, <1>5, <1>6

\* Configure goes on, with the credentials it was given.
LEMMA AdoptingStep ==
  ASSUME SettingsIInv, NEW c \in Updaters, upd[c].step \in Adopting, NEW step \in Adopting, Go(c, step)
  PROVE  /\ DOMAIN upd' = Updaters /\ \A d \in Updaters \ {c} : upd'[d] = upd[d]
         /\ upd'[c].step = step /\ upd'[c].old = upd[c].old
         /\ TypedAt(c)' /\ Wanted(c)' = Wanted(c)
         /\ Complete(Wanted(c)) /\ Wanted(c) \in Values("creds")
<1>1. /\ DOMAIN upd' = Updaters /\ \A d \in Updaters \ {c} : upd'[d] = upd[d]
      /\ DOMAIN upd'[c] = {"step", "patch", "old", "new", "todo", "acct"}
      /\ upd'[c].step = step /\ upd'[c].patch = upd[c].patch
      /\ upd'[c].old = upd[c].old /\ upd'[c].new = upd[c].new
  BY GoMoves
<1>2. upd[c].step \notin {"idle", "lock"}
  BY DEF Adopting
<1>3. UpdateFits(c) /\ TypedAt(c) /\ c \notin Guests
  BY <1>2, Mover, KindOf
<1>4. TypedAt(c)'
  BY <1>1, <1>2, <1>3 DEF TypedAt, PanelSteps, WizardSteps, Adopting
<1>5. Wanted(c)' = Wanted(c)
  BY <1>1 DEF Wanted
<1>6. QED
  BY <1>1, <1>3, <1>4, <1>5 DEF UpdateFits

LEMMA AdoptCredentialsKeeps ==
  ASSUME SettingsIInv, NEW c \in Updaters, AdoptCredentials(c) \/ StoreAccount(c)
  PROVE  SettingsIInv'
<1>1. /\ upd[c].step \in {"adopt", "row"} /\ UNCHANGED <<published, settingRow, gate, unsaved>>
      /\ Over(c) \/ Go(c, "row") \/ Go(c, "mirror")
  BY DEF AdoptCredentials, StoreAccount, Doing
<1>2. OthersWait(c)
  BY <1>1, Mover
<1>3. CASE Over(c)
  BY <1>1, <1>2, <1>3, OverMoves, Aside DEF Calm
<1>4. ASSUME NEW step \in {"row", "mirror"}, Go(c, step) PROVE SettingsIInv'
  <2>1. /\ DOMAIN upd' = Updaters /\ \A d \in Updaters \ {c} : upd'[d] = upd[d]
        /\ upd'[c].step = step
        /\ TypedAt(c)' /\ Wanted(c)' = Wanted(c)
        /\ Complete(Wanted(c)) /\ Wanted(c) \in Values("creds")
    BY <1>1, <1>4, AdoptingStep DEF Adopting
  <2>2. UpdateFits(c)'
    BY <2>1 DEF UpdateFits
  <2>3. QED
    BY <1>1, <1>2, <2>1, <2>2, Aside DEF Calm
<1>5. QED
  BY <1>1, <1>3, <1>4

\* The snapshot with other credentials.
LEMMA WithCredentials ==
  ASSUME NEW s, DOMAIN s = Fields, NEW w
  PROVE  LET t == [s EXCEPT !.creds = w] IN
         DOMAIN t = Fields /\ t["creds"] = w /\ \A f \in Fields \ {"creds"} : t[f] = s[f]
  BY FieldsAre

LEMMA SameButCredentials ==
  ASSUME NEW s, NEW t, NEW u, NEW v, Same(s, t), u["creds"] = v["creds"],
         \A f \in Fields \ {"creds"} : u[f] = s[f] /\ v[f] = t[f]
  PROVE  Same(u, v)
  BY FieldsAre DEF Same, Numeric

LEMMA MirrorCredentialsKeeps ==
  ASSUME SettingsIInv, NEW c \in Updaters, MirrorCredentials(c)
  PROVE  SettingsIInv'
<1> DEFINE w == Wanted(c)
<1>1. upd[c].step = "mirror" /\ UNCHANGED <<published, gate, unsaved>>
  BY DEF MirrorCredentials, Doing
<1>2. /\ OthersWait(c) /\ RowsAt(c) /\ GateAt(c) /\ RowTyped /\ Typed(published)
  BY <1>1, Mover
<1>3. CASE UNCHANGED settingRow /\ Over(c)
  BY <1>1, <1>2, <1>3, OverMoves, Aside DEF Calm
<1>4. CASE /\ settingRow' = [f \in DOMAIN settingRow \cup {"creds"} |->
                              IF f = "creds" THEN Wanted(c) ELSE settingRow[f]]
           /\ Go(c, "reread")
  <2>1. /\ DOMAIN upd' = Updaters /\ \A d \in Updaters \ {c} : upd'[d] = upd[d]
        /\ upd'[c].step = "reread"
        /\ TypedAt(c)' /\ Wanted(c)' = w
        /\ Complete(w) /\ w \in Values("creds")
    BY <1>1, <1>4, AdoptingStep DEF Adopting
  <2> HIDE DEF w
  <2>2. /\ RowTyped' /\ (Valid(Stored) => Valid(Stored)')
        /\ \A f \in Fields \ {"creds"} : Stored'[f] = Stored[f]
        /\ Stored'["creds"] = w
    BY <1>2, <1>4, <2>1, MirrorYields DEF w
  <2>3. UpdateFits(c)'
    BY <2>1 DEF UpdateFits, Adopting
  <2>4. RowsAt(c)'
    <3> DEFINE t == [published EXCEPT !.creds = w]
    <3>1. SUFFICES ASSUME ~unsaved PROVE Valid(Stored)' /\ Same(Stored', t)
      BY <1>1, <2>1 DEF RowsAt, Reflecting, Same
    <3>2. Valid(Stored) /\ Same(Stored, published)
      BY <1>1, <1>2, <3>1 DEF RowsAt, Unequal, Reflecting
    <3>3. t["creds"] = w /\ \A f \in Fields \ {"creds"} : t[f] = published[f]
      BY <1>2, WithCredentials DEF Typed
    <3> HIDE DEF t
    <3>4. Same(Stored', t)
      BY <2>2, <3>2, <3>3, SameButCredentials
    <3>5. QED
      BY <2>2, <3>2, <3>4
  <2>5. GateAt(c)'
    BY <1>1, <1>2, <2>1 DEF GateAt, Ungated
  <2>6. Typed(published)'
    BY <1>1, <1>2 DEF Typed
  <2>7. QED
    BY <1>2, <2>1, <2>2, <2>3, <2>4, <2>5, <2>6, Moves
<1>5. QED
  BY <1>3, <1>4 DEF MirrorCredentials

LEMMA RereadKeeps ==
  ASSUME SettingsIInv, NEW c \in Updaters, Reread(c)
  PROVE  SettingsIInv'
<1>1. /\ upd[c].step = "reread" /\ UNCHANGED <<published, settingRow, gate, unsaved>>
      /\ upd' = [upd EXCEPT ![c].step = "reflect", ![c].old = WithDefaults(published)]
  BY DEF Reread, Doing
<1>2. /\ OthersWait(c) /\ RowsAt(c) /\ GateAt(c) /\ RowTyped /\ Typed(published) /\ TypedAt(c)
      /\ UpdateFits(c) /\ Stored' = Stored /\ c \notin Guests
  BY <1>1, Mover, KindOf DEF Adopting
<1>3. DOMAIN upd = Updaters /\ DOMAIN upd[c] = {"step", "patch", "old", "new", "todo", "acct"}
  BY DEF SettingsIInv, UpdatesTyped
<1>4. /\ DOMAIN upd' = Updaters /\ \A d \in Updaters \ {c} : upd'[d] = upd[d]
      /\ DOMAIN upd'[c] = {"step", "patch", "old", "new", "todo", "acct"}
      /\ upd'[c].step = "reflect" /\ upd'[c].patch = upd[c].patch
      /\ upd'[c].old = WithDefaults(published) /\ upd'[c].new = upd[c].new
  BY <1>1, <1>3
<1>5. TypedAt(c)'
  BY <1>1, <1>2, <1>4 DEF TypedAt, PanelSteps, WizardSteps, Adopting
<1>6. Wanted(c)' = Wanted(c) /\ Complete(Wanted(c)) /\ Wanted(c) \in Values("creds")
  BY <1>1, <1>2, <1>4 DEF Wanted, UpdateFits, Adopting
<1>7. WithDefaults(published)' = WithDefaults(published)
  BY <1>1 DEF WithDefaults
<1>8. UpdateFits(c)'
  BY <1>4, <1>6, <1>7 DEF UpdateFits
<1>9. RowsAt(c)'
  BY <1>1, <1>2, <1>4, <1>6 DEF RowsAt, Unequal, Reflecting, Valid, Same
<1>10. GateAt(c)'
  BY <1>1, <1>2, <1>4 DEF GateAt, Ungated
<1>11. Typed(published)' /\ RowTyped'
  BY <1>1, <1>2 DEF Typed, RowTyped
<1>12. QED
  BY <1>2, <1>4, <1>5, <1>8, <1>9, <1>10, <1>11, Moves

LEMMA ReflectKeeps ==
  ASSUME SettingsIInv, NEW c \in Updaters, Reflect(c)
  PROVE  SettingsIInv'
<1> DEFINE w == Wanted(c)
           d == WithDefaults(published)
           n == [d EXCEPT !.creds = w]
           t == [published EXCEPT !.creds = w]
<1>1. /\ upd[c].step = "reflect" /\ UNCHANGED <<settingRow, gate, unsaved>> /\ Go(c, "dial")
      /\ published' = [upd[c].old EXCEPT !.creds = Wanted(c)]
  BY DEF Reflect, Doing
<1>2. /\ OthersWait(c) /\ RowsAt(c) /\ GateAt(c) /\ RowTyped /\ Typed(published) /\ TypedAt(c)
      /\ UpdateFits(c) /\ Stored' = Stored /\ c \notin Guests
  BY <1>1, Mover, KindOf DEF Adopting
<1>3. published' = n /\ Complete(w) /\ w \in Values("creds")
  BY <1>1, <1>2 DEF UpdateFits, Adopting
<1>4. Typed(d) /\ DOMAIN d = Fields /\ DOMAIN published = Fields /\ Same(published, d)
  BY <1>2, DefaultsTyped, SameAsDefaults DEF Typed
<1>5. /\ DOMAIN upd' = Updaters /\ \A e \in Updaters \ {c} : upd'[e] = upd[e]
      /\ DOMAIN upd'[c] = {"step", "patch", "old", "new", "todo", "acct"}
      /\ upd'[c].step = "dial" /\ upd'[c].patch = upd[c].patch
  BY <1>1, GoMoves
<1> HIDE DEF w
<1>6. DOMAIN n = Fields /\ n["creds"] = w /\ \A f \in Fields \ {"creds"} : n[f] = d[f]
  BY <1>4, WithCredentials
<1>7. t["creds"] = w /\ \A f \in Fields \ {"creds"} : t[f] = published[f]
  BY <1>4, WithCredentials
<1> HIDE DEF n, t, d
<1>8. Same(t, n)
  BY <1>4, <1>6, <1>7, SameButCredentials
<1>9. Typed(n)
  BY <1>3, <1>4, <1>6, FieldsAre DEF Typed
<1>10. RowsAt(c)'
  <2>1. SUFFICES ASSUME ~unsaved PROVE Valid(Stored) /\ Same(Stored, n)
    BY <1>1, <1>2, <1>3, <1>5 DEF RowsAt, Reflecting, Valid, Same
  <2>2. Valid(Stored) /\ Same(Stored, t)
    BY <1>1, <1>2, <2>1 DEF RowsAt, Reflecting, Unequal, t, w
  <2>3. QED
    BY <1>8, <2>2, SameTrans
<1>11. GateAt(c)'
  <2>1. gate = Default(published.conc, DefaultConc)
    BY <1>1, <1>2 DEF GateAt, Ungated
  <2>2. Default(n.conc, DefaultConc) = Default(published.conc, DefaultConc)
    BY <1>8, <1>7, FieldsAre DEF Same, Numeric
  <2>3. QED
    BY <1>1, <1>3, <2>1, <2>2 DEF GateAt
<1>12. TypedAt(c)'
  BY <1>1, <1>2, <1>5 DEF TypedAt, PanelSteps, WizardSteps, Dials
<1>13. UpdateFits(c)'
  BY <1>5 DEF UpdateFits, Adopting
<1>14. Typed(published)' /\ RowTyped'
  BY <1>1, <1>2, <1>3, <1>9 DEF Typed, RowTyped
<1>15. QED
  BY <1>2, <1>5, <1>10, <1>11, <1>12, <1>13, <1>14, Moves

LEMMA HostReadsKeeps ==
  ASSUME SettingsIInv, NEW c \in Updaters, HostReads(c)
  PROVE  SettingsIInv'
<1> DEFINE new == Patched(WithDefaults(published), upd[c].patch)
<1>1. upd[c].step = "hostRead" /\ UNCHANGED <<published, settingRow, gate, unsaved>>
  BY DEF HostReads, Doing
<1>2. OthersWait(c) /\ TypedAt(c) /\ Typed(published) /\ c \in Guests
  BY <1>1, Mover, KindOf
<1>3. CASE Over(c)
  BY <1>1, <1>2, <1>3, OverMoves, Aside DEF Calm
<1>4. CASE Valid(new) /\ upd' = [upd EXCEPT ![c].step = "hostPublish", ![c].new = new]
  <2>1. DOMAIN upd = Updaters /\ DOMAIN upd[c] = {"step", "patch", "old", "new", "todo", "acct"}
    BY <1>2 DEF SettingsIInv, UpdatesTyped
  <2>2. /\ DOMAIN upd' = Updaters /\ \A d \in Updaters \ {c} : upd'[d] = upd[d]
        /\ DOMAIN upd'[c] = {"step", "patch", "old", "new", "todo", "acct"}
        /\ upd'[c].step = "hostPublish" /\ upd'[c].patch = upd[c].patch /\ upd'[c].new = new
    BY <1>4, <2>1
  <2>3. upd[c].patch \in Patches
    BY <1>1, <1>2 DEF TypedAt
  <2>4. Checked(new)
    BY <1>2, <1>4, <2>3, DefaultsTyped, PatchedTyped DEF Checked
  <2> HIDE DEF new
  <2>5. TypedAt(c)'
    BY <1>2, <2>2, <2>3, KindsAssumption DEF TypedAt, GuestSteps
  <2>6. UpdateFits(c)'
    BY <2>2, <2>4 DEF UpdateFits, Adopting, Checked, Typed, Valid
  <2>7. QED
    BY <1>1, <1>2, <2>2, <2>5, <2>6, Aside DEF Calm
<1>5. QED
  BY <1>3, <1>4 DEF HostReads

LEMMA HostPublishesKeeps ==
  ASSUME SettingsIInv, NEW c \in Updaters, HostPublishes(c)
  PROVE  SettingsIInv'
<1> DEFINE u == upd[c]
<1>1. /\ u.step = "hostPublish" /\ UNCHANGED <<settingRow, gate, unsaved>>
      /\ published' = u.new /\ Go(c, "hostApply")
  BY DEF HostPublishes, Doing
<1>2. OthersWait(c) /\ TypedAt(c) /\ UpdateFits(c) /\ RowTyped /\ c \in Guests
  BY <1>1, Mover, KindOf
<1>3. /\ DOMAIN upd' = Updaters /\ \A d \in Updaters \ {c} : upd'[d] = upd[d]
      /\ DOMAIN upd'[c] = {"step", "patch", "old", "new", "todo", "acct"}
      /\ upd'[c].step = "hostApply" /\ upd'[c].patch = u.patch /\ upd'[c].new = u.new
  BY <1>1, GoMoves
<1>4. Checked(u.new)
  BY <1>1, <1>2 DEF UpdateFits
<1>5. TypedAt(c)'
  BY <1>1, <1>2, <1>3, KindsAssumption DEF TypedAt, GuestSteps
<1>6. UpdateFits(c)'
  BY <1>1, <1>3, <1>4 DEF UpdateFits, Adopting
<1>7. Typed(published)' /\ RowTyped'
  BY <1>1, <1>2, <1>4 DEF Typed, Checked, RowTyped
<1>8. RowsAt(c)' /\ GateAt(c)'
  BY <1>3 DEF RowsAt, GateAt, Unequal, Ungated
<1>9. QED
  BY <1>2, <1>3, <1>5, <1>6, <1>7, <1>8, Moves

LEMMA HostAppliesKeeps ==
  ASSUME SettingsIInv, NEW c \in Updaters, HostApplies(c)
  PROVE  SettingsIInv'
<1> DEFINE u == upd[c]
<1>1. /\ u.step = "hostApply" /\ UNCHANGED <<published, settingRow, unsaved>>
      /\ gate' = u.new.conc /\ Go(c, "hostStore")
  BY DEF HostApplies, Doing
<1>2. OthersWait(c) /\ TypedAt(c) /\ UpdateFits(c) /\ RowTyped /\ Typed(published) /\ c \in Guests
  BY <1>1, Mover, KindOf
<1>3. /\ DOMAIN upd' = Updaters /\ \A d \in Updaters \ {c} : upd'[d] = upd[d]
      /\ DOMAIN upd'[c] = {"step", "patch", "old", "new", "todo", "acct"}
      /\ upd'[c].step = "hostStore" /\ upd'[c].patch = u.patch /\ upd'[c].new = u.new
  BY <1>1, GoMoves
<1>4. Checked(u.new) /\ published = u.new
  BY <1>1, <1>2 DEF UpdateFits
<1>5. TypedAt(c)'
  BY <1>1, <1>2, <1>3, KindsAssumption DEF TypedAt, GuestSteps
<1>6. UpdateFits(c)'
  BY <1>1, <1>3, <1>4 DEF UpdateFits, Adopting
<1>7. Typed(published)' /\ RowTyped'
  BY <1>1, <1>2 DEF Typed, RowTyped
<1>8. GateAt(c)'
  BY <1>1, <1>4, ValidDefaults DEF GateAt
<1>9. RowsAt(c)'
  BY <1>3 DEF RowsAt, Unequal
<1>10. QED
  BY <1>2, <1>3, <1>5, <1>6, <1>7, <1>8, <1>9, Moves

LEMMA HostStoresKeeps ==
  ASSUME SettingsIInv, NEW c \in Updaters, HostStores(c)
  PROVE  SettingsIInv'
<1> DEFINE u == upd[c]
<1>1. u.step = "hostStore" /\ UNCHANGED <<published, gate>> /\ Over(c)
  BY DEF HostStores, Doing
<1>2. OthersWait(c) /\ UpdateFits(c) /\ RowTyped /\ Typed(published) /\ GateAt(c)
  BY <1>1, Mover
<1>3. /\ DOMAIN upd' = Updaters /\ \A d \in Updaters \ {c} : upd'[d] = upd[d]
      /\ TypedAt(c)' /\ UpdateFits(c)' /\ upd'[c].step = "idle"
  BY <1>1, OverMoves
<1>4. Checked(u.new) /\ published = u.new
  BY <1>1, <1>2 DEF UpdateFits
<1>5. Typed(published)'
  BY <1>1, <1>2 DEF Typed
<1>6. GateAt(c)'
  BY <1>1, <1>2 DEF GateAt, Ungated
<1>7. CASE unsaved' = TRUE /\ UNCHANGED settingRow
  <2>1. RowTyped' /\ RowsAt(c)'
    BY <1>2, <1>7 DEF RowTyped, RowsAt
  <2>2. QED
    BY <1>2, <1>3, <1>5, <1>6, <2>1, Moves
<1>8. CASE settingRow' = u.new /\ unsaved' = LoadsOther(u.new)
  <2>1. RowTyped'
    BY <1>4, <1>8 DEF RowTyped, Checked, Typed
  <2>2. (\A s : Yields(s))'
    BY RowsYield, PTL
  <2>3. RowsAt(c)'
    <3>1. SUFFICES ASSUME ~unsaved' PROVE Valid(Stored)' /\ Same(Stored', u.new)
      BY <1>1, <1>3, <1>4 DEF RowsAt, Reflecting, Same
    <3>2. u.new.creds.hash # "" /\ Normal(u.new.root)
      BY <1>8, <3>1 DEF LoadsOther
    <3>3. Yields(u.new)'
      BY <1>1, <1>4, <2>2
    <3>4. QED
      BY <1>4, <1>8, <2>1, <3>2, <2>2 DEF Yields, Checked, Typed, Valid, Same, Normal
  <2>4. QED
    BY <1>2, <1>3, <1>5, <1>6, <2>1, <2>3, Moves
<1>9. QED
  BY <1>7, <1>8 DEF HostStores

\* What a step leaves as it was that touches no caller, setting, row or gate.
LEMMA Untouched ==
  ASSUME SettingsIInv, UNCHANGED <<published, settingRow, gate, upd, unsaved>>
  PROVE  SettingsIInv'
<1>1. Stored' = Stored
  BY RowsKept
<1>2. RowsAgree'
  BY <1>1 DEF SettingsIInv, RowsAgree, Valid, Same, Wanted
<1>3. UpdatesTyped' /\ OneUpdate' /\ GateFits'
  BY DEF SettingsIInv, UpdatesTyped, OneUpdate, GateFits, Waits, Doing
<1>4. \A c \in Updaters : UpdateFits(c)'
  BY DEF SettingsIInv, UpdateFits, Wanted, WithDefaults
<1>5. Typed(published)' /\ RowTyped'
  BY DEF SettingsIInv, RowTyped, Typed
<1>6. QED
  BY <1>2, <1>3, <1>4, <1>5 DEF SettingsIInv, RowTyped

\* A caller comes in: it has the lock to wait for, or everybody else is idle.
LEMMA ArrivesKeeps ==
  ASSUME SettingsIInv, OneUpdater, NEW c \in Updaters, NEW patch \in Patches, NEW first,
         Arrives(c, patch, first),
         \/ c \in Panels /\ first = "lock"
         \/ c \in Guests /\ first = "hostRead"
         \/ /\ c \in Wizards /\ first = "adopt"
            /\ Complete(patch.creds) /\ patch.creds \in Values("creds")
  PROVE  SettingsIInv'
<1>1. /\ upd[c].step = "idle" /\ UNCHANGED <<published, settingRow, gate, unsaved>>
      /\ \A d \in Updaters : upd[d].step = "idle" \/ {c, d} \subseteq Panels
      /\ upd' = [upd EXCEPT ![c] = [NoUpdate EXCEPT !.step = first, !.patch = patch]]
  BY DEF Arrives, Doing, OneUpdater
<1>2. DOMAIN upd = Updaters
  BY DEF SettingsIInv, UpdatesTyped
<1>3. /\ DOMAIN upd' = Updaters /\ \A d \in Updaters \ {c} : upd'[d] = upd[d]
      /\ DOMAIN upd'[c] = {"step", "patch", "old", "new", "todo", "acct"}
      /\ upd'[c].step = first /\ upd'[c].patch = patch
  BY <1>1, <1>2 DEF NoUpdate
<1>4. first \in {"lock", "hostRead", "adopt"}
  OBVIOUS
<1>5. TypedAt(c)'
  BY <1>3, KindsAssumption DEF TypedAt, PanelSteps, WizardSteps, GuestSteps, Adopting
<1>6. UpdatesTyped'
  BY <1>3, <1>5 DEF SettingsIInv, UpdatesTyped, TypedAt
<1>7. OneUpdate'
  BY <1>1, <1>3, KindsAssumption DEF SettingsIInv, OneUpdate, Waits, Doing
<1>8. ASSUME NEW d \in Updaters PROVE UpdateFits(d)'
  <2>1. CASE d # c
    BY <1>1, <1>3, <2>1 DEF SettingsIInv, UpdateFits, Wanted, WithDefaults
  <2>2. CASE d = c /\ first # "adopt"
    BY <1>3, <1>4, <2>2 DEF UpdateFits, Adopting
  <2>3. CASE d = c /\ first = "adopt"
    <3>1. Wanted(c)' = patch.creds
      BY <1>3, <2>3, KindsAssumption DEF Wanted
    <3>2. QED
      BY <1>3, <2>3, <3>1 DEF UpdateFits
  <2>4. QED
    BY <1>4, <2>1, <2>2, <2>3
<1>9. Stored' = Stored
  BY <1>1, RowsKept
<1>10. RowsAgree'
  <2>1. \A d \in Updaters : upd'[d].step \in Unequal \cup Reflecting => upd'[d] = upd[d]
    BY <1>3, <1>4 DEF Unequal, Reflecting
  <2>2. \A d \in Updaters : upd[d].step \in Unequal \cup Reflecting => upd'[d] = upd[d]
    BY <1>1, <1>3 DEF Unequal, Reflecting
  <2>3. \A d \in Updaters : upd[d].step \in Unequal \cup Reflecting <=> upd'[d].step \in Unequal \cup Reflecting
    BY <2>1, <2>2
  <2>4. SUFFICES ASSUME ~unsaved, \A d \in Updaters : upd'[d].step \notin Unequal
                 PROVE  /\ Valid(Stored)
                        /\ \/ \E d \in Updaters :
                                upd'[d].step \in Reflecting /\ Same(Stored, [published EXCEPT !.creds = Wanted(d)'])
                           \/ (\A d \in Updaters : upd'[d].step \notin Reflecting) /\ Same(Stored, published)
    BY <1>1, <1>9 DEF RowsAgree, Unequal, Reflecting, Valid, Same
  <2>5. \A d \in Updaters : upd[d].step \notin Unequal
    BY <2>2, <2>4
  <2>6. /\ Valid(Stored)
        /\ \/ \E d \in Updaters :
                upd[d].step \in Reflecting /\ Same(Stored, [published EXCEPT !.creds = Wanted(d)])
           \/ (\A d \in Updaters : upd[d].step \notin Reflecting) /\ Same(Stored, published)
    BY <2>4, <2>5 DEF SettingsIInv, RowsAgree, Unequal, Reflecting
  <2>7. CASE \E d \in Updaters : upd[d].step \in Reflecting /\ Same(Stored, [published EXCEPT !.creds = Wanted(d)])
    <3>1. PICK d \in Updaters : upd[d].step \in Reflecting /\ Same(Stored, [published EXCEPT !.creds = Wanted(d)])
      BY <2>7
    <3>2. upd'[d] = upd[d]
      BY <2>2, <3>1
    <3>3. Wanted(d)' = Wanted(d)
      BY <3>2 DEF Wanted
    <3>4. QED
      BY <2>6, <3>1, <3>2, <3>3
  <2>8. CASE (\A d \in Updaters : upd[d].step \notin Reflecting) /\ Same(Stored, published)
    <3>1. \A d \in Updaters : upd'[d].step \notin Reflecting
      BY <2>1, <2>8
    <3>2. QED
      BY <2>6, <2>8, <3>1
  <2>9. QED
    BY <2>6, <2>7, <2>8
<1>11. GateFits'
  BY <1>1, <1>3, <1>4 DEF SettingsIInv, GateFits
<1>12. Typed(published)' /\ RowTyped'
  BY <1>1 DEF SettingsIInv, RowTyped, Typed
<1>13. QED
  BY <1>6, <1>7, <1>8, <1>10, <1>11, <1>12 DEF SettingsIInv, RowTyped

\* A state in which nobody is in the middle of an update.
Resting ==
  /\ Typed(published) /\ RowTyped /\ upd = [c \in Updaters |-> NoUpdate]
  /\ Valid(Stored) /\ Same(Stored, published) /\ gate = Default(published.conc, DefaultConc)

LEMMA AtRest == Resting => SettingsIInv
<1> SUFFICES ASSUME Typed(published), RowTyped, upd = [c \in Updaters |-> NoUpdate],
                    Valid(Stored), Same(Stored, published), gate = Default(published.conc, DefaultConc)
             PROVE  SettingsIInv
  BY DEF Resting
<1>1. \A c \in Updaters : upd[c] = NoUpdate /\ upd[c].step = "idle"
                          /\ DOMAIN upd[c] = {"step", "patch", "old", "new", "todo", "acct"}
  BY DEF NoUpdate
<1>2. UpdatesTyped
  BY <1>1 DEF UpdatesTyped, PanelSteps, WizardSteps, GuestSteps
<1>3. OneUpdate
  BY <1>1 DEF OneUpdate, Doing
<1>4. \A c \in Updaters : UpdateFits(c)
  BY <1>1 DEF UpdateFits, Adopting
<1>5. RowsAgree /\ GateFits
  BY <1>1 DEF RowsAgree, GateFits
<1>6. QED
  BY <1>2, <1>3, <1>4, <1>5 DEF SettingsIInv, RowTyped

LEMMA SettingsStart == SettingsInit => SettingsIInv
<1> SUFFICES ASSUME SettingsInit PROVE SettingsIInv
  OBVIOUS
<1>1. published = Env /\ DOMAIN settingRow = {} /\ gate = Env.conc /\ upd = [c \in Updaters |-> NoUpdate]
  BY DEF SettingsInit, Env
<1>2. RowTyped
  BY <1>1 DEF RowTyped
<1>3. DOMAIN Stored = Fields /\ \A f \in Fields : Stored[f] = Env[f]
  BY <1>1, <1>2, StoredFields DEF StoredIs
<1>4. Valid(Stored) /\ Same(Stored, published)
  BY <1>1, <1>3, EnvironmentTyped, FieldsAre DEF Checked, Valid, Same, Numeric
<1>5. Typed(published) /\ gate = Default(published.conc, DefaultConc)
  BY <1>1, EnvironmentTyped, ValidDefaults DEF Checked
<1>6. QED
  BY <1>1, <1>2, <1>4, <1>5, AtRest DEF Resting

LEMMA RestartKeeps ==
  ASSUME SettingsIInv, SettingsRestart
  PROVE  SettingsIInv'
<1>1. /\ Valid(Stored) /\ published' = Stored /\ gate' = WithDefaults(Stored).conc
      /\ upd' = [c \in Updaters |-> NoUpdate] /\ UNCHANGED settingRow
  BY DEF SettingsRestart
<1>2. RowTyped /\ RowTyped' /\ Stored' = Stored
  BY <1>1, RowsKept DEF SettingsIInv, RowTyped
<1>3. Typed(Stored)
  BY <1>2, StoredTyped
<1>4. gate' = Default(Stored.conc, DefaultConc)
  BY <1>1, <1>3, DefaultsAre DEF Typed
<1>5. Resting'
  BY <1>1, <1>2, <1>3, <1>4 DEF Resting, Typed, Valid, Same
<1>6. QED
  BY <1>5, AtRest, PTL

LEMMA UpdateStepKeeps ==
  ASSUME SettingsIInv, NEW c \in Updaters, UpdateStep(c)
  PROVE  SettingsIInv'
<1>1. CASE ReadSettings(c) \/ StoreSettings(c) \/ Publish(c) \/ Apply(c)
  BY <1>1, ReadSettingsKeeps, StoreSettingsKeeps, PublishKeeps, ApplyKeeps
<1>2. CASE ReloadNext(c) \/ Await(c) \/ DialMain(c)
  BY <1>2, DialsKeep
<1>3. CASE AdoptCredentials(c) \/ StoreAccount(c) \/ MirrorCredentials(c)
  BY <1>3, AdoptCredentialsKeeps, MirrorCredentialsKeeps
<1>4. CASE Reread(c) \/ Reflect(c)
  BY <1>4, RereadKeeps, ReflectKeeps
<1>5. CASE HostReads(c) \/ HostPublishes(c) \/ HostApplies(c) \/ HostStores(c)
  BY <1>5, HostReadsKeeps, HostPublishesKeeps, HostAppliesKeeps, HostStoresKeeps
<1>6. QED
  BY <1>1, <1>2, <1>3, <1>4, <1>5 DEF UpdateStep

LEMMA SettingsStep ==
  ASSUME SettingsIInv, OneUpdater, [SettingsNext]_settingsVars
  PROVE  SettingsIInv'
<1>1. CASE UNCHANGED settingsVars
  BY <1>1, Untouched DEF settingsVars
<1>2. ASSUME NEW patch \in Patches, NEW c \in Panels, Arrives(c, patch, "lock")
      PROVE  SettingsIInv'
  BY <1>2, ArrivesKeeps DEF Updaters
<1>3. ASSUME NEW patch \in Patches, NEW c \in Guests, Arrives(c, patch, "hostRead")
      PROVE  SettingsIInv'
  BY <1>3, ArrivesKeeps DEF Updaters
<1>4. ASSUME NEW patch \in Patches, NEW c \in Wizards,
             DOMAIN patch = {"creds"}, Complete(patch.creds), Arrives(c, patch, "adopt")
      PROVE  SettingsIInv'
  <2>1. patch.creds \in Values("creds")
    BY <1>4, PatchesAssumption
  <2>2. QED
    BY <1>4, <2>1, ArrivesKeeps DEF Updaters
<1>5. ASSUME NEW c \in Updaters, UpdateStep(c) PROVE SettingsIInv'
  BY <1>5, UpdateStepKeeps
<1>6. ASSUME NEW a \in Logins, DialElsewhere(a) \/ DialEnds(a) \/ DialFails(a)
      PROVE  SettingsIInv'
  <2>1. UNCHANGED <<published, settingRow, gate, upd, unsaved>>
    BY <1>6 DEF DialElsewhere, DialEnds, DialFails
  <2>2. QED
    BY <2>1, Untouched
<1>7. CASE ReloadRows
  BY <1>7, Untouched DEF ReloadRows
<1>8. CASE SettingsRestart
  BY <1>8, RestartKeeps
<1>9. QED
  BY <1>1, <1>2, <1>3, <1>4, <1>5, <1>6, <1>7, <1>8 DEF SettingsNext

\* Whatever callers of the page, the wizard and plugins do one after another, each
\* refused or cut off anywhere, how far it has come decides what the rows and the
\* snapshot say (handleUpdateSettings, Configure, updateRuntimeSettings).
THEOREM SettingsInvariantHolds ==
  ASSUME OneUpdater
  PROVE  SettingsSpec => []SettingsIInv
<1>1. SettingsInit => SettingsIInv
  BY SettingsStart
<1>2. SettingsIInv /\ [SettingsNext]_settingsVars => SettingsIInv'
  BY SettingsStep
<1>3. QED
  BY <1>1, <1>2, PTL DEF SettingsSpec

LEMMA SettingsSafe == SettingsIInv => SettingsSound
<1> SUFFICES ASSUME SettingsIInv PROVE SettingsSound
  OBVIOUS
<1>1. /\ Typed(published) /\ DOMAIN published = Fields /\ RowTyped
  BY DEF SettingsIInv, Typed, RowTyped
<1>2. ASSUME NothingUnderWay PROVE \A c \in Updaters : upd[c].step \in {"idle", "lock"}
  BY <1>2 DEF NothingUnderWay, Doing
<1>3. SettingsSurvive
  <2>1. SUFFICES ASSUME NothingUnderWay, ~unsaved
                 PROVE  /\ Valid(Stored)
                        /\ \A f \in Fields \ {"level"} : WithDefaults(Stored)[f] = WithDefaults(published)[f]
                        /\ published.level \in {"", Stored.level}
    BY DEF SettingsSurvive
  <2>2. Valid(Stored) /\ Same(Stored, published) /\ published.level \in {"", Stored.level}
    BY <1>2, <2>1 DEF SettingsIInv, RowsAgree, Same
  <2>3. DOMAIN Stored = Fields
    BY <1>1, StoredTyped DEF Typed
  <2>4. QED
    BY <1>1, <2>2, <2>3, SameIsEqual
<1>4. GateFollows
  <2>1. SUFFICES ASSUME NothingUnderWay PROVE gate = WithDefaults(published).conc
    BY DEF GateFollows
  <2>2. gate = Default(published.conc, DefaultConc)
    BY <1>2, <2>1 DEF SettingsIInv, GateFits
  <2>3. QED
    BY <1>1, <2>2, DefaultsAre
<1>5. QED
  BY <1>3, <1>4 DEF SettingsSound

\* A restart at rest loads what the services work with, but for an emptied log
\* level and what plugins leave that the rows do not yield (SettingsSurvive names
\* both), and the limiters admit what the settings say, as long as callers of
\* different kinds do not overlap.
THEOREM SettingsAreSound ==
  ASSUME OneUpdater
  PROVE  SettingsSpec => []SettingsSound
  BY SettingsInvariantHolds, SettingsSafe, PTL
==============================================================================
