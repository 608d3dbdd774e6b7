---------------------------- MODULE AccountProofs -----------------------------
(***************************************************************************)
(* Proofs about the Telegram accounts of a drive: the accounts themselves  *)
(* (Cluster), which of them may store into the channel (Membership), and   *)
(* which of them a transfer stores with (Scheduler), for every set of      *)
(* accounts, callers, requests and tasks, every number of days, and every  *)
(* limit and size of a content.                                            *)
(***************************************************************************)
EXTENDS Cluster, Membership, Scheduler, SumLemmas, FiniteSetTheorems, SequenceTheorems, TLAPS

(***************************************************************************)
(* Cluster.  The steps a request of the administrator still has to take are *)
(* one of a few lists, and which one says what has been done to its        *)
(* account: that it is loaded, that it is offline, that another stays.     *)
(***************************************************************************)

\* What is left of a request that dials with its account loaded and offline,
\* and of those that go on while the account is offline.
Dialling == {<<"wait", "dial", "connect", "auth">>, <<"dial", "connect", "auth">>}
Offline ==
  Dialling \cup
  {<<"wait", "unlink", "stop", "wait", "delete", "reload">>,
   <<"unlink", "stop", "wait", "delete", "reload">>,
   <<"wait", "unlink", "start">>, <<"unlink", "start">>,
   <<"wait", "import", "adopt", "start">>, <<"import", "adopt", "start">>}

\* What is left of one that will take an account away.
Unloaded == <<"unlink", "delete", "reload">>
Taking ==
  {<<"logout", "stop", "wait", "unlink", "stop", "wait", "delete", "reload">>,
   <<"stop", "wait", "unlink", "stop", "wait", "delete", "reload">>,
   <<"wait", "unlink", "stop", "wait", "delete", "reload">>,
   <<"unlink", "stop", "wait", "delete", "reload">>,
   <<"stop", "wait", "delete", "reload">>, <<"wait", "delete", "reload">>,
   <<"delete", "reload">>, Unloaded, <<"disable", "reload">>}

Inserting == <<"insert", "reload", "start">>
Accepted == <<"accepted">>

\* The others, of requests that add or dial, and of those that change a row or a
\* session.
Adding ==
  {<<"count", "insert", "reload", "start">>, Inserting, <<"reload", "start">>,
   <<"list", "install", "start">>, <<"install", "start">>, <<"start">>,
   Start, <<"connect", "auth">>, <<"auth">>, <<"refused">>, Accepted}

Changing ==
  {<<"reload">>, <<"list", "install">>, <<"install">>,
   <<"enable", "reload", "start">>, <<"enable", "reload">>, <<"enable", "start">>,
   <<"signin", "auth">>,
   <<"logout", "stop", "wait", "unlink", "start">>, <<"stop", "wait", "unlink", "start">>,
   <<"stop", "wait", "import", "adopt", "start">>, <<"adopt", "start">>,
   <<"stop", "wait">>, <<"wait">>}

Plans == Offline \cup Taking \cup Adding \cup Changing

TaskRecords == [acct : TgAccounts, todo : Plans, rows : SUBSET TgAccounts, first : BOOLEAN]

ClusterTypeOK ==
  /\ acctRow \in [TgAccounts -> {"absent", "on", "off"}]
  /\ authorised \subseteq TgAccounts
  /\ managers \subseteq TgAccounts /\ readyNow \subseteq managers
  /\ mclient \in [TgAccounts -> Runs \cup {0}]
  /\ loops \in [TgAccounts -> [Runs -> {"live", "cancelled", "gone"}]]
  /\ task \in [TgCallers -> TaskRecords \cup {NoTask}]

\* Another account than a is enabled.
Another(a) == \E b \in Enabled : b # a

\* What a request knows of its account.
TaskFits(o) ==
  /\ o.todo \in Dialling \cup {Start} => o.acct \in managers
  /\ o.todo \in Offline => mclient[o.acct] = 0
  /\ o.todo \in Taking => Another(o.acct)
  /\ o.todo = Unloaded => o.acct \notin managers
  /\ o.todo = Inserting /\ o.first => Registered = {}
  /\ o.todo = Accepted => o.acct \in authorised

PrimaryFits ==
  /\ primaryRow \subseteq Registered
  /\ \A a, b \in primaryRow : a = b

ClusterIInv ==
  /\ ClusterTypeOK
  /\ \A c \in TgCallers : Busy(c) => TaskFits(task[c])
  /\ OneConnection /\ ReadyHasSession
  /\ (Registered # {} => Enabled # {}) /\ PrimaryFits

\* One request of the administrator at a time; runs of any number.
OneTgRequest == \A c, d \in TgCallers : c = d

\* What the lists look like from their heads and tails: which step comes first in
\* the ones that matter, and that none of these is reached from elsewhere.
PlanFits(s) ==
  /\ s # <<>> /\ Tail(s) \in Plans \cup {<<>>}
  /\ Tail(s) \in Dialling => s \in Dialling \cup {Start}
  /\ Tail(s) \in Offline => s \in Offline \/ Head(s) = "stop"
  /\ Tail(s) \in Taking => s \in Taking
  /\ Tail(s) # Unloaded /\ Tail(s) # Start /\ Tail(s) # Accepted
  /\ Tail(s) = Inserting => Head(s) = "count"

HeadFits(s) ==
  /\ Head(s) \in {"wait", "unlink", "import", "dial"} =>
       s \in Offline \/ s \in {Unloaded, <<"wait", "delete", "reload">>, <<"stop", "wait">>, <<"wait">>}
  /\ Head(s) = "dial" => s \in Dialling /\ Tail(s) \notin Offline
  /\ s \in Dialling \cup {Start} => Head(s) \in {"stop", "wait", "dial"}
  /\ Head(s) \in {"disable", "delete"} => s \in Taking /\ Tail(s) \notin Taking
  /\ Head(s) = "insert" => s = Inserting
  /\ Head(s) \in {"count", "list"} => Tail(s) # <<>>
  /\ Head(s) = "logout" => Tail(s) # <<>> /\ Head(Tail(s)) = "stop"
  /\ Head(s) = "reload" => Tail(s) = <<>> \/ Tail(s) = <<"start">>
  /\ Head(s) = "start" => Tail(s) = <<>>
  /\ Head(s) = "accepted" => s = Accepted

LEMMA PlansFit == \A s \in Plans : PlanFits(s) /\ HeadFits(s)
<1> DEFINE LeftFits(s) == PlanFits(s) /\ HeadFits(s)
<1>1. \A s \in Offline : LeftFits(s)
  <2> USE DEF PlanFits, HeadFits, Plans, Offline, Taking, Adding, Changing, Dialling, Start, Unloaded, Inserting, Accepted
  <2>1. LeftFits(<<"wait", "dial", "connect", "auth">>)  OBVIOUS
  <2>2. LeftFits(<<"dial", "connect", "auth">>)  OBVIOUS
  <2>3. LeftFits(<<"wait", "unlink", "stop", "wait", "delete", "reload">>)  OBVIOUS
  <2>4. LeftFits(<<"unlink", "stop", "wait", "delete", "reload">>)  OBVIOUS
  <2>5. LeftFits(<<"wait", "unlink", "start">>)  OBVIOUS
  <2>6. LeftFits(<<"unlink", "start">>)  OBVIOUS
  <2>7. LeftFits(<<"wait", "import", "adopt", "start">>)  OBVIOUS
  <2>8. LeftFits(<<"import", "adopt", "start">>)  OBVIOUS
  <2>9. LeftFits(<<"wait", "unlink", "stop", "wait", "delete", "reload">>)  OBVIOUS
  <2>10. LeftFits(<<"unlink", "stop", "wait", "delete", "reload">>)  OBVIOUS
  <2>11. LeftFits(<<"wait", "unlink", "start">>)  OBVIOUS
  <2>12. LeftFits(<<"unlink", "start">>)  OBVIOUS
  <2>13. LeftFits(<<"wait", "import", "adopt", "start">>)  OBVIOUS
  <2>14. LeftFits(<<"import", "adopt", "start">>)  OBVIOUS
  <2> HIDE DEF LeftFits
  <2>15. QED
    BY <2>1, <2>2, <2>3, <2>4, <2>5, <2>6, <2>7, <2>8, <2>9, <2>10, <2>11, <2>12, <2>13, <2>14
<1>2. \A s \in Taking : LeftFits(s)
  <2> USE DEF PlanFits, HeadFits, Plans, Offline, Taking, Adding, Changing, Dialling, Start, Unloaded, Inserting, Accepted
  <2>1. LeftFits(<<"logout", "stop", "wait", "unlink", "stop", "wait", "delete", "reload">>)  OBVIOUS
  <2>2. LeftFits(<<"stop", "wait", "unlink", "stop", "wait", "delete", "reload">>)  OBVIOUS
  <2>3. LeftFits(<<"wait", "unlink", "stop", "wait", "delete", "reload">>)  OBVIOUS
  <2>4. LeftFits(<<"unlink", "stop", "wait", "delete", "reload">>)  OBVIOUS
  <2>5. LeftFits(<<"stop", "wait", "delete", "reload">>)  OBVIOUS
  <2>6. LeftFits(<<"wait", "delete", "reload">>)  OBVIOUS
  <2>7. LeftFits(<<"delete", "reload">>)  OBVIOUS
  <2>8. LeftFits(Unloaded)  OBVIOUS
  <2>9. LeftFits(<<"disable", "reload">>)  OBVIOUS
  <2> HIDE DEF LeftFits
  <2>10. QED
    BY <2>1, <2>2, <2>3, <2>4, <2>5, <2>6, <2>7, <2>8, <2>9
<1>3. \A s \in Adding : LeftFits(s)
  <2> USE DEF PlanFits, HeadFits, Plans, Offline, Taking, Adding, Changing, Dialling, Start, Unloaded, Inserting, Accepted
  <2>1. LeftFits(<<"count", "insert", "reload", "start">>)  OBVIOUS
  <2>2. LeftFits(Inserting)  OBVIOUS
  <2>3. LeftFits(<<"reload", "start">>)  OBVIOUS
  <2>4. LeftFits(<<"list", "install", "start">>)  OBVIOUS
  <2>5. LeftFits(<<"install", "start">>)  OBVIOUS
  <2>6. LeftFits(<<"start">>)  OBVIOUS
  <2>7. LeftFits(Start)  OBVIOUS
  <2>8. LeftFits(<<"connect", "auth">>)  OBVIOUS
  <2>9. LeftFits(<<"auth">>)  OBVIOUS
  <2>10. LeftFits(<<"refused">>)  OBVIOUS
  <2>11. LeftFits(Accepted)  OBVIOUS
  <2> HIDE DEF LeftFits
  <2>12. QED
    BY <2>1, <2>2, <2>3, <2>4, <2>5, <2>6, <2>7, <2>8, <2>9, <2>10, <2>11
<1>4. \A s \in Changing : LeftFits(s)
  <2> USE DEF PlanFits, HeadFits, Plans, Offline, Taking, Adding, Changing, Dialling, Start, Unloaded, Inserting, Accepted
  <2>1. LeftFits(<<"reload">>)  OBVIOUS
  <2>2. LeftFits(<<"list", "install">>)  OBVIOUS
  <2>3. LeftFits(<<"install">>)  OBVIOUS
  <2>4. LeftFits(<<"enable", "reload", "start">>)  OBVIOUS
  <2>5. LeftFits(<<"enable", "reload">>)  OBVIOUS
  <2>6. LeftFits(<<"enable", "start">>)  OBVIOUS
  <2>7. LeftFits(<<"signin", "auth">>)  OBVIOUS
  <2>8. LeftFits(<<"logout", "stop", "wait", "unlink", "start">>)  OBVIOUS
  <2>9. LeftFits(<<"stop", "wait", "unlink", "start">>)  OBVIOUS
  <2>10. LeftFits(<<"stop", "wait", "import", "adopt", "start">>)  OBVIOUS
  <2>11. LeftFits(<<"adopt", "start">>)  OBVIOUS
  <2>12. LeftFits(<<"stop", "wait">>)  OBVIOUS
  <2>13. LeftFits(<<"wait">>)  OBVIOUS
  <2> HIDE DEF LeftFits
  <2>14. QED
    BY <2>1, <2>2, <2>3, <2>4, <2>5, <2>6, <2>7, <2>8, <2>9, <2>10, <2>11, <2>12, <2>13
<1>5. QED
  BY <1>1, <1>2, <1>3, <1>4 DEF Plans

\* There is one request: the others are no others.
LEMMA Alone ==
  ASSUME ClusterIInv, OneTgRequest, NEW c \in TgCallers,
         task' \in [TgCallers -> TaskRecords \cup {NoTask}],
         task'[c] # NoTask => TaskFits(task[c])'
  PROVE  \A d \in TgCallers : Busy(d)' => TaskFits(task[d])'
  BY DEF OneTgRequest, Busy

\* What a request in the middle of something is.
LEMMA BusyIs ==
  ASSUME ClusterIInv, NEW c \in TgCallers, Busy(c)
  PROVE  /\ task[c] \in TaskRecords /\ TaskFits(task[c])
         /\ task[c].acct \in TgAccounts /\ task[c].todo \in Plans
         /\ PlanFits(task[c].todo) /\ HeadFits(task[c].todo)
<1>1. task[c] \in TaskRecords /\ TaskFits(task[c])
  BY DEF ClusterIInv, ClusterTypeOK, Busy
<1>2. QED
  BY <1>1, PlansFit DEF TaskRecords

\* A request that goes on with other steps, or is answered.
LEMMA DoMoves ==
  ASSUME ClusterIInv, NEW c \in TgCallers, Busy(c), NEW s \in Plans \cup {<<>>}, Do(c, s)
  PROVE  /\ task' \in [TgCallers -> TaskRecords \cup {NoTask}]
         /\ s = <<>> => task'[c] = NoTask
         /\ s # <<>> => /\ task'[c] \in TaskRecords /\ task'[c].todo = s /\ task'[c].acct = task[c].acct
                        /\ task'[c].rows = task[c].rows /\ task'[c].first = task[c].first
<1>1. task[c] \in TaskRecords
  BY BusyIs
<1>2. [task[c] EXCEPT !.todo = s] \in TaskRecords \/ s = <<>>
  BY <1>1 DEF TaskRecords
<1>3. task \in [TgCallers -> TaskRecords \cup {NoTask}]
  BY DEF ClusterIInv, ClusterTypeOK
<1>4. CASE s = <<>>
  BY <1>3, <1>4 DEF Do
<1>5. CASE s # <<>>
  <2>1. task' = [task EXCEPT ![c] = [task[c] EXCEPT !.todo = s]]
    BY <1>3, <1>5 DEF Do
  <2>2. QED
    BY <2>1, <1>1, <1>2, <1>3, <1>5 DEF TaskRecords
<1>6. QED
  BY <1>4, <1>5

\* A request that is through with its first step knows what it knew, as long as
\* the step did what it is for.
LEMMA GoesOn ==
  ASSUME ClusterIInv, OneTgRequest, NEW c \in TgCallers, Busy(c),
         NEW head, NEW a, head = Head(task[c].todo), a = task[c].acct,
         task' \in [TgCallers -> TaskRecords \cup {NoTask}],
         task'[c] # NoTask => task'[c].todo = Rest(c) /\ task'[c].acct = a /\ Rest(c) # <<>>,
         head = "install" \/ managers' = managers,
         head = "dial" \/ mclient'[a] \in {mclient[a], 0},
         head = "stop" => mclient'[a] = 0,
         head \in {"delete", "disable"} \/ Enabled \subseteq Enabled',
         (head = "count" /\ task'[c] # NoTask /\ task'[c].first) => Registered' = {}
  PROVE  \A d \in TgCallers : Busy(d)' => TaskFits(task[d])'
<1>1. /\ TaskFits(task[c]) /\ PlanFits(task[c].todo) /\ HeadFits(task[c].todo)
  BY BusyIs
<1>2. SUFFICES ASSUME task'[c] # NoTask
               PROVE  TaskFits(task[c])'
  BY Alone
<1>3. task'[c].todo = Tail(task[c].todo) /\ task'[c].acct = a /\ Tail(task[c].todo) # <<>>
  BY <1>2 DEF Rest
<1> DEFINE s == task[c].todo
           r == Tail(task[c].todo)
<1>4. r \in Dialling \cup {Start} => a \in managers'
  BY <1>1 DEF PlanFits, HeadFits, TaskFits
<1>5. r \in Offline => mclient'[a] = 0
  BY <1>1 DEF PlanFits, HeadFits, TaskFits
<1>6. r \in Taking => Another(a)'
  BY <1>1 DEF PlanFits, HeadFits, TaskFits, Another
<1>7. r # Unloaded
  BY <1>1 DEF PlanFits
<1>8. r = Inserting /\ task'[c].first => Registered' = {}
  BY <1>1, <1>2 DEF PlanFits
<1>9. r # Accepted
  BY <1>1 DEF PlanFits
<1>10. QED
  BY <1>3, <1>4, <1>5, <1>6, <1>7, <1>8, <1>9 DEF TaskFits

\* An account that counts as signed in, and no request is ending its session.
Signed(a) == mclient[a] = 0 \/ a \in authorised

LEMMA ReadyAreSigned ==
  ASSUME ClusterIInv, OneTgRequest, NEW c \in TgCallers, ~TaskAt(c, "stop")
  PROVE  \A a \in readyNow : Signed(a)
  BY DEF ClusterIInv, ReadyHasSession, Signed, OneTgRequest

LEMMA SignedIsReady ==
  (\A a \in readyNow : Signed(a)) => ReadyHasSession
  BY DEF ReadyHasSession, Signed

\* A step that changes nothing but what the request is at.
LEMMA OnlyTheTask ==
  ASSUME ClusterIInv, OneTgRequest, NEW c \in TgCallers, ~TaskAt(c, "stop"),
         UNCHANGED <<acctRow, primaryRow, authorised, managers, readyNow, mclient, loops>>,
         task' \in [TgCallers -> TaskRecords \cup {NoTask}],
         task'[c] # NoTask => TaskFits(task[c])'
  PROVE  ClusterIInv'
<1>1. \A d \in TgCallers : Busy(d)' => TaskFits(task[d])'
  BY Alone
<1>2. \A a \in readyNow' : Signed(a)'
  BY ReadyAreSigned DEF Signed
<1>3. ReadyHasSession'
  BY <1>2, SignedIsReady DEF ReadyHasSession, Signed, TaskAt, Busy
<1>4. ClusterTypeOK' /\ OneConnection' /\ (Registered' # {} => Enabled' # {}) /\ PrimaryFits'
  BY DEF ClusterIInv, ClusterTypeOK, OneConnection, Registered, Enabled, PrimaryFits
<1>5. QED
  BY <1>1, <1>3, <1>4 DEF ClusterIInv

\* A request comes in.
LEMMA RequestKeeps ==
  ASSUME ClusterIInv, OneTgRequest, NEW c \in TgCallers, NEW a \in TgAccounts,
         NEW s \in Plans, s \notin Dialling \cup {Start} \cup Offline, s \notin {Inserting, Accepted},
         s \in Taking => Another(a), s = Unloaded => a \notin managers,
         Request(c, a, s)
  PROVE  ClusterIInv'
<1> DEFINE o == [NoTask EXCEPT !.acct = a, !.todo = s]
<1>1. o \in TaskRecords /\ o.todo = s /\ o.acct = a
  BY DEF NoTask, TaskRecords
<1>3. task[c] = NoTask /\ task' = [task EXCEPT ![c] = o]
  BY DEF Request
<1> HIDE DEF o
<1>4. task \in [TgCallers -> TaskRecords \cup {NoTask}]
  BY DEF ClusterIInv, ClusterTypeOK
<1>5. task' \in [TgCallers -> TaskRecords \cup {NoTask}] /\ task'[c] = o
  BY <1>1, <1>3, <1>4
<1>6. UNCHANGED <<acctRow, primaryRow, authorised, managers, readyNow, mclient, loops>>
  BY DEF Request
<1>7. TaskFits(task[c])'
  BY <1>1, <1>5, <1>6 DEF TaskFits, Another, Enabled
<1>8. ~TaskAt(c, "stop")
  BY <1>3 DEF TaskAt, Busy
<1>9. QED
  BY <1>5, <1>6, <1>7, <1>8, OnlyTheTask

LEMMA AnotherThere ==
  ASSUME ClusterIInv, NEW a \in TgAccounts, acctRow[a] # "absent", MayGo(a)
  PROVE  Another(a)
<1>1. CASE acctRow[a] = "on"
  <2>1. SUFFICES ASSUME \A b \in Enabled : b = a
                 PROVE  FALSE
    BY DEF Another
  <2>2. Enabled = {a}
    BY <2>1, <1>1 DEF Enabled
  <2>3. Cardinality(Enabled) = 1
    BY <2>2, FS_Singleton
  <2>4. QED
    BY <2>3, <1>1 DEF MayGo
<1>2. CASE acctRow[a] = "off"
  <2>1. Enabled # {} /\ a \notin Enabled
    BY <1>2 DEF ClusterIInv, Registered, Enabled
  <2>2. QED
    BY <2>1 DEF Another
<1>3. QED
  BY <1>1, <1>2 DEF ClusterIInv, ClusterTypeOK

\* The lists a request begins with.
Openings ==
  {<<"count", "insert", "reload", "start">>, <<"enable", "reload", "start">>,
   <<"enable", "reload">>, <<"reload", "start">>, <<"enable", "start">>, <<"start">>,
   <<"signin", "auth">>, <<"logout", "stop", "wait", "unlink", "start">>,
   <<"stop", "wait", "import", "adopt", "start">>}
Removing == <<"logout", "stop", "wait", "unlink", "stop", "wait", "delete", "reload">>

LEMMA OpeningsFit ==
  /\ \A s \in Openings : /\ s \in Plans \ Taking
                         /\ s \notin Dialling \cup {Start} \cup Offline /\ s \notin {Inserting, Unloaded, Accepted}
  /\ \A s \in {Removing, Unloaded, <<"disable", "reload">>} :
       s \in Plans /\ s \notin Dialling \cup {Start} \cup Offline /\ s \notin {Inserting, Accepted}
  /\ Removing # Unloaded /\ <<"disable", "reload">> # Unloaded
  BY DEF Openings, Removing, Plans, Offline, Taking, Adding, Changing, Dialling, Start, Unloaded, Inserting,
         Accepted

\* A request that takes no account away.
LEMMA OpeningKeeps ==
  ASSUME ClusterIInv, OneTgRequest, NEW c \in TgCallers, NEW a \in TgAccounts,
         NEW s \in Openings, Request(c, a, s)
  PROVE  ClusterIInv'
  BY OpeningsFit, RequestKeeps

LEMMA RequestsKeep ==
  ASSUME ClusterIInv, OneTgRequest, NEW c \in TgCallers, NEW a \in TgAccounts,
         \/ Add(c, a) \/ Remove(c, a) \/ SetProxy(c, a) \/ Configure(c, a)
         \/ SignIn(c, a) \/ LogOut(c, a) \/ ImportSession(c, a)
         \/ \E on \in BOOLEAN : Update(c, a, on)
  PROVE  ClusterIInv'
<1>1. CASE Add(c, a) \/ SetProxy(c, a) \/ Configure(c, a) \/ SignIn(c, a) \/ LogOut(c, a)
           \/ ImportSession(c, a)
  <2>1. \E s \in Openings : Request(c, a, s)
    BY <1>1 DEF Add, SetProxy, Configure, SignIn, LogOut, ImportSession, Openings
  <2>2. QED
    BY <2>1, OpeningKeeps
<1>2. CASE Remove(c, a)
  <2>1. Another(a)
    BY <1>2, AnotherThere DEF Remove
  <2>2. \/ Request(c, a, Removing)
        \/ a \notin managers /\ Request(c, a, Unloaded)
    BY <1>2 DEF Remove, Removing, Unloaded
  <2>3. QED
    BY <2>1, <2>2, OpeningsFit, RequestKeeps
<1>3. CASE \E on \in BOOLEAN : Update(c, a, on)
  <2>1. PICK on \in BOOLEAN : Update(c, a, on)
    BY <1>3
  <2>2. CASE on
    <3>1. Request(c, a, <<"enable", "reload", "start">>) \/ Request(c, a, <<"enable", "reload">>)
      BY <2>1, <2>2 DEF Update
    <3>2. QED
      BY <3>1, OpeningKeeps DEF Openings
  <2>3. CASE ~on
    <3>1. Another(a) /\ Request(c, a, <<"disable", "reload">>)
      BY <2>1, <2>3, AnotherThere DEF Update
    <3>2. QED
      BY <3>1, OpeningsFit, RequestKeeps
  <2>4. QED
    BY <2>2, <2>3
<1>4. QED
  BY <1>1, <1>2, <1>3

\* The head of a request that takes a step of another kind.
LEMMA StepsTaken ==
  ASSUME ClusterIInv, NEW c \in TgCallers, Busy(c)
  PROVE  /\ Rest(c) \in Plans \cup {<<>>}
         /\ <<>> \in Plans \cup {<<>>} /\ <<>> \notin Plans
  BY BusyIs, PlansFit DEF Rest, PlanFits

LEMMA AnswerMoves ==
  ASSUME ClusterIInv, NEW c \in TgCallers, Busy(c), Answer(c)
  PROVE  task' \in [TgCallers -> TaskRecords \cup {NoTask}] /\ task'[c] = NoTask
  BY StepsTaken, DoMoves DEF Answer

LEMMA RestMoves ==
  ASSUME ClusterIInv, NEW c \in TgCallers, Busy(c), Do(c, Rest(c))
  PROVE  /\ task' \in [TgCallers -> TaskRecords \cup {NoTask}]
         /\ task'[c] # NoTask => /\ Rest(c) # <<>> /\ task'[c].todo = Rest(c)
                                 /\ task'[c].acct = task[c].acct /\ task'[c].first = task[c].first
<1>1. Rest(c) \in Plans \cup {<<>>}
  BY StepsTaken
<1>2. QED
  BY <1>1, DoMoves

LEMMA FailsKeeps ==
  ASSUME ClusterIInv, OneTgRequest, NEW c \in TgCallers, Fails(c)
  PROVE  ClusterIInv'
<1>1. Busy(c) /\ ~TaskAt(c, "stop") /\ Answer(c)
  BY DEF Fails, TaskAt
<1>2. task' \in [TgCallers -> TaskRecords \cup {NoTask}] /\ task'[c] = NoTask
  BY <1>1, AnswerMoves
<1>3. UNCHANGED <<acctRow, primaryRow, authorised, managers, mclient, loops>>
      /\ readyNow' \subseteq readyNow
  BY DEF Fails
<1>4. \A d \in TgCallers : Busy(d)' => TaskFits(task[d])'
  BY <1>2, Alone
<1>5. \A a \in readyNow' : Signed(a)'
  BY <1>1, <1>3, ReadyAreSigned DEF Signed
<1>6. ReadyHasSession'
  BY <1>5 DEF ReadyHasSession, Signed
<1>7. ClusterTypeOK' /\ OneConnection' /\ (Registered' # {} => Enabled' # {}) /\ PrimaryFits'
  BY <1>2, <1>3 DEF ClusterIInv, ClusterTypeOK, OneConnection, Registered, Enabled, PrimaryFits
<1>8. QED
  BY <1>4, <1>6, <1>7 DEF ClusterIInv

LEMMA CountRowsKeeps ==
  ASSUME ClusterIInv, OneTgRequest, NEW c \in TgCallers, CountRows(c)
  PROVE  ClusterIInv'
<1>1. Busy(c) /\ Head(task[c].todo) = "count" /\ ~TaskAt(c, "stop")
  BY DEF CountRows, TaskAt
<1>2. /\ task[c] \in TaskRecords /\ Rest(c) \in Plans /\ Rest(c) # <<>>
  BY <1>1, BusyIs, StepsTaken DEF HeadFits, Rest
<1> DEFINE o == [task[c] EXCEPT !.first = (Registered = {}), !.todo = Rest(c)]
<1>3. o \in TaskRecords /\ o.todo = Rest(c) /\ o.acct = task[c].acct /\ (o.first <=> Registered = {})
  BY <1>2 DEF TaskRecords
<1>4. task \in [TgCallers -> TaskRecords \cup {NoTask}]
  BY DEF ClusterIInv, ClusterTypeOK
<1>5. task' = [task EXCEPT ![c] = o]
  BY <1>4 DEF CountRows, Rest
<1> HIDE DEF o
<1>6. task' \in [TgCallers -> TaskRecords \cup {NoTask}] /\ task'[c] = o
  BY <1>3, <1>4, <1>5
<1>7. UNCHANGED <<acctRow, primaryRow, authorised, managers, readyNow, mclient, loops>>
  BY DEF CountRows
<1>8. \A d \in TgCallers : Busy(d)' => TaskFits(task[d])'
  <2>1. mclient'[task[c].acct] \in {mclient[task[c].acct], 0} /\ Enabled' = Enabled /\ Registered' = Registered
    BY <1>7 DEF Enabled, Registered
  <2>2. QED
    BY <1>1, <1>2, <1>3, <1>6, <1>7, <2>1, GoesOn
<1>9. task'[c] # NoTask => TaskFits(task[c])'
  BY <1>8 DEF Busy
<1>10. QED
  BY <1>1, <1>6, <1>7, <1>9, OnlyTheTask

LEMMA ListAccountsKeeps ==
  ASSUME ClusterIInv, OneTgRequest, NEW c \in TgCallers, ListAccounts(c)
  PROVE  ClusterIInv'
<1>1. Busy(c) /\ Head(task[c].todo) = "list" /\ ~TaskAt(c, "stop")
  BY DEF ListAccounts, TaskAt
<1>2. /\ task[c] \in TaskRecords /\ Rest(c) \in Plans /\ Rest(c) # <<>>
  BY <1>1, BusyIs, StepsTaken DEF HeadFits, Rest
<1> DEFINE o == [task[c] EXCEPT !.rows = Enabled, !.todo = Rest(c)]
<1>3. o \in TaskRecords /\ o.todo = Rest(c) /\ o.acct = task[c].acct
  BY <1>2 DEF TaskRecords, Enabled
<1>4. task \in [TgCallers -> TaskRecords \cup {NoTask}]
  BY DEF ClusterIInv, ClusterTypeOK
<1>5. task' = [task EXCEPT ![c] = o]
  BY <1>4 DEF ListAccounts, Rest
<1> HIDE DEF o
<1>6. task' \in [TgCallers -> TaskRecords \cup {NoTask}] /\ task'[c] = o
  BY <1>3, <1>4, <1>5
<1>7. UNCHANGED <<acctRow, primaryRow, authorised, managers, readyNow, mclient, loops>>
  BY DEF ListAccounts
<1>8. \A d \in TgCallers : Busy(d)' => TaskFits(task[d])'
  <2>1. mclient'[task[c].acct] \in {mclient[task[c].acct], 0} /\ Enabled' = Enabled
    BY <1>7 DEF Enabled
  <2>2. QED
    BY <1>1, <1>2, <1>3, <1>6, <1>7, <2>1, GoesOn
<1>9. task'[c] # NoTask => TaskFits(task[c])'
  BY <1>8 DEF Busy
<1>10. QED
  BY <1>1, <1>6, <1>7, <1>9, OnlyTheTask

\* What a step does to the rows leaves an account that is enabled.
LEMMA WriteRowKeeps ==
  ASSUME ClusterIInv, OneTgRequest, NEW c \in TgCallers, WriteRow(c)
  PROVE  ClusterIInv'
<1> DEFINE a == task[c].acct
           head == Head(task[c].todo)
<1>1. /\ Busy(c) /\ Do(c, Rest(c)) /\ head \in {"insert", "enable", "adopt", "disable", "delete"}
      /\ UNCHANGED <<authorised, managers, readyNow, mclient, loops>>
  BY DEF WriteRow, TaskAt
<1>2. ~TaskAt(c, "stop")
  BY <1>1 DEF TaskAt
<1>3. /\ task' \in [TgCallers -> TaskRecords \cup {NoTask}]
      /\ task'[c] # NoTask => /\ Rest(c) # <<>> /\ task'[c].todo = Rest(c) /\ task'[c].acct = a
  BY <1>1, RestMoves
<1>4. a \in TgAccounts /\ TaskFits(task[c]) /\ HeadFits(task[c].todo)
  BY <1>1, BusyIs
<1>5. acctRow \in [TgAccounts -> {"absent", "on", "off"}] /\ primaryRow \subseteq Registered
      /\ (\A b, d \in primaryRow : b = d) /\ (Registered # {} => Enabled # {})
  BY DEF ClusterIInv, ClusterTypeOK, PrimaryFits
<1>6. /\ acctRow' \in [TgAccounts -> {"absent", "on", "off"}]
      /\ head \in {"delete", "disable"} \/ Enabled \subseteq Enabled'
      /\ Registered' # {} => Enabled' # {}
      /\ PrimaryFits'
  <2>1. CASE head = "insert"
    <3>1. acctRow' = [acctRow EXCEPT ![a] = "on"]
          /\ primaryRow' = IF task[c].first THEN primaryRow \cup {a} ELSE primaryRow
      BY <2>1 DEF WriteRow, TaskAt
    <3>2. task[c].first => Registered = {}
      BY <2>1, <1>4 DEF HeadFits, TaskFits
    <3>3. acctRow' \in [TgAccounts -> {"absent", "on", "off"}] /\ a \in Enabled' /\ Enabled \subseteq Enabled'
          /\ Registered \subseteq Registered' /\ a \in Registered'
      BY <3>1, <1>4, <1>5 DEF Enabled, Registered
    <3>4. PrimaryFits'
      BY <3>1, <3>2, <3>3, <1>5 DEF PrimaryFits
    <3>5. QED
      BY <3>3, <3>4
  <2>2. CASE head \in {"enable", "adopt"}
    <3>1. acctRow' = [acctRow EXCEPT ![a] = "on"] /\ primaryRow' = primaryRow
      BY <2>2 DEF WriteRow, TaskAt
    <3>2. acctRow' \in [TgAccounts -> {"absent", "on", "off"}] /\ a \in Enabled' /\ Enabled \subseteq Enabled'
          /\ Registered \subseteq Registered'
      BY <3>1, <1>4, <1>5 DEF Enabled, Registered
    <3>3. QED
      BY <3>1, <3>2, <1>5 DEF PrimaryFits
  <2>3. CASE head \in {"disable", "delete"}
    <3>1. PICK b \in Enabled : b # a
      BY <2>3, <1>4 DEF HeadFits, TaskFits, Another
    <3>2. /\ acctRow' \in {[acctRow EXCEPT ![a] = "off"], [acctRow EXCEPT ![a] = "absent"]}
          /\ (primaryRow' = primaryRow /\ head = "disable") \/ primaryRow' = primaryRow \ {a}
          /\ head = "disable" => acctRow' = [acctRow EXCEPT ![a] = "off"]
      BY <2>3 DEF WriteRow, TaskAt
    <3>3. acctRow' \in [TgAccounts -> {"absent", "on", "off"}] /\ b \in Enabled' /\ Registered \ {a} \subseteq Registered'
          /\ (head = "disable" => a \in Registered')
      BY <3>1, <3>2, <1>4, <1>5 DEF Enabled, Registered
    <3>4. PrimaryFits'
      BY <3>2, <3>3, <1>5 DEF PrimaryFits
    <3>5. QED
      BY <2>3, <3>3, <3>4
  <2>4. QED
    BY <1>1, <2>1, <2>2, <2>3
<1>7. \A d \in TgCallers : Busy(d)' => TaskFits(task[d])'
  BY <1>1, <1>3, <1>6, GoesOn
<1>8. \A x \in readyNow' : Signed(x)'
  BY <1>1, <1>2, ReadyAreSigned DEF Signed
<1>9. ReadyHasSession'
  BY <1>8 DEF ReadyHasSession, Signed
<1>10. ClusterTypeOK' /\ OneConnection'
  BY <1>1, <1>3, <1>6 DEF ClusterIInv, ClusterTypeOK, OneConnection
<1>11. QED
  BY <1>6, <1>7, <1>9, <1>10 DEF ClusterIInv

LEMMA ExpansionsFit ==
  /\ \A s \in {<<>>, <<"start">>} :
       /\ Reload \o s \in Plans /\ Reload \o s \notin Dialling \cup {Start} \cup Offline
       /\ Reload \o s \notin Taking \cup {Inserting, Accepted} /\ Reload \o s # <<>>
  /\ Start \in Plans /\ Start # <<>> /\ Start \notin Offline \cup Taking \cup {Inserting, Accepted}
  /\ Start \o <<>> = Start /\ <<>> \o <<>> = <<>>
<1>1. Reload \o <<>> = <<"list", "install">>
  BY DEF Reload
<1> DEFINE u == Reload \o <<"start">>
           v == <<"list", "install", "start">>
<1>6. u = v
  <2>1. <<"list", "install">> \in Seq({"list", "install", "start"}) /\ <<"start">> \in Seq({"list", "install", "start"}) /\ v \in Seq({"list", "install", "start"})
        /\ Len(<<"list", "install">>) = 2 /\ Len(<<"start">>) = 1 /\ Len(v) = 3
    OBVIOUS
  <2>2. u \in Seq({"list", "install", "start"}) /\ Len(u) = 3
    BY <2>1, ConcatProperties DEF Reload
  <2>3. u[1] = v[1] /\ u[2] = v[2] /\ u[3] = v[3]
    BY DEF Reload
  <2>4. \A i \in 1..Len(u) : i \in {1, 2, 3}
    BY <2>2
  <2> HIDE DEF u, v
  <2>5. QED
    BY <2>1, <2>2, <2>3, <2>4, SeqEqual
<1>2. Start \o <<>> = Start /\ <<>> \o <<>> = <<>>
  BY DEF Start
<1>3. \A s \in {<<"list", "install">>, <<"list", "install", "start">>, Start} :
        /\ s \in Plans /\ s # <<>> /\ s \notin Taking /\ s # Inserting /\ s \notin Offline
        /\ s # Accepted
  BY DEF Plans, Taking, Adding, Changing, Inserting, Offline, Start, Dialling, Unloaded, Accepted
<1>4. \A s \in {<<"list", "install">>, <<"list", "install", "start">>} : s \notin Dialling \cup {Start}
  BY DEF Dialling, Start
<1>5. QED
  BY <1>1, <1>2, <1>3, <1>4, <1>6

LEMMA EnterKeeps ==
  ASSUME ClusterIInv, OneTgRequest, NEW c \in TgCallers, Enter(c)
  PROVE  ClusterIInv'
<1>1. Busy(c) /\ ~TaskAt(c, "stop")
      /\ UNCHANGED <<acctRow, primaryRow, authorised, managers, readyNow, mclient, loops>>
  BY DEF Enter, TaskAt
<1>2. /\ task[c].todo \in Plans /\ HeadFits(task[c].todo)
  BY <1>1, BusyIs
<1>3. PICK s \in Plans \cup {<<>>} :
        /\ Do(c, s) /\ s \notin Offline \cup Taking \cup {Inserting, Accepted}
        /\ s \in Dialling \cup {Start} => task[c].acct \in managers
  <2>1. CASE TaskAt(c, "reload")
    <3>1. Rest(c) \in {<<>>, <<"start">>}
      BY <1>2, <2>1 DEF HeadFits, Rest, TaskAt
    <3>2. Do(c, Reload \o Rest(c))
      BY <2>1 DEF Enter, Expand, TaskAt
    <3>3. QED
      BY <3>1, <3>2, ExpansionsFit
  <2>2. CASE TaskAt(c, "start")
    <3>1. Rest(c) = <<>>
      BY <1>2, <2>2 DEF HeadFits, Rest, TaskAt
    <3>2. Do(c, (IF task[c].acct \in managers THEN Start ELSE <<>>) \o <<>>)
      BY <2>2, <3>1 DEF Enter, Expand, TaskAt
    <3>3. <<>> \notin Plans
      BY <1>1, StepsTaken
    <3>4. <<>> \notin Offline \cup Taking \cup {Inserting, Accepted} \cup Dialling \cup {Start}
      BY <3>3 DEF Plans, Adding, Offline
    <3>5. QED
      BY <3>2, <3>4, ExpansionsFit
  <2>3. QED
    BY <2>1, <2>2 DEF Enter
<1>4. /\ task' \in [TgCallers -> TaskRecords \cup {NoTask}]
      /\ task'[c] # NoTask => task'[c].todo = s /\ task'[c].acct = task[c].acct
  BY <1>1, <1>3, DoMoves
<1>5. Unloaded \in Taking
  BY DEF Taking
<1>6. task'[c] # NoTask => TaskFits(task[c])'
  BY <1>1, <1>3, <1>4, <1>5 DEF TaskFits
<1>7. QED
  BY <1>1, <1>4, <1>6, OnlyTheTask

\* Managers that are dropped and runs that are cancelled stay what they are.
LEMMA CancelTyped ==
  ASSUME ClusterIInv, NEW S
  PROVE  /\ Cancelled(S) \in [TgAccounts -> [Runs -> {"live", "cancelled", "gone"}]]
         /\ Disconnected(S) \in [TgAccounts -> Runs \cup {0}]
         /\ \A a \in TgAccounts :
              /\ Disconnected(S)[a] = IF a \in S THEN 0 ELSE mclient[a]
              /\ a \notin S => Cancelled(S)[a] = loops[a]
              /\ \A n \in Runs : Cancelled(S)[a][n] = "live" => loops[a][n] = "live" /\ a \notin S
<1>1. /\ mclient \in [TgAccounts -> Runs \cup {0}]
      /\ loops \in [TgAccounts -> [Runs -> {"live", "cancelled", "gone"}]]
  BY DEF ClusterIInv, ClusterTypeOK
<1>2. \A a \in TgAccounts, n \in Runs : loops[a][n] = "live" => mclient[a] = n
  BY DEF ClusterIInv, OneConnection
<1>3. \A a \in TgAccounts, n \in Runs :
        Cancelled(S)[a][n] = IF a \in S /\ n = mclient[a] /\ loops[a][n] = "live"
                               THEN "cancelled" ELSE loops[a][n]
  BY DEF Cancelled
<1>4. Cancelled(S) \in [TgAccounts -> [Runs -> {"live", "cancelled", "gone"}]]
  BY <1>1 DEF Cancelled
<1>5. \A a \in TgAccounts : a \notin S => Cancelled(S)[a] = loops[a]
  <2>1. SUFFICES ASSUME NEW a \in TgAccounts, a \notin S
                 PROVE  Cancelled(S)[a] = loops[a]
    OBVIOUS
  <2>2. Cancelled(S)[a] \in [Runs -> {"live", "cancelled", "gone"}]
        /\ loops[a] \in [Runs -> {"live", "cancelled", "gone"}]
    BY <1>1, <1>4
  <2>3. \A n \in Runs : Cancelled(S)[a][n] = loops[a][n]
    BY <2>1, <1>3
  <2>4. QED
    BY <2>2, <2>3
<1>6. \A a \in TgAccounts, n \in Runs : Cancelled(S)[a][n] = "live" => loops[a][n] = "live" /\ a \notin S
  BY <1>2, <1>3
<1>7. QED
  BY <1>1, <1>4, <1>5, <1>6 DEF Disconnected

LEMMA InstallManagerKeeps ==
  ASSUME ClusterIInv, OneTgRequest, NEW c \in TgCallers, InstallManager(c)
  PROVE  ClusterIInv'
<1> DEFINE a == task[c].acct
           stale == managers \ task[c].rows
<1>1. /\ Busy(c) /\ Do(c, Rest(c)) /\ Head(task[c].todo) = "install" /\ ~TaskAt(c, "stop")
      /\ managers' = task[c].rows /\ readyNow' = readyNow \cap task[c].rows
      /\ mclient' = Disconnected(stale) /\ loops' = Cancelled(stale)
      /\ UNCHANGED <<acctRow, primaryRow, authorised>>
  BY DEF InstallManager, TaskAt
<1>2. /\ task' \in [TgCallers -> TaskRecords \cup {NoTask}]
      /\ task'[c] # NoTask => /\ Rest(c) # <<>> /\ task'[c].todo = Rest(c) /\ task'[c].acct = a
  BY <1>1, RestMoves
<1>3. a \in TgAccounts /\ task[c].rows \subseteq TgAccounts
  BY <1>1, BusyIs DEF TaskRecords
<1>4. \A x \in TgAccounts : mclient'[x] = IF x \in stale THEN 0 ELSE mclient[x]
  BY <1>1, CancelTyped
<1>5. \A d \in TgCallers : Busy(d)' => TaskFits(task[d])'
  <2>1. mclient'[a] \in {mclient[a], 0} /\ Enabled' = Enabled
    BY <1>1, <1>3, <1>4 DEF Enabled
  <2>2. QED
    BY <1>1, <1>2, <2>1, GoesOn
<1>6. OneConnection'
  <2>1. SUFFICES ASSUME NEW x \in TgAccounts, NEW n \in Runs, loops'[x][n] = "live"
                 PROVE  x \in managers' /\ mclient'[x] = n
    BY DEF OneConnection
  <2>2. loops[x][n] = "live" /\ x \notin stale
    BY <1>1, <2>1, CancelTyped
  <2>3. x \in managers /\ mclient[x] = n
    BY <2>2 DEF ClusterIInv, OneConnection
  <2>4. QED
    BY <1>1, <1>4, <2>2, <2>3
<1>7. ReadyHasSession'
  <2>1. SUFFICES ASSUME NEW x \in readyNow', mclient'[x] # 0
                 PROVE  x \in authorised'
    BY DEF ReadyHasSession
  <2>2. x \in readyNow /\ x \in TgAccounts
    BY <1>1 DEF ClusterIInv, ClusterTypeOK
  <2>3. x \notin stale /\ mclient'[x] = mclient[x] /\ loops'[x] = loops[x]
    BY <1>1, <1>4, <2>1, <2>2, CancelTyped
  <2>4. Signed(x)
    BY <1>1, <2>2, ReadyAreSigned
  <2>5. QED
    BY <1>1, <2>1, <2>3, <2>4 DEF Signed
<1>8. ClusterTypeOK'
  BY <1>1, <1>2, <1>3, CancelTyped DEF ClusterIInv, ClusterTypeOK
<1>9. (Registered' # {} => Enabled' # {}) /\ PrimaryFits'
  BY <1>1 DEF ClusterIInv, Registered, Enabled, PrimaryFits
<1>10. QED
  BY <1>5, <1>6, <1>7, <1>8, <1>9 DEF ClusterIInv

LEMMA StopKeeps ==
  ASSUME ClusterIInv, OneTgRequest, NEW c \in TgCallers, Stop(c)
  PROVE  ClusterIInv'
<1> DEFINE a == task[c].acct
<1>1. /\ Busy(c) /\ Do(c, Rest(c)) /\ Head(task[c].todo) = "stop"
      /\ mclient' = Disconnected({a}) /\ loops' = Cancelled({a})
      /\ UNCHANGED <<acctRow, primaryRow, authorised, managers, readyNow>>
  BY DEF Stop, TaskAt
<1>2. /\ task' \in [TgCallers -> TaskRecords \cup {NoTask}]
      /\ task'[c] # NoTask => /\ Rest(c) # <<>> /\ task'[c].todo = Rest(c) /\ task'[c].acct = a
  BY <1>1, RestMoves
<1>3. a \in TgAccounts
  BY <1>1, BusyIs
<1>4. \A x \in TgAccounts : mclient'[x] = IF x = a THEN 0 ELSE mclient[x]
  BY <1>1, CancelTyped
<1>5. \A d \in TgCallers : Busy(d)' => TaskFits(task[d])'
  <2>1. mclient'[a] = 0 /\ Enabled' = Enabled
    BY <1>1, <1>3, <1>4 DEF Enabled
  <2>2. QED
    BY <1>1, <1>2, <2>1, GoesOn
<1>6. OneConnection'
  <2>1. SUFFICES ASSUME NEW x \in TgAccounts, NEW n \in Runs, loops'[x][n] = "live"
                 PROVE  x \in managers' /\ mclient'[x] = n
    BY DEF OneConnection
  <2>2. loops[x][n] = "live" /\ x # a
    BY <1>1, <2>1, CancelTyped
  <2>3. x \in managers /\ mclient[x] = n
    BY <2>2 DEF ClusterIInv, OneConnection
  <2>4. QED
    BY <1>1, <1>4, <2>2, <2>3
<1>7. ReadyHasSession'
  <2>1. SUFFICES ASSUME NEW x \in readyNow', mclient'[x] # 0
                 PROVE  x \in authorised'
    BY DEF ReadyHasSession
  <2>2. x \in readyNow /\ x \in TgAccounts
    BY <1>1 DEF ClusterIInv, ClusterTypeOK
  <2>3. x # a /\ mclient'[x] = mclient[x] /\ loops'[x] = loops[x]
    BY <1>1, <1>4, <2>1, <2>2, CancelTyped
  <2>4. Signed(x)
    BY <2>2, <2>3 DEF ClusterIInv, ReadyHasSession, Signed, OneTgRequest
  <2>5. QED
    BY <1>1, <2>1, <2>3, <2>4 DEF Signed
<1>8. ClusterTypeOK'
  BY <1>1, <1>2, CancelTyped DEF ClusterIInv, ClusterTypeOK
<1>9. (Registered' # {} => Enabled' # {}) /\ PrimaryFits'
  BY <1>1 DEF ClusterIInv, Registered, Enabled, PrimaryFits
<1>10. QED
  BY <1>5, <1>6, <1>7, <1>8, <1>9 DEF ClusterIInv

\* A step that leaves managers, clients and rows alone, and no account ready that
\* is not.
LEMMA OnlyTheFlags ==
  ASSUME ClusterIInv, OneTgRequest, NEW c \in TgCallers, ~TaskAt(c, "stop"), Busy(c), Do(c, Rest(c)),
         Head(task[c].todo) \notin {"stop", "count"},
         UNCHANGED <<acctRow, primaryRow, managers, mclient, loops>>,
         authorised' \subseteq TgAccounts, readyNow' \subseteq managers
  PROVE  /\ ClusterTypeOK'
         /\ \A d \in TgCallers : Busy(d)' => TaskFits(task[d])'
         /\ OneConnection' /\ (Registered' # {} => Enabled' # {}) /\ PrimaryFits'
<1>1. /\ task' \in [TgCallers -> TaskRecords \cup {NoTask}]
      /\ task'[c] # NoTask => /\ Rest(c) # <<>> /\ task'[c].todo = Rest(c) /\ task'[c].acct = task[c].acct
  BY RestMoves
<1>2. mclient'[task[c].acct] \in {mclient[task[c].acct], 0} /\ Enabled' = Enabled
  BY DEF Enabled
<1>3. \A d \in TgCallers : Busy(d)' => TaskFits(task[d])'
  BY <1>1, <1>2, GoesOn
<1>4. QED
  BY <1>1, <1>3 DEF ClusterIInv, ClusterTypeOK, OneConnection, Registered, Enabled, PrimaryFits

LEMMA StopWaitedKeeps ==
  ASSUME ClusterIInv, OneTgRequest, NEW c \in TgCallers, StopWaited(c)
  PROVE  ClusterIInv'
<1>1. /\ ~TaskAt(c, "stop") /\ Busy(c) /\ Do(c, Rest(c)) /\ Head(task[c].todo) = "wait"
      /\ UNCHANGED <<acctRow, primaryRow, authorised, managers, readyNow, mclient, loops>>
  BY DEF StopWaited, TaskAt
<1>2. authorised' \subseteq TgAccounts /\ readyNow' \subseteq managers
  BY <1>1 DEF ClusterIInv, ClusterTypeOK
<1>3. ReadyHasSession'
  BY <1>1, ReadyAreSigned DEF Signed, ReadyHasSession
<1>4. QED
  BY <1>1, <1>2, <1>3, OnlyTheFlags DEF ClusterIInv

LEMMA RevokeSessionKeeps ==
  ASSUME ClusterIInv, OneTgRequest, NEW c \in TgCallers, RevokeSession(c)
  PROVE  ClusterIInv'
<1> DEFINE a == task[c].acct
           head == Head(task[c].todo)
<1>1. /\ ~TaskAt(c, "stop") /\ Busy(c) /\ Do(c, Rest(c)) /\ head \in {"logout", "unlink"}
      /\ authorised' \in {authorised, authorised \ {a}}
      /\ UNCHANGED <<acctRow, primaryRow, managers, readyNow, mclient, loops>>
  BY DEF RevokeSession, TaskAt
<1>2. authorised' \subseteq TgAccounts /\ readyNow' \subseteq managers
  BY <1>1 DEF ClusterIInv, ClusterTypeOK
<1>3. TaskFits(task[c]) /\ HeadFits(task[c].todo) /\ task[c].todo \in Plans
  BY <1>1, BusyIs
<1>4. \A x \in readyNow : x # a => Signed(x)'
  BY <1>1, ReadyAreSigned DEF Signed
<1>5. CASE head = "logout"
  <2>1. Rest(c) # <<>> /\ Rest(c) \in Plans \cup {<<>>} /\ Head(Rest(c)) = "stop"
    BY <1>1, <1>3, <1>5, StepsTaken DEF HeadFits, Rest
  <2>2. task'[c] \in TaskRecords /\ task'[c].todo = Rest(c) /\ task'[c].acct = a
    BY <1>1, <2>1, DoMoves
  <2>3. NoTask \notin TaskRecords
    BY <1>1, StepsTaken DEF TaskRecords, NoTask
  <2>4. task[c].acct' = a /\ TaskAt(c, "stop")'
    BY <2>1, <2>2, <2>3 DEF TaskAt, Busy
  <2>5. ReadyHasSession'
    BY <1>1, <1>4, <2>4 DEF ReadyHasSession, Signed
  <2>6. QED
    BY <1>1, <1>2, <1>5, <2>5, OnlyTheFlags DEF ClusterIInv
<1>6. CASE head = "unlink"
  <2>1. task[c].todo \in Offline \/ task[c].todo = Unloaded
    BY <1>1, <1>3, <1>6 DEF HeadFits
  <2>2. mclient[a] = 0 \/ a \notin readyNow
    BY <2>1, <1>3 DEF TaskFits, ClusterIInv, ClusterTypeOK
  <2>3. ReadyHasSession'
    BY <1>1, <1>4, <2>2 DEF ReadyHasSession, Signed
  <2>4. QED
    BY <1>1, <1>2, <1>6, <2>3, OnlyTheFlags DEF ClusterIInv
<1>7. QED
  BY <1>1, <1>5, <1>6

LEMMA GainSessionKeeps ==
  ASSUME ClusterIInv, OneTgRequest, NEW c \in TgCallers, GainSession(c)
  PROVE  ClusterIInv'
<1> DEFINE a == task[c].acct
           head == Head(task[c].todo)
<1>1. /\ ~TaskAt(c, "stop") /\ Busy(c) /\ Do(c, Rest(c)) /\ head \in {"signin", "import"}
      /\ authorised' = authorised \cup {a} \/ (head = "import" /\ authorised' = authorised \ {a})
      /\ UNCHANGED <<acctRow, primaryRow, managers, readyNow, mclient, loops>>
  BY DEF GainSession, TaskAt
<1>2. TaskFits(task[c]) /\ HeadFits(task[c].todo) /\ a \in TgAccounts
  BY <1>1, BusyIs
<1>3. authorised' \subseteq TgAccounts /\ readyNow' \subseteq managers
  BY <1>1, <1>2 DEF ClusterIInv, ClusterTypeOK
<1>4. head = "import" => mclient[a] = 0
  <2>1. SUFFICES ASSUME head = "import"
                 PROVE  task[c].todo \in Offline
    BY <1>2 DEF TaskFits
  <2>2. Head(Unloaded) # "import" /\ Head(<<"wait", "delete", "reload">>) # "import"
        /\ Head(<<"stop", "wait">>) # "import" /\ Head(<<"wait">>) # "import"
    BY DEF Unloaded
  <2>3. QED
    BY <1>2, <2>1, <2>2 DEF HeadFits
<1>5. \A x \in readyNow' : Signed(x)'
  BY <1>1, <1>4, ReadyAreSigned DEF Signed
<1>6. ReadyHasSession'
  BY <1>5 DEF ReadyHasSession, Signed
<1>7. QED
  BY <1>1, <1>3, <1>6, OnlyTheFlags DEF ClusterIInv

LEMMA RunsAre == 1 \in Runs /\ 0 \notin Runs
  BY RunsAssumption DEF Runs

LEMMA DialKeeps ==
  ASSUME ClusterIInv, OneTgRequest, NEW c \in TgCallers, Dial(c)
  PROVE  ClusterIInv'
<1> DEFINE a == task[c].acct
<1>1. /\ Busy(c) /\ Head(task[c].todo) = "dial" /\ ~TaskAt(c, "stop")
      /\ readyNow' = readyNow \ {a}
      /\ UNCHANGED <<acctRow, primaryRow, authorised, managers>>
  BY DEF Dial, TaskAt
<1>2. TaskFits(task[c]) /\ HeadFits(task[c].todo) /\ a \in TgAccounts
  BY <1>1, BusyIs
<1>3. a \in managers /\ mclient[a] = 0
  <2>1. task[c].todo \in Dialling
    BY <1>1, <1>2 DEF HeadFits
  <2>2. QED
    BY <1>2, <2>1 DEF TaskFits, Offline
<1>4. \A x \in readyNow : Signed(x) /\ x \in TgAccounts
  BY <1>1, ReadyAreSigned DEF ClusterIInv, ClusterTypeOK
<1>5. CASE Answer(c) /\ UNCHANGED <<mclient, loops>>
  <2>1. task' \in [TgCallers -> TaskRecords \cup {NoTask}] /\ task'[c] = NoTask
    BY <1>1, <1>5, AnswerMoves
  <2>2. \A d \in TgCallers : Busy(d)' => TaskFits(task[d])'
    BY <2>1, Alone
  <2>3. ReadyHasSession'
    BY <1>1, <1>4, <1>5 DEF ReadyHasSession, Signed
  <2>4. ClusterTypeOK' /\ OneConnection' /\ (Registered' # {} => Enabled' # {}) /\ PrimaryFits'
    BY <1>1, <1>5, <2>1 DEF ClusterIInv, ClusterTypeOK, OneConnection, Registered, Enabled, PrimaryFits
  <2>5. QED
    BY <2>2, <2>3, <2>4 DEF ClusterIInv
<1>6. ASSUME NEW n \in Runs, loops' = [loops EXCEPT ![a][n] = "live"],
             mclient' = [mclient EXCEPT ![a] = n], Do(c, Rest(c))
      PROVE  ClusterIInv'
  <2>1. /\ task' \in [TgCallers -> TaskRecords \cup {NoTask}]
        /\ task'[c] # NoTask => /\ Rest(c) # <<>> /\ task'[c].todo = Rest(c) /\ task'[c].acct = a
    BY <1>1, <1>6, RestMoves
  <2>2. /\ mclient \in [TgAccounts -> Runs \cup {0}]
        /\ loops \in [TgAccounts -> [Runs -> {"live", "cancelled", "gone"}]]
    BY DEF ClusterIInv, ClusterTypeOK
  <2>3. /\ \A x \in TgAccounts : mclient'[x] = IF x = a THEN n ELSE mclient[x]
        /\ \A x \in TgAccounts : x # a => loops'[x] = loops[x]
        /\ loops'[a] = [loops[a] EXCEPT ![n] = "live"]
    BY <1>2, <1>6, <2>2
  <2>4. \A d \in TgCallers : Busy(d)' => TaskFits(task[d])'
    <3>1. Enabled' = Enabled
      BY <1>1 DEF Enabled
    <3>2. QED
      BY <1>1, <2>1, <3>1, GoesOn
  <2>5. OneConnection'
    <3>1. SUFFICES ASSUME NEW x \in TgAccounts, NEW k \in Runs, loops'[x][k] = "live"
                   PROVE  x \in managers' /\ mclient'[x] = k
      BY DEF OneConnection
    <3>2. CASE x # a
      BY <1>1, <2>3, <3>1, <3>2 DEF ClusterIInv, OneConnection
    <3>3. CASE x = a
      <4>1. k = n
        <5>1. loops[a][k] # "live"
          BY <1>2, <1>3, RunsAre DEF ClusterIInv, OneConnection
        <5>2. QED
          BY <2>2, <2>3, <3>1, <3>3, <5>1, <1>2
      <4>2. QED
        BY <1>1, <1>3, <2>3, <3>3, <4>1, <1>2
    <3>4. QED
      BY <3>2, <3>3
  <2>6. ReadyHasSession'
    BY <1>1, <1>4, <2>3 DEF ReadyHasSession, Signed
  <2>7. ClusterTypeOK'
    <3>1. loops' \in [TgAccounts -> [Runs -> {"live", "cancelled", "gone"}]]
      BY <1>6, <2>2
    <3>2. mclient' \in [TgAccounts -> Runs \cup {0}]
      BY <1>6, <2>2
    <3>3. QED
      BY <1>1, <2>1, <3>1, <3>2 DEF ClusterIInv, ClusterTypeOK
  <2>8. (Registered' # {} => Enabled' # {}) /\ PrimaryFits'
    BY <1>1 DEF ClusterIInv, Registered, Enabled, PrimaryFits
  <2>9. QED
    BY <2>4, <2>5, <2>6, <2>7, <2>8 DEF ClusterIInv
<1>7. QED
  BY <1>5, <1>6 DEF Dial

LEMMA ConnectKeeps ==
  ASSUME ClusterIInv, OneTgRequest, NEW c \in TgCallers, Connect(c)
  PROVE  ClusterIInv'
<1>1. /\ Busy(c) /\ Head(task[c].todo) = "connect" /\ ~TaskAt(c, "stop")
      /\ UNCHANGED <<acctRow, primaryRow, authorised, managers, readyNow, mclient, loops>>
      /\ Do(c, Rest(c)) \/ Answer(c)
  BY DEF Connect, TaskAt
<1>2. CASE Do(c, Rest(c))
  <2>1. authorised' \subseteq TgAccounts /\ readyNow' \subseteq managers
    BY <1>1 DEF ClusterIInv, ClusterTypeOK
  <2>2. ReadyHasSession'
    BY <1>1, ReadyAreSigned DEF Signed, ReadyHasSession
  <2>3. QED
    BY <1>1, <1>2, <2>1, <2>2, OnlyTheFlags DEF ClusterIInv
<1>3. CASE Answer(c)
  <2>1. task' \in [TgCallers -> TaskRecords \cup {NoTask}] /\ task'[c] = NoTask
    BY <1>1, <1>3, AnswerMoves
  <2>2. QED
    BY <1>1, <2>1, OnlyTheTask
<1>4. QED
  BY <1>1, <1>2, <1>3

LEMMA ConnectTimeoutKeeps ==
  ASSUME ClusterIInv, OneTgRequest, NEW c \in TgCallers, ConnectTimeout(c)
  PROVE  ClusterIInv'
<1> DEFINE s == <<"stop", "wait">>
<1>1. /\ Busy(c) /\ ~TaskAt(c, "stop") /\ Do(c, s)
      /\ UNCHANGED <<acctRow, primaryRow, authorised, managers, readyNow, mclient, loops>>
  BY DEF ConnectTimeout, TaskAt
<1>2. /\ s \in Plans /\ s # <<>>
      /\ s \notin Offline \cup Taking \cup {Inserting, Unloaded, Start, Accepted} \cup Dialling
  BY DEF Plans, Changing, Offline, Taking, Inserting, Unloaded, Start, Dialling, Accepted
<1>3. task' \in [TgCallers -> TaskRecords \cup {NoTask}] /\ task'[c].todo = s
  BY <1>1, <1>2, DoMoves
<1>4. TaskFits(task[c])'
  BY <1>2, <1>3 DEF TaskFits
<1>5. QED
  BY <1>1, <1>3, <1>4, OnlyTheTask

\* The question: an account that is accepted has its session.
LEMMA RefreshAuthKeeps ==
  ASSUME ClusterIInv, OneTgRequest, NEW c \in TgCallers, RefreshAuth(c)
  PROVE  ClusterIInv'
<1> DEFINE a == task[c].acct
<1>1. /\ Busy(c) /\ ~TaskAt(c, "stop")
      /\ UNCHANGED <<acctRow, primaryRow, authorised, managers, readyNow, mclient, loops>>
      /\ Answer(c) \/ Do(c, <<"refused">>) \/ (a \in authorised /\ Do(c, Accepted))
  BY DEF RefreshAuth, TaskAt, Accepted
<1>2. CASE Answer(c)
  <2>1. task' \in [TgCallers -> TaskRecords \cup {NoTask}] /\ task'[c] = NoTask
    BY <1>1, <1>2, AnswerMoves
  <2>2. QED
    BY <1>1, <2>1, OnlyTheTask
<1>3. ASSUME NEW s \in {<<"refused">>, Accepted}, Do(c, s), s = Accepted => a \in authorised
      PROVE  ClusterIInv'
  <2>1. /\ s \in Plans /\ s # <<>>
        /\ s \notin Offline \cup Taking \cup {Inserting, Unloaded, Start} \cup Dialling
    BY DEF Plans, Adding, Offline, Taking, Inserting, Unloaded, Start, Dialling, Accepted
  <2>2. task' \in [TgCallers -> TaskRecords \cup {NoTask}] /\ task'[c].todo = s /\ task'[c].acct = a
    BY <1>1, <1>3, <2>1, DoMoves
  <2>3. TaskFits(task[c])'
    BY <1>1, <1>3, <2>1, <2>2 DEF TaskFits
  <2>4. QED
    BY <1>1, <2>2, <2>3, OnlyTheTask
<1>4. <<"refused">> # Accepted
  BY DEF Accepted
<1>5. QED
  BY <1>1, <1>2, <1>3, <1>4

\* The answer is written, to a manager that is loaded.
LEMMA SettleAuthKeeps ==
  ASSUME ClusterIInv, OneTgRequest, NEW c \in TgCallers, SettleAuth(c)
  PROVE  ClusterIInv'
<1> DEFINE a == task[c].acct
<1>1. /\ Busy(c) /\ Head(task[c].todo) \in {"accepted", "refused"} /\ ~TaskAt(c, "stop") /\ Answer(c)
      /\ UNCHANGED <<acctRow, primaryRow, authorised, managers, mclient, loops>>
  BY DEF SettleAuth, TaskAt
<1>2. \/ readyNow' \subseteq readyNow
      \/ readyNow' = readyNow \cup ({a} \cap managers) /\ a \in authorised
  <2>1. TaskFits(task[c]) /\ HeadFits(task[c].todo)
    BY <1>1, BusyIs
  <2>2. TaskAt(c, "accepted") => a \in authorised
    BY <2>1 DEF HeadFits, TaskFits, TaskAt
  <2>3. QED
    BY <2>2 DEF SettleAuth
<1>3. task' \in [TgCallers -> TaskRecords \cup {NoTask}] /\ task'[c] = NoTask
  BY <1>1, AnswerMoves
<1>4. \A d \in TgCallers : Busy(d)' => TaskFits(task[d])'
  BY <1>3, Alone
<1>5. \A x \in readyNow' : Signed(x)'
  BY <1>1, <1>2, ReadyAreSigned DEF Signed
<1>6. ReadyHasSession'
  BY <1>5 DEF ReadyHasSession, Signed
<1>7. ClusterTypeOK' /\ OneConnection' /\ (Registered' # {} => Enabled' # {}) /\ PrimaryFits'
  BY <1>1, <1>2, <1>3 DEF ClusterIInv, ClusterTypeOK, OneConnection, Registered, Enabled, PrimaryFits
<1>8. QED
  BY <1>4, <1>6, <1>7 DEF ClusterIInv

LEMMA LoopEndsKeeps ==
  ASSUME ClusterIInv, NEW a \in TgAccounts, NEW n \in Runs, LoopEnds(a, n)
  PROVE  ClusterIInv'
<1>1. /\ loops[a][n] # "gone" /\ loops' = [loops EXCEPT ![a][n] = "gone"]
      /\ (loops[a][n] = "cancelled" /\ readyNow' = readyNow) \/ readyNow' = readyNow \ {a}
      /\ UNCHANGED <<acctRow, primaryRow, authorised, managers, mclient, task>>
  BY DEF LoopEnds
<1>2. loops \in [TgAccounts -> [Runs -> {"live", "cancelled", "gone"}]]
  BY DEF ClusterIInv, ClusterTypeOK
<1>3. /\ \A x \in TgAccounts : x # a => loops'[x] = loops[x]
      /\ \A k \in Runs : k # n => loops'[a][k] = loops[a][k]
      /\ loops'[a][n] = "gone"
      /\ loops' \in [TgAccounts -> [Runs -> {"live", "cancelled", "gone"}]]
  BY <1>1, <1>2
<1>4. \A d \in TgCallers : Busy(d)' => TaskFits(task[d])'
  BY <1>1 DEF ClusterIInv, Busy, TaskFits, Another, Enabled, Registered
<1>5. OneConnection'
  BY <1>1, <1>3 DEF ClusterIInv, OneConnection
<1>6. ReadyHasSession'
  BY <1>1 DEF ClusterIInv, ReadyHasSession, TaskAt, Busy
<1>7. ClusterTypeOK' /\ (Registered' # {} => Enabled' # {}) /\ PrimaryFits'
  BY <1>1, <1>3 DEF ClusterIInv, ClusterTypeOK, Registered, Enabled, PrimaryFits
<1>8. QED
  BY <1>4, <1>5, <1>6, <1>7 DEF ClusterIInv

LEMMA ClusterRestartKeeps ==
  ASSUME ClusterIInv, ClusterRestart
  PROVE  ClusterIInv'
<1>1. PICK seed \in {{}} \cup {{a} : a \in TgAccounts} :
        /\ seed # {} => Registered = {}
        /\ acctRow' = [a \in TgAccounts |-> IF a \in seed THEN "on" ELSE acctRow[a]]
        /\ primaryRow' = primaryRow \cup seed
  BY DEF ClusterRestart
<1>2. managers' = {a \in TgAccounts : acctRow'[a] = "on"} /\ authorised' = authorised
      /\ task' = [c \in TgCallers |-> NoTask]
  BY DEF ClusterRestart
<1>3. PICK up \in SUBSET managers' : \E running \in SUBSET up, accepted \in SUBSET (up \cap authorised) :
        /\ mclient' = [a \in TgAccounts |-> IF a \in up THEN 1 ELSE 0]
        /\ loops' = [a \in TgAccounts |->
                       [n \in Runs |-> IF a \in running /\ n = 1 THEN "live" ELSE "gone"]]
        /\ readyNow' = accepted
  BY DEF ClusterRestart
<1>4. /\ acctRow \in [TgAccounts -> {"absent", "on", "off"}] /\ primaryRow \subseteq Registered
      /\ (\A b, d \in primaryRow : b = d) /\ (Registered # {} => Enabled # {}) /\ authorised \subseteq TgAccounts
  BY DEF ClusterIInv, ClusterTypeOK, PrimaryFits
<1>5. acctRow' \in [TgAccounts -> {"absent", "on", "off"}]
  BY <1>1, <1>4
<1>6. Enabled \subseteq Enabled' /\ seed \subseteq Enabled' /\ Registered' = Registered \cup seed
  BY <1>1 DEF Enabled, Registered
<1>7. PrimaryFits'
  <2>1. CASE seed = {}
    BY <1>1, <1>4, <1>6, <2>1 DEF PrimaryFits
  <2>2. CASE seed # {}
    BY <1>1, <1>4, <1>6, <2>2 DEF PrimaryFits
  <2>3. QED
    BY <2>1, <2>2
<1>8. Registered' # {} => Enabled' # {}
  BY <1>4, <1>6
<1>9. \A c \in TgCallers : ~Busy(c)'
  BY <1>2 DEF Busy, NoTask
<1>10. ClusterTypeOK'
  BY <1>2, <1>3, <1>4, <1>5, RunsAre DEF ClusterTypeOK
<1>11. OneConnection'
  BY <1>2, <1>3 DEF OneConnection
<1>12. ReadyHasSession'
  BY <1>2, <1>3, RunsAre DEF ReadyHasSession
<1>13. QED
  BY <1>7, <1>8, <1>9, <1>10, <1>11, <1>12 DEF ClusterIInv

LEMMA ClusterInitHolds == ClusterInit => ClusterIInv
<1>1. SUFFICES ASSUME ClusterInit PROVE ClusterIInv
  OBVIOUS
<1>2. Registered = {} /\ \A c \in TgCallers : ~Busy(c)
  BY <1>1 DEF ClusterInit, Registered, Busy
<1>3. ClusterTypeOK
  BY <1>1 DEF ClusterInit, ClusterTypeOK
<1>4. QED
  BY <1>1, <1>2, <1>3 DEF ClusterInit, ClusterIInv, OneConnection, ReadyHasSession, PrimaryFits

LEMMA ClusterNextKeeps == ASSUME ClusterIInv, OneTgRequest, [ClusterNext]_clusterVars PROVE ClusterIInv'
<1>1. ASSUME NEW c \in TgCallers, CallerStep(c) PROVE ClusterIInv'
  BY <1>1, FailsKeeps, CountRowsKeeps, WriteRowKeeps, EnterKeeps, ListAccountsKeeps,
     InstallManagerKeeps, StopKeeps, StopWaitedKeeps, RevokeSessionKeeps, GainSessionKeeps,
     DialKeeps, ConnectKeeps, ConnectTimeoutKeeps, RefreshAuthKeeps, SettleAuthKeeps DEF CallerStep
<1>2. CASE UNCHANGED clusterVars
  BY <1>2 DEF ClusterIInv, ClusterTypeOK, OneConnection, ReadyHasSession, PrimaryFits, Registered,
              Enabled, TaskFits, Another, Busy, TaskAt, clusterVars
<1>3. CASE ClusterNext
  BY <1>1, <1>3, RequestsKeep, LoopEndsKeeps, ClusterRestartKeeps DEF ClusterNext
<1>4. QED
  BY <1>2, <1>3

\* ClusterIInv is inductive.
THEOREM ClusterInvariantHolds == ASSUME OneTgRequest PROVE ClusterSpec => []ClusterIInv
<1>1. ClusterIInv /\ [ClusterNext]_clusterVars => ClusterIInv'
  BY ClusterNextKeeps
<1>2. QED
  BY <1>1, ClusterInitHolds, PTL DEF ClusterSpec

\* With one request of the administrator at a time, an account has one connection
\* at most, which its loaded manager can stop; one that counts as signed in and
\* has a client has a session Telegram accepts, except while the request that ended
\* the session is about to stop the client; and a drive with accounts keeps one
\* enabled, whatever dials time out, loops return late and requests fail
\* (Manager.start, Stop, refreshAuth, Cluster.reload, Add, Remove, Update).
THEOREM ClusterIsSound == ASSUME OneTgRequest PROVE ClusterSpec => []ClusterSound
<1>1. ClusterIInv => ClusterSound
  <2>1. SUFFICES ASSUME ClusterIInv PROVE Cardinality(primaryRow) <= 1
    BY DEF ClusterIInv, ClusterSound, AccountRemains
  <2>2. CASE primaryRow = {}
    BY <2>2, FS_EmptySet
  <2>3. CASE primaryRow # {}
    <3>1. PICK a \in primaryRow : TRUE
      BY <2>3
    <3>2. primaryRow = {a}
      BY <2>1, <3>1 DEF ClusterIInv, PrimaryFits
    <3>3. Cardinality({a}) = 1
      BY FS_Singleton
    <3>4. QED
      BY <3>2, <3>3
  <2>4. QED
    BY <2>2, <2>3
<1>2. QED
  BY <1>1, ClusterInvariantHolds, PTL

-----------------------------------------------------------------------------
(***************************************************************************)
(* Membership.  The flag of an account follows what was recorded about it. *)
(* A request or a check that holds channelStateMu is alone in that; what it *)
(* works on is the default channel, unless the request that chose another  *)
(* one is waiting for the lock with every account before it.  A lookup of  *)
(* a transfer takes no lock: the account it asks about counts as touched   *)
(* while it runs.                                                          *)
(***************************************************************************)
\* Where a request or a check holds the lock.
LockPcs == {"next", "answer", "forget", "grant", "settle"}

Jobs == [pc : LockPcs \cup {"idle", "lock", "choose"}, kind : {"none", "check", "join", "ref"},
         todo : SUBSET Members, channel : Channels \cup {"none"}, member : Members \cup {"none"},
         rank : Answers \cup {"none"}]

MemberTypeOK ==
  /\ canPost \in [Members -> SUBSET (Channels \cup {"none"})]
  /\ defaultChan \in Channels \cup {"none"}
  /\ usable \subseteq Members /\ touched \subseteq Members
  /\ stateMu \in BOOLEAN
  /\ job \in [Processes -> Jobs]

\* What a step of a job says of its other fields.
JobFits(o) ==
  /\ o.pc \in LockPcs \ {"next"} => o.member \in Members
  /\ o.pc \in {"idle", "choose"} => o.kind = "none"
  /\ o.pc \in {"lock", "grant"} => o.kind = "join"
  /\ o.pc = "settle" => o.rank \in {"reader", "poster"}

JobsFit ==
  /\ \A p \in Processes : JobFits(job[p])
  /\ \A p \in Requests \cup Pollers : job[p].pc = "forget" => job[p].kind = "check"
  /\ \A t \in Transfers : job[t].pc \in {"idle", "answer", "settle", "forget"}

\* channelStateMu has one holder.
LockFits ==
  \A p \in Requests \cup Pollers : job[p].pc \in LockPcs =>
    /\ stateMu
    /\ \A q \in Requests \cup Pollers : job[q].pc \in LockPcs => q = p

\* The request that chose the default channel waits with every account.
Chosen == \E r \in Requests : job[r].pc = "lock" /\ job[r].todo = Members

ChannelsFit ==
  /\ \A r \in Requests : job[r].pc \in LockPcs \cup {"lock"} => job[r].channel = defaultChan
  /\ \A p \in Pollers : job[p].pc \in LockPcs => job[p].channel = defaultChan \/ Chosen

\* What a job that holds the lock knows of the account it is at.
FlagFits(o) ==
  o.member \in touched \/
    /\ o.pc = "forget" => o.member \notin usable
    /\ o.pc \in {"answer", "grant"} /\ o.kind = "join" => o.member \notin usable
    /\ o.pc = "settle" /\ o.rank = "poster" => o.channel \in canPost[o.member]

FlagsFit ==
  /\ \A p \in Requests \cup Pollers : FlagFits(job[p])
  /\ \A t \in Transfers : job[t].pc # "idle" => job[t].member \in touched

MemberIInv == MemberTypeOK /\ JobsFit /\ LockFits /\ ChannelsFit /\ FlagsFit /\ UsableOnDefault

\* One request of the administrator at a time; any number of checks and of
\* lookups.
OneRequest == \A r, s \in Requests : r = s

LEMMA MemberInitHolds == MemberInit => MemberIInv
<1> SUFFICES ASSUME MemberInit PROVE MemberIInv
  OBVIOUS
<1>1. NoJob \in Jobs /\ NoJob.pc = "idle" /\ NoJob.kind = "none"
  BY DEF NoJob, Jobs, LockPcs
<1>2. \A p \in Processes : job[p] = NoJob
  BY DEF MemberInit
<1>3. MemberTypeOK
  BY <1>1 DEF MemberInit, MemberTypeOK
<1>4. JobsFit /\ LockFits /\ ChannelsFit /\ FlagsFit
  BY <1>1, <1>2 DEF JobsFit, JobFits, LockFits, ChannelsFit, FlagsFit, FlagFits, LockPcs, Processes
<1>5. UsableOnDefault
  BY DEF MemberInit, UsableOnDefault
<1> QED  BY <1>3, <1>4, <1>5 DEF MemberIInv

\* The job that holds the lock moves on, at one account.
LEMMA HolderMoves ==
  ASSUME MemberIInv, NEW p \in Requests \cup Pollers, job[p].pc \in LockPcs,
         NEW next \in Jobs, job' = [job EXCEPT ![p] = next],
         \/ next = NoJob /\ stateMu' = FALSE
         \/ /\ next.pc \in LockPcs /\ next.kind = job[p].kind /\ next.channel = job[p].channel
            /\ stateMu' = stateMu,
         defaultChan' = defaultChan,
         canPost' \in [Members -> SUBSET (Channels \cup {"none"})],
         usable' \subseteq Members, touched' \subseteq Members,
         NEW at \in Members, job[p].pc = "settle" => job[p].member = at,
         \A m \in Members \ {at} : /\ m \in job[p].todo => m \in next.todo
                                   /\ canPost'[m] = canPost[m]
                                   /\ m \in usable' => m \in usable
                                   /\ m \in touched => m \in touched',
         at \in touched /\ at \notin touched' => \A t \in Transfers : job[t].member # at,
         JobFits(next), next.pc = "forget" => next.kind = "check",
         FlagFits(next)',
         at \in usable' \ touched' => InTransit(at)' \/ defaultChan \in canPost'[at]
  PROVE  MemberIInv'
<1>1. p \in Processes /\ p \notin Transfers
  BY ProcessesAssumption DEF Processes
<1>2. /\ job' \in [Processes -> Jobs] /\ job'[p] = next
      /\ \A q \in Processes : q # p => job'[q] = job[q]
  BY <1>1 DEF MemberIInv, MemberTypeOK
<1>3. MemberTypeOK'
  BY <1>2 DEF MemberIInv, MemberTypeOK
<1>4. /\ NoJob.pc = "idle" /\ NoJob.kind = "none" /\ NoJob.todo = {}
      /\ "idle" \notin LockPcs /\ "lock" \notin LockPcs /\ "settle" \in LockPcs
  BY DEF NoJob, LockPcs
<1>5. JobsFit'
  BY <1>1, <1>2 DEF MemberIInv, JobsFit, JobFits, Processes
<1>6. \A q \in Requests \cup Pollers : q # p => job[q].pc \notin LockPcs
  BY DEF MemberIInv, LockFits
<1>7. LockFits'
  BY <1>2, <1>4, <1>6 DEF MemberIInv, LockFits, Processes
<1>8. ChannelsFit'
  <2>1. Chosen => Chosen'
    BY <1>2, <1>4 DEF Chosen, Processes
  <2>2. next.pc \in LockPcs \cup {"lock"} => next.channel = job[p].channel
    BY <1>4
  <2> QED  BY <1>1, <1>2, <1>6, <2>1, <2>2 DEF MemberIInv, ChannelsFit, Processes
<1>9. FlagsFit'
  <2>1. ASSUME NEW q \in Requests \cup Pollers, NEW o, o = job'[q] PROVE FlagFits(o)'
    <3>1. CASE q = p
      BY <1>2, <2>1, <3>1
    <3>2. CASE q # p
      <4>1. o.pc \notin LockPcs
        BY <1>2, <1>6, <2>1, <3>2 DEF Processes
      <4> QED  BY <4>1 DEF FlagFits, LockPcs
    <3> QED  BY <3>1, <3>2
  <2>2. ASSUME NEW t \in Transfers, job'[t].pc # "idle" PROVE job'[t].member \in touched'
    <3>1. job'[t] = job[t] /\ job[t].member \in touched
      BY <1>1, <1>2, <2>2 DEF MemberIInv, FlagsFit, Processes
    <3>2. job[t].member \in Members
      BY <3>1 DEF MemberIInv, MemberTypeOK
    <3> QED  BY <3>1, <3>2
  <2>3. \A q \in Requests \cup Pollers : \A o : o = job'[q] => FlagFits(o)'
    BY <2>1
  <2> QED  BY <2>2, <2>3 DEF FlagsFit, FlagFits
<1>10. UsableOnDefault'
  <2>1. ASSUME NEW m \in Members \ {at}, m \in usable', m \notin touched'
        PROVE  InTransit(m)' \/ defaultChan' \in canPost'[m]
    <3>1. InTransit(m) \/ defaultChan \in canPost[m]
      BY <2>1 DEF MemberIInv, UsableOnDefault
    <3>2. ASSUME InTransit(m) PROVE InTransit(m)'
      <4>1. PICK q \in Requests \cup Pollers : \/ job[q].kind = "join" /\ m \in job[q].todo
                                               \/ job[q].pc = "settle" /\ m = job[q].member
        BY <3>2 DEF InTransit
      <4>2. CASE q # p
        BY <1>2, <4>1, <4>2 DEF InTransit, Processes
      <4>3. CASE q = p
        BY <1>2, <1>4, <4>1, <4>3 DEF InTransit
      <4> QED  BY <4>2, <4>3
    <3> QED  BY <3>1, <3>2
  <2> QED  BY <1>3, <2>1 DEF UsableOnDefault, InTransit, MemberTypeOK
<1> QED  BY <1>3, <1>5, <1>7, <1>8, <1>9, <1>10 DEF MemberIInv

\* A lookup moves on, at an account that counts as touched.
LEMMA TransferMoves ==
  ASSUME MemberIInv, NEW t \in Transfers, NEW next \in Jobs, job' = [job EXCEPT ![t] = next],
         JobFits(next), next.pc \in {"idle", "answer", "settle", "forget"},
         UNCHANGED <<defaultChan, stateMu>>,
         canPost' \in [Members -> SUBSET (Channels \cup {"none"})],
         usable' \subseteq Members, touched' \subseteq Members, touched \subseteq touched',
         NEW at \in touched', next.pc # "idle" => next.member = at,
         \A m \in Members \ {at} : canPost'[m] = canPost[m] /\ (m \in usable' <=> m \in usable)
  PROVE  MemberIInv'
<1>1. t \in Processes /\ t \notin Requests \cup Pollers
  BY ProcessesAssumption DEF Processes
<1>2. /\ job' \in [Processes -> Jobs] /\ job'[t] = next
      /\ \A q \in Processes : q # t => job'[q] = job[q]
      /\ \A q \in Requests \cup Pollers : job'[q] = job[q]
  BY <1>1 DEF MemberIInv, MemberTypeOK, Processes
<1>3. MemberTypeOK'
  BY <1>2 DEF MemberIInv, MemberTypeOK
<1>4. JobsFit'
  BY <1>1, <1>2 DEF MemberIInv, JobsFit, JobFits, Processes
<1>5. LockFits' /\ ChannelsFit'
  BY <1>2 DEF MemberIInv, LockFits, ChannelsFit, Chosen
<1>6. FlagsFit'
  <2>1. ASSUME NEW q \in Requests \cup Pollers, NEW o, o = job'[q] PROVE FlagFits(o)'
    <3>1. FlagFits(o) /\ JobFits(o)
      BY <1>2, <2>1 DEF MemberIInv, FlagsFit, JobsFit, Processes
    <3> QED  BY <3>1 DEF FlagFits, JobFits, LockPcs
  <2>2. ASSUME NEW s \in Transfers, job'[s].pc # "idle" PROVE job'[s].member \in touched'
    BY <1>2, <2>2 DEF MemberIInv, FlagsFit, Processes
  <2>3. \A q \in Requests \cup Pollers : \A o : o = job'[q] => FlagFits(o)'
    BY <2>1
  <2> QED  BY <2>2, <2>3 DEF FlagsFit, FlagFits
<1>7. UsableOnDefault'
  BY <1>2 DEF MemberIInv, MemberTypeOK, UsableOnDefault, InTransit
<1> QED  BY <1>3, <1>4, <1>5, <1>6, <1>7 DEF MemberIInv

LEMMA JobTyped ==
  ASSUME MemberIInv, NEW p \in Processes
  PROVE  /\ job[p] \in Jobs /\ JobFits(job[p])
         /\ p \in Requests \cup Pollers => FlagFits(job[p])
BY DEF MemberIInv, MemberTypeOK, JobsFit, FlagsFit

\* The end of one account of a request: the next one, or the lock is released.
LEMMA NextAccountMoves ==
  ASSUME MemberIInv, NEW p, NEW o \in Jobs, o.pc \in LockPcs, NextAccount(p, o)
  PROVE  \E next \in Jobs :
           /\ job' = [job EXCEPT ![p] = next]
           /\ \/ next = NoJob /\ stateMu' = FALSE
              \/ /\ next.pc \in LockPcs /\ next.kind = o.kind /\ next.channel = o.channel
                 /\ stateMu' = stateMu
           /\ next.pc \in {"idle", "next"} /\ next.todo = o.todo
           /\ JobFits(next) /\ FlagFits(next)'
<1>1. CASE o.todo = {}
  <2>1. /\ NoJob \in Jobs /\ NoJob.pc = "idle" /\ NoJob.todo = {} /\ NoJob.kind = "none"
    BY DEF NoJob, Jobs, LockPcs
  <2>2. JobFits(NoJob) /\ FlagFits(NoJob)'
    BY <2>1 DEF JobFits, FlagFits, LockPcs
  <2> QED  BY <1>1, <2>1, <2>2 DEF NextAccount, SetJob
<1>2. CASE o.todo # {}
  <2>1. PICK next \in Jobs : next = [o EXCEPT !.pc = "next", !.member = "none", !.rank = "none"]
    BY DEF Jobs, LockPcs
  <2>2. next.pc = "next" /\ next.kind = o.kind /\ next.channel = o.channel /\ next.todo = o.todo
    BY <2>1 DEF Jobs
  <2>3. JobFits(next) /\ FlagFits(next)'
    BY <2>2 DEF JobFits, FlagFits, LockPcs
  <2>4. job' = [job EXCEPT ![p] = next] /\ stateMu' = stateMu
    BY <1>2, <2>1 DEF NextAccount, SetJob
  <2> QED  BY <2>2, <2>3, <2>4 DEF LockPcs
<1> QED  BY <1>1, <1>2

\* refreshAccountChannel without an answer, or with one that says "not in".
LEMMA CheckRefusedHolds ==
  ASSUME MemberIInv, NEW p \in Requests \cup Pollers, CheckRefused(p)
  PROVE  MemberIInv'
<1>1. /\ job[p] \in Jobs /\ JobFits(job[p]) /\ FlagFits(job[p])
      /\ job[p].pc = "answer" /\ job[p].kind = "check"
  BY JobTyped DEF CheckRefused, Processes
<1>2. PICK at \in Members : at = job[p].member
  BY <1>1 DEF JobFits, LockPcs
<1>3. /\ usable' = usable \ {at} /\ UNCHANGED <<canPost, defaultChan, touched>>
  BY <1>2 DEF CheckRefused
<1>4. PICK next \in Jobs :
        /\ job' = [job EXCEPT ![p] = next]
        /\ \/ next = NoJob /\ stateMu' = FALSE
           \/ /\ next.pc \in LockPcs /\ next.kind = job[p].kind /\ next.channel = job[p].channel
              /\ stateMu' = stateMu
        /\ next.todo = job[p].todo
        /\ JobFits(next) /\ FlagFits(next)'
        /\ next.pc = "forget" => next.kind = "check"
  <2>1. CASE NextAccount(p, job[p])
    <3>1. job[p].pc \in LockPcs
      BY <1>1 DEF LockPcs
    <3>2. PICK next \in Jobs :
            /\ job' = [job EXCEPT ![p] = next]
            /\ \/ next = NoJob /\ stateMu' = FALSE
               \/ /\ next.pc \in LockPcs /\ next.kind = job[p].kind /\ next.channel = job[p].channel
                  /\ stateMu' = stateMu
            /\ next.pc \in {"idle", "next"} /\ next.todo = job[p].todo
            /\ JobFits(next) /\ FlagFits(next)'
      BY <1>1, <2>1, <3>1, NextAccountMoves
    <3> QED  BY <3>2
  <2>2. CASE ~NextAccount(p, job[p])
    <3>1. PICK next \in Jobs : next = [job[p] EXCEPT !.pc = "forget"]
      BY <1>1 DEF Jobs, LockPcs
    <3>2. /\ next.pc = "forget" /\ next.kind = "check" /\ next.channel = job[p].channel
          /\ next.todo = job[p].todo /\ next.member = at
      BY <1>1, <1>2, <3>1 DEF Jobs
    <3>3. JobFits(next) /\ FlagFits(next)'
      BY <1>3, <3>2 DEF JobFits, FlagFits, LockPcs
    <3>4. job' = [job EXCEPT ![p] = next] /\ stateMu' = stateMu
      BY <2>2, <3>1 DEF CheckRefused, SetJob
    <3> QED  BY <1>1, <3>2, <3>3, <3>4 DEF LockPcs
  <2> QED  BY <2>1, <2>2
<1>5. /\ job[p].pc \in LockPcs /\ job[p].pc # "settle"
      /\ canPost' \in [Members -> SUBSET (Channels \cup {"none"})]
      /\ usable' \subseteq Members /\ touched' \subseteq Members
  BY <1>1, <1>3 DEF MemberIInv, MemberTypeOK, LockPcs
<1>6. /\ \A m \in Members \ {at} : /\ m \in job[p].todo => m \in next.todo
                                   /\ canPost'[m] = canPost[m]
                                   /\ m \in usable' => m \in usable
                                   /\ m \in touched => m \in touched'
      /\ at \notin usable' /\ (at \in touched => at \in touched')
  BY <1>3, <1>4
<1> QED  BY <1>3, <1>4, <1>5, <1>6, HolderMoves

\* joinChannel: the account is not in the channel, or did not answer.
LEMMA JoinRefusedHolds ==
  ASSUME MemberIInv, NEW p \in Requests \cup Pollers, JoinRefused(p)
  PROVE  MemberIInv'
<1>1. /\ job[p] \in Jobs /\ JobFits(job[p]) /\ FlagFits(job[p])
      /\ job[p].pc = "answer" /\ job[p].kind = "join"
  BY JobTyped DEF JoinRefused, Processes
<1>2. PICK at \in Members : at = job[p].member
  BY <1>1 DEF JobFits, LockPcs
<1>3. UNCHANGED <<canPost, defaultChan, usable, touched>>
  BY DEF JoinRefused
<1>4. PICK next \in Jobs :
        /\ job' = [job EXCEPT ![p] = next]
        /\ \/ next = NoJob /\ stateMu' = FALSE
           \/ /\ next.pc \in LockPcs /\ next.kind = job[p].kind /\ next.channel = job[p].channel
              /\ stateMu' = stateMu
        /\ next.todo = job[p].todo
        /\ JobFits(next) /\ FlagFits(next)'
        /\ next.pc = "forget" => next.kind = "check"
  <2>1. CASE NextAccount(p, job[p])
    <3>1. job[p].pc \in LockPcs
      BY <1>1 DEF LockPcs
    <3>2. PICK next \in Jobs :
            /\ job' = [job EXCEPT ![p] = next]
            /\ \/ next = NoJob /\ stateMu' = FALSE
               \/ /\ next.pc \in LockPcs /\ next.kind = job[p].kind /\ next.channel = job[p].channel
                  /\ stateMu' = stateMu
            /\ next.pc \in {"idle", "next"} /\ next.todo = job[p].todo
            /\ JobFits(next) /\ FlagFits(next)'
      BY <1>1, <2>1, <3>1, NextAccountMoves
    <3> QED  BY <3>2
  <2>2. CASE ~NextAccount(p, job[p])
    <3>1. PICK next \in Jobs : next = [job[p] EXCEPT !.rank = "reader"]
      BY <1>1 DEF Jobs, Answers
    <3>2. /\ next.pc = "answer" /\ next.kind = "join" /\ next.channel = job[p].channel
          /\ next.todo = job[p].todo /\ next.member = at
      BY <1>1, <1>2, <3>1 DEF Jobs
    <3>3. JobFits(next) /\ FlagFits(next)'
      BY <1>1, <1>2, <1>3, <3>2 DEF JobFits, FlagFits, LockPcs
    <3>4. job' = [job EXCEPT ![p] = next] /\ stateMu' = stateMu
      BY <2>2, <3>1 DEF JoinRefused, SetJob
    <3> QED  BY <1>1, <3>2, <3>3, <3>4 DEF LockPcs
  <2> QED  BY <2>1, <2>2
<1>5. /\ job[p].pc \in LockPcs /\ job[p].pc # "settle"
      /\ canPost' \in [Members -> SUBSET (Channels \cup {"none"})]
      /\ usable' \subseteq Members /\ touched' \subseteq Members
  BY <1>1, <1>3 DEF MemberIInv, MemberTypeOK, LockPcs
<1>6. \A m \in Members \ {at} : /\ m \in job[p].todo => m \in next.todo
                                /\ canPost'[m] = canPost[m]
                                /\ m \in usable' => m \in usable
                                /\ m \in touched => m \in touched'
  BY <1>3, <1>4
<1>7. at \in usable' \ touched' => InTransit(at)' \/ defaultChan \in canPost'[at]
  BY <1>1, <1>2, <1>3 DEF FlagFits
<1> QED  BY <1>3, <1>4, <1>5, <1>6, <1>7, HolderMoves

\* The primary promotes the account, or cannot.
LEMMA GrantHolds ==
  ASSUME MemberIInv, NEW p \in Requests \cup Pollers, Grant(p)
  PROVE  MemberIInv'
<1>1. /\ job[p] \in Jobs /\ JobFits(job[p]) /\ FlagFits(job[p])
      /\ job[p].pc = "grant" /\ job[p].kind = "join"
  BY JobTyped DEF Grant, Processes, JobFits
<1>2. PICK at \in Members : at = job[p].member
  BY <1>1 DEF JobFits, LockPcs
<1>3. /\ usable' = usable \ {at} /\ UNCHANGED <<canPost, defaultChan, touched>>
  BY <1>2 DEF Grant
<1>4. PICK next \in Jobs :
        /\ job' = [job EXCEPT ![p] = next]
        /\ \/ next = NoJob /\ stateMu' = FALSE
           \/ /\ next.pc \in LockPcs /\ next.kind = job[p].kind /\ next.channel = job[p].channel
              /\ stateMu' = stateMu
        /\ next.todo = job[p].todo
        /\ JobFits(next) /\ FlagFits(next)'
        /\ next.pc = "forget" => next.kind = "check"
  <2>1. CASE NextAccount(p, job[p])
    <3>1. job[p].pc \in LockPcs
      BY <1>1 DEF LockPcs
    <3>2. PICK next \in Jobs :
            /\ job' = [job EXCEPT ![p] = next]
            /\ \/ next = NoJob /\ stateMu' = FALSE
               \/ /\ next.pc \in LockPcs /\ next.kind = job[p].kind /\ next.channel = job[p].channel
                  /\ stateMu' = stateMu
            /\ next.pc \in {"idle", "next"} /\ next.todo = job[p].todo
            /\ JobFits(next) /\ FlagFits(next)'
      BY <1>1, <2>1, <3>1, NextAccountMoves
    <3> QED  BY <3>2
  <2>2. CASE ~NextAccount(p, job[p])
    <3>1. PICK next \in Jobs : next = [job[p] EXCEPT !.pc = "answer", !.rank = "poster"]
      BY <1>1 DEF Jobs, Answers, LockPcs
    <3>2. /\ next.pc = "answer" /\ next.kind = "join" /\ next.channel = job[p].channel
          /\ next.todo = job[p].todo /\ next.member = at
      BY <1>1, <1>2, <3>1 DEF Jobs
    <3>3. JobFits(next) /\ FlagFits(next)'
      BY <1>3, <3>2 DEF JobFits, FlagFits, LockPcs
    <3>4. job' = [job EXCEPT ![p] = next] /\ stateMu' = stateMu
      BY <2>2, <3>1 DEF Grant, SetJob
    <3> QED  BY <1>1, <3>2, <3>3, <3>4 DEF LockPcs
  <2> QED  BY <2>1, <2>2
<1>5. /\ job[p].pc \in LockPcs /\ job[p].pc # "settle"
      /\ canPost' \in [Members -> SUBSET (Channels \cup {"none"})]
      /\ usable' \subseteq Members /\ touched' \subseteq Members
  BY <1>1, <1>3 DEF MemberIInv, MemberTypeOK, LockPcs
<1>6. /\ \A m \in Members \ {at} : /\ m \in job[p].todo => m \in next.todo
                                   /\ canPost'[m] = canPost[m]
                                   /\ m \in usable' => m \in usable
                                   /\ m \in touched => m \in touched'
      /\ at \notin usable' /\ (at \in touched => at \in touched')
  BY <1>3, <1>4
<1> QED  BY <1>3, <1>4, <1>5, <1>6, HolderMoves

\* What UpsertChannelAccess and DeleteChannelAccess write.
LEMMA AccessWritten ==
  ASSUME MemberIInv, NEW m \in Members, NEW k \in Channels \cup {"none"}, NEW rank,
         WriteAccess(m, k, rank)
  PROVE  /\ canPost' \in [Members -> SUBSET (Channels \cup {"none"})]
         /\ \A n \in Members \ {m} : canPost'[n] = canPost[n]
         /\ rank = "poster" => k \in canPost'[m] /\ \A d \in canPost[m] : d \in canPost'[m]
BY DEF MemberIInv, MemberTypeOK, WriteAccess

\* DeleteChannelAccess of a check.
LEMMA ForgetRowHolds ==
  ASSUME MemberIInv, NEW p \in Requests \cup Pollers, ForgetRow(p)
  PROVE  MemberIInv'
<1>1. /\ job[p] \in Jobs /\ JobFits(job[p]) /\ FlagFits(job[p]) /\ job[p].pc = "forget"
      /\ p \notin Transfers
  BY JobTyped, ProcessesAssumption DEF ForgetRow, Processes
<1>2. PICK at \in Members : at = job[p].member
  BY <1>1 DEF JobFits, LockPcs
<1>3. /\ WriteAccess(at, job[p].channel, "out") \/ UNCHANGED canPost
      /\ NextAccount(p, job[p]) /\ UNCHANGED <<defaultChan, usable, touched>>
  BY <1>1, <1>2 DEF ForgetRow
<1>4. /\ canPost' \in [Members -> SUBSET (Channels \cup {"none"})]
      /\ \A n \in Members \ {at} : canPost'[n] = canPost[n]
  <2>1. job[p].channel \in Channels \cup {"none"}
    BY <1>1 DEF Jobs
  <2> QED  BY <1>3, <2>1, AccessWritten DEF MemberIInv, MemberTypeOK
<1>5. /\ job[p].pc \in LockPcs /\ job[p].pc # "settle"
      /\ usable' \subseteq Members /\ touched' \subseteq Members
  BY <1>1, <1>3 DEF MemberIInv, MemberTypeOK, LockPcs
<1>6. PICK next \in Jobs :
        /\ job' = [job EXCEPT ![p] = next]
        /\ \/ next = NoJob /\ stateMu' = FALSE
           \/ /\ next.pc \in LockPcs /\ next.kind = job[p].kind /\ next.channel = job[p].channel
              /\ stateMu' = stateMu
        /\ next.pc \in {"idle", "next"} /\ next.todo = job[p].todo
        /\ JobFits(next) /\ FlagFits(next)'
  BY <1>1, <1>3, <1>5, NextAccountMoves
<1>7. \A m \in Members \ {at} : /\ m \in job[p].todo => m \in next.todo
                                /\ canPost'[m] = canPost[m]
                                /\ m \in usable' => m \in usable
                                /\ m \in touched => m \in touched'
  BY <1>3, <1>4, <1>6
<1>8. at \notin usable' \ touched' /\ (at \in touched => at \in touched')
  BY <1>1, <1>2, <1>3 DEF FlagFits
<1> QED  BY <1>3, <1>4, <1>5, <1>6, <1>7, <1>8, HolderMoves

\* UpsertChannelAccess of a check and of a join.
LEMMA RecordHolds ==
  ASSUME MemberIInv, NEW p \in Requests \cup Pollers, Record(p)
  PROVE  MemberIInv'
<1>1. /\ job[p] \in Jobs /\ JobFits(job[p]) /\ FlagFits(job[p]) /\ job[p].pc = "answer"
      /\ job[p].rank \in {"reader", "poster"}
  BY JobTyped DEF Record, Processes
<1>2. PICK at \in Members : at = job[p].member
  BY <1>1 DEF JobFits, LockPcs
<1>3. PICK chan \in Channels \cup {"none"} : chan = job[p].channel
  BY <1>1 DEF Jobs
<1>4. job[p].pc \in LockPcs /\ job[p].pc # "settle"
  BY <1>1 DEF LockPcs
<1>5. PICK step \in {"grant", "settle"} :
        step = IF job[p].kind = "join" /\ job[p].rank = "reader" THEN "grant" ELSE "settle"
  OBVIOUS
<1>6. PICK on \in Jobs : on = [job[p] EXCEPT !.pc = step]
  BY <1>1 DEF Jobs, LockPcs
<1>7. /\ on.pc = step /\ on.kind = job[p].kind /\ on.channel = chan /\ on.rank = job[p].rank
      /\ on.todo = job[p].todo /\ on.member = at
  BY <1>1, <1>2, <1>3, <1>6 DEF Jobs
<1>8. JobFits(on) /\ on.pc \in LockPcs
  BY <1>1, <1>5, <1>7 DEF JobFits, LockPcs
<1>9. UNCHANGED <<defaultChan, touched>>
  BY DEF Record
<1>10. CASE /\ WriteAccess(at, chan, job[p].rank) /\ job' = [job EXCEPT ![p] = on]
            /\ UNCHANGED <<usable, stateMu>>
  <2>1. /\ canPost' \in [Members -> SUBSET (Channels \cup {"none"})]
        /\ \A n \in Members \ {at} : canPost'[n] = canPost[n]
        /\ job[p].rank = "poster" => chan \in canPost'[at]
    BY <1>10, AccessWritten
  <2>2. FlagFits(on)'
    BY <1>1, <1>2, <1>5, <1>7, <1>9, <1>10, <2>1 DEF FlagFits
  <2>3. at \in usable' \ touched' => InTransit(at)' \/ defaultChan \in canPost'[at]
    <3>1. CASE step = "grant"
      BY <1>1, <1>2, <1>5, <1>9, <1>10, <3>1 DEF FlagFits
    <3>2. CASE step = "settle"
      <4>1. job'[p] = on
        BY <1>10 DEF MemberIInv, MemberTypeOK, Processes
      <4> QED  BY <1>7, <3>2, <4>1 DEF InTransit
    <3> QED  BY <3>1, <3>2
  <2>4. /\ usable' \subseteq Members /\ touched' \subseteq Members
        /\ \A m \in Members \ {at} : /\ m \in job[p].todo => m \in on.todo
                                     /\ canPost'[m] = canPost[m]
                                     /\ m \in usable' => m \in usable
                                     /\ m \in touched => m \in touched'
        /\ at \in touched => at \in touched'
    BY <1>7, <1>9, <1>10, <2>1 DEF MemberIInv, MemberTypeOK
  <2>5. /\ job' = [job EXCEPT ![p] = on] /\ on.kind = job[p].kind /\ on.channel = job[p].channel
        /\ stateMu' = stateMu /\ on.pc # "forget"
    BY <1>3, <1>5, <1>7, <1>10
  <2> QED  BY <1>4, <1>8, <1>9, <2>1, <2>2, <2>3, <2>4, <2>5, HolderMoves
<1>11. CASE /\ usable' = usable \ {at} /\ UNCHANGED canPost
            /\ \/ job' = [job EXCEPT ![p] = on] /\ step = "grant" /\ UNCHANGED stateMu
               \/ NextAccount(p, job[p])
  <2>1. PICK next \in Jobs :
          /\ job' = [job EXCEPT ![p] = next]
          /\ \/ next = NoJob /\ stateMu' = FALSE
             \/ /\ next.pc \in LockPcs /\ next.kind = job[p].kind /\ next.channel = job[p].channel
                /\ stateMu' = stateMu
          /\ next.pc # "forget" /\ next.todo = job[p].todo
          /\ JobFits(next) /\ FlagFits(next)'
    <3>1. CASE NextAccount(p, job[p])
      <4>1. PICK next \in Jobs :
              /\ job' = [job EXCEPT ![p] = next]
              /\ \/ next = NoJob /\ stateMu' = FALSE
                 \/ /\ next.pc \in LockPcs /\ next.kind = job[p].kind /\ next.channel = job[p].channel
                    /\ stateMu' = stateMu
              /\ next.pc \in {"idle", "next"} /\ next.todo = job[p].todo
              /\ JobFits(next) /\ FlagFits(next)'
        BY <1>1, <1>4, <3>1, NextAccountMoves
      <4> QED  BY <4>1
    <3>2. CASE job' = [job EXCEPT ![p] = on] /\ step = "grant" /\ UNCHANGED stateMu
      <4>1. FlagFits(on)'
        BY <1>7, <1>11, <3>2 DEF FlagFits
      <4> QED  BY <1>3, <1>7, <1>8, <3>2, <4>1
    <3> QED  BY <1>11, <3>1, <3>2
  <2>2. /\ canPost' \in [Members -> SUBSET (Channels \cup {"none"})]
        /\ usable' \subseteq Members /\ touched' \subseteq Members
        /\ \A m \in Members \ {at} : /\ m \in job[p].todo => m \in next.todo
                                     /\ canPost'[m] = canPost[m]
                                     /\ m \in usable' => m \in usable
                                     /\ m \in touched => m \in touched'
        /\ at \notin usable' /\ (at \in touched => at \in touched')
    BY <1>9, <1>11, <2>1 DEF MemberIInv, MemberTypeOK
  <2> QED  BY <1>4, <1>9, <2>1, <2>2, HolderMoves
<1> QED
  <2>3. /\ job[p].kind = "join" /\ job[p].rank = "reader" => step = "grant"
        /\ on = [job[p] EXCEPT !.pc = IF job[p].kind = "join" /\ job[p].rank = "reader"
                                      THEN "grant" ELSE "settle"]
    BY <1>5, <1>6
  <2> QED  BY <1>2, <1>3, <1>10, <1>11, <2>3 DEF Record, SetJob

\* setChannelReady of a check and of a join: what was recorded is the default
\* channel, or the request that chose another one is about to reset the account.
LEMMA SettleHolds ==
  ASSUME MemberIInv, OneRequest, NEW p \in Requests \cup Pollers, Settle(p)
  PROVE  MemberIInv'
<1>1. /\ job[p] \in Jobs /\ JobFits(job[p]) /\ FlagFits(job[p]) /\ job[p].pc = "settle"
      /\ job[p].rank \in {"reader", "poster"} /\ p \notin Transfers
  BY JobTyped, ProcessesAssumption DEF Settle, Processes, JobFits
<1>2. PICK at \in Members : at = job[p].member
  BY <1>1 DEF JobFits, LockPcs
<1>3. job[p].pc \in LockPcs
  BY <1>1 DEF LockPcs
<1>4. /\ usable' = IF job[p].rank = "poster" THEN usable \cup {at} ELSE usable \ {at}
      /\ NextAccount(p, job[p])
      /\ UNCHANGED <<canPost, defaultChan, touched>>
  BY <1>1, <1>2 DEF Settle, SetReady
<1>5. PICK next \in Jobs :
        /\ job' = [job EXCEPT ![p] = next]
        /\ \/ next = NoJob /\ stateMu' = FALSE
           \/ /\ next.pc \in LockPcs /\ next.kind = job[p].kind /\ next.channel = job[p].channel
              /\ stateMu' = stateMu
        /\ next.pc \in {"idle", "next"} /\ next.todo = job[p].todo
        /\ JobFits(next) /\ FlagFits(next)'
  BY <1>1, <1>3, <1>4, NextAccountMoves
<1>6. at \in usable' \ touched' => InTransit(at)' \/ defaultChan \in canPost'[at]
  <2> SUFFICES ASSUME at \in usable', at \notin touched PROVE InTransit(at)' \/ defaultChan \in canPost[at]
    BY <1>4
  <2>1. job[p].channel \in canPost[at]
    BY <1>1, <1>2, <1>4 DEF FlagFits
  <2>2. job[p].channel = defaultChan \/ (p \in Pollers /\ Chosen)
    BY <1>3 DEF MemberIInv, ChannelsFit
  <2>3. ASSUME p \in Pollers, Chosen PROVE InTransit(at)'
    <3>1. PICK r \in Requests : job[r].pc = "lock" /\ job[r].todo = Members
      BY <2>3 DEF Chosen
    <3>2. job[r].kind = "join"
      BY <3>1, JobTyped DEF Processes, JobFits
    <3>3. job'[r] = job[r]
      BY <1>5, <2>3, ProcessesAssumption DEF MemberIInv, MemberTypeOK, Processes
    <3> QED  BY <3>1, <3>2, <3>3 DEF InTransit
  <2> QED  BY <2>1, <2>2, <2>3
<1>7. /\ canPost' \in [Members -> SUBSET (Channels \cup {"none"})]
      /\ usable' \subseteq Members /\ touched' \subseteq Members
      /\ \A m \in Members \ {at} : /\ m \in job[p].todo => m \in next.todo
                                   /\ canPost'[m] = canPost[m]
                                   /\ m \in usable' => m \in usable
                                   /\ m \in touched => m \in touched'
      /\ (at \in touched => at \in touched')
  BY <1>4, <1>5 DEF MemberIInv, MemberTypeOK
<1> QED  BY <1>2, <1>3, <1>4, <1>5, <1>6, <1>7, HolderMoves

\* A check or a join turns to one of its accounts.
LEMMA AskAccountHolds ==
  ASSUME MemberIInv, NEW p \in Requests \cup Pollers, NEW at \in Members, AskAccount(p, at)
  PROVE  MemberIInv'
<1>1. /\ job[p] \in Jobs /\ JobFits(job[p]) /\ job[p].pc = "next"
  BY JobTyped DEF AskAccount, Processes
<1>2. PICK o \in Jobs : o = [job[p] EXCEPT !.todo = @ \ {at}, !.member = at]
  BY <1>1 DEF Jobs
<1>3. /\ o.pc = "next" /\ o.kind = job[p].kind /\ o.channel = job[p].channel
      /\ o.todo = job[p].todo \ {at} /\ o.member = at
  BY <1>1, <1>2 DEF Jobs
<1>4. /\ UNCHANGED <<canPost, defaultChan>>
      /\ IF o.kind = "join" THEN ResetChecks({at})
         ELSE usable' \in {usable, usable \ {at}} /\ UNCHANGED touched
      /\ \/ /\ \E answer \in Answers : job' = [job EXCEPT ![p] = [o EXCEPT !.pc = "answer", !.rank = answer]]
            /\ UNCHANGED stateMu
         \/ o.kind = "check" /\ NextAccount(p, o)
  BY <1>2 DEF AskAccount, SetJob
<1>5. /\ usable' \subseteq usable /\ touched' \subseteq touched
      /\ \A m \in Members \ {at} : m \in touched => m \in touched'
      /\ at \in touched /\ at \notin touched' => \A t \in Transfers : job[t].member # at
      /\ o.kind = "join" => at \notin usable'
      /\ o.kind # "join" => touched' = touched
  BY <1>4 DEF ResetChecks
<1>6. "next" \in LockPcs /\ "answer" \in LockPcs
  BY DEF LockPcs
<1>7. PICK next \in Jobs :
        /\ job' = [job EXCEPT ![p] = next]
        /\ \/ next = NoJob /\ stateMu' = FALSE
           \/ /\ next.pc \in LockPcs /\ next.kind = o.kind /\ next.channel = o.channel
              /\ stateMu' = stateMu
        /\ next.pc # "forget" /\ next.todo = o.todo
        /\ JobFits(next) /\ FlagFits(next)'
  <2>1. CASE NextAccount(p, o)
    <3>1. PICK next \in Jobs :
            /\ job' = [job EXCEPT ![p] = next]
            /\ \/ next = NoJob /\ stateMu' = FALSE
               \/ /\ next.pc \in LockPcs /\ next.kind = o.kind /\ next.channel = o.channel
                  /\ stateMu' = stateMu
            /\ next.pc \in {"idle", "next"} /\ next.todo = o.todo
            /\ JobFits(next) /\ FlagFits(next)'
      <4>1. o.pc \in LockPcs
        BY <1>3, <1>6
      <4> QED  BY <2>1, <4>1, NextAccountMoves
    <3> QED  BY <3>1
  <2>2. ASSUME NEW answer \in Answers, UNCHANGED stateMu,
               job' = [job EXCEPT ![p] = [o EXCEPT !.pc = "answer", !.rank = answer]]
        PROVE  \E next \in Jobs :
                 /\ job' = [job EXCEPT ![p] = next]
                 /\ \/ next = NoJob /\ stateMu' = FALSE
                    \/ /\ next.pc \in LockPcs /\ next.kind = o.kind /\ next.channel = o.channel
                       /\ stateMu' = stateMu
                 /\ next.pc # "forget" /\ next.todo = o.todo
                 /\ JobFits(next) /\ FlagFits(next)'
    <3>1. PICK next \in Jobs : next = [o EXCEPT !.pc = "answer", !.rank = answer]
      BY DEF Jobs, LockPcs, Answers
    <3>2. /\ next.pc = "answer" /\ next.kind = o.kind /\ next.channel = o.channel
          /\ next.todo = o.todo /\ next.member = at
      BY <1>3, <3>1 DEF Jobs
    <3>3. JobFits(next) /\ FlagFits(next)'
      BY <1>5, <3>2 DEF JobFits, FlagFits, LockPcs
    <3> QED  BY <1>6, <2>2, <3>1, <3>2, <3>3
  <2> QED  BY <1>4, <2>1, <2>2
<1>8. at \in usable' \ touched' => InTransit(at)' \/ defaultChan \in canPost'[at]
  <2> SUFFICES ASSUME at \in usable', at \notin touched', o.kind # "join"
               PROVE  InTransit(at)' \/ defaultChan \in canPost[at]
    BY <1>4, <1>5
  <2>1. InTransit(at) \/ defaultChan \in canPost[at]
    BY <1>5 DEF MemberIInv, UsableOnDefault
  <2>2. ASSUME InTransit(at) PROVE InTransit(at)'
    <3>1. PICK q \in Requests \cup Pollers : \/ job[q].kind = "join" /\ at \in job[q].todo
                                             \/ job[q].pc = "settle" /\ at = job[q].member
      BY <2>2 DEF InTransit
    <3>2. q # p
      BY <1>1, <1>3, <3>1
    <3>3. job'[q] = job[q]
      BY <1>7, <3>2 DEF MemberIInv, MemberTypeOK, Processes
    <3> QED  BY <3>1, <3>3 DEF InTransit
  <2> QED  BY <2>1, <2>2
<1>9. /\ canPost' \in [Members -> SUBSET (Channels \cup {"none"})]
      /\ usable' \subseteq Members /\ touched' \subseteq Members
      /\ \A m \in Members \ {at} : /\ m \in job[p].todo => m \in next.todo
                                   /\ canPost'[m] = canPost[m]
                                   /\ m \in usable' => m \in usable
                                   /\ m \in touched => m \in touched'
  BY <1>3, <1>4, <1>5, <1>7 DEF MemberIInv, MemberTypeOK
<1>10. /\ \/ next = NoJob /\ stateMu' = FALSE
          \/ /\ next.pc \in LockPcs /\ next.kind = job[p].kind /\ next.channel = job[p].channel
             /\ stateMu' = stateMu
       /\ job[p].pc \in LockPcs /\ job[p].pc # "settle"
  BY <1>1, <1>3, <1>6, <1>7
<1> QED  BY <1>4, <1>5, <1>7, <1>8, <1>9, <1>10, HolderMoves

\* A request, a check or a join that does not hold the lock moves on, and
\* nothing is recorded.
LEMMA OutsiderMoves ==
  ASSUME MemberIInv, NEW p \in Requests \cup Pollers, job[p].pc \notin LockPcs,
         NEW next \in Jobs, job' = [job EXCEPT ![p] = next], JobFits(next),
         job[p].kind = "join" => next.kind = "join" /\ next.todo = job[p].todo,
         next.pc \in LockPcs => next.pc = "next" /\ ~stateMu /\ stateMu',
         next.pc \notin LockPcs => stateMu' = stateMu,
         p \in Requests => (next.pc \in LockPcs \cup {"lock"} => next.channel = defaultChan),
         p \in Pollers => (next.pc \in LockPcs => next.channel = defaultChan),
         p \in Requests => (Chosen => Chosen') \/ ~stateMu,
         UNCHANGED <<canPost, defaultChan>>,
         usable' \subseteq usable, touched' \subseteq touched,
         next.pc \notin LockPcs => touched' = touched,
         \A m \in touched \ touched' : m \notin usable' /\ \A t \in Transfers : job[t].member # m
  PROVE  MemberIInv'
<1>1. p \in Processes /\ p \notin Transfers
  BY ProcessesAssumption DEF Processes
<1>2. /\ job' \in [Processes -> Jobs] /\ job'[p] = next
      /\ \A q \in Processes : q # p => job'[q] = job[q]
  BY <1>1 DEF MemberIInv, MemberTypeOK
<1>3. MemberTypeOK'
  BY <1>2 DEF MemberIInv, MemberTypeOK, LockPcs
<1>4. "forget" \in LockPcs
  BY DEF LockPcs
<1>5. JobsFit'
  BY <1>1, <1>2, <1>4 DEF MemberIInv, JobsFit, JobFits, Processes
<1>6. next.pc \in LockPcs => \A q \in Requests \cup Pollers : job[q].pc \notin LockPcs
  BY DEF MemberIInv, LockFits
<1>7. LockFits'
  BY <1>2, <1>6 DEF MemberIInv, LockFits, Processes
<1>8. ChannelsFit'
  <2>1. ASSUME NEW r \in Requests, job'[r].pc \in LockPcs \cup {"lock"}
        PROVE  job'[r].channel = defaultChan
    BY <1>2, <2>1 DEF MemberIInv, ChannelsFit, Processes
  <2>2. ASSUME NEW q \in Pollers, job'[q].pc \in LockPcs
        PROVE  job'[q].channel = defaultChan \/ Chosen'
    <3>1. CASE q = p
      BY <1>2, <2>2, <3>1
    <3>2. CASE q # p
      <4>1. job'[q] = job[q] /\ stateMu
        BY <1>2, <2>2, <3>2 DEF MemberIInv, LockFits, Processes
      <4>2. job[q].channel = defaultChan \/ Chosen
        BY <2>2, <4>1 DEF MemberIInv, ChannelsFit
      <4>3. p \in Pollers => (Chosen => Chosen')
        BY <1>2, ProcessesAssumption DEF Chosen, Processes
      <4> QED  BY <4>1, <4>2, <4>3
    <3> QED  BY <3>1, <3>2
  <2> QED  BY <2>1, <2>2 DEF ChannelsFit
<1>9. FlagsFit'
  <2>1. ASSUME NEW q \in Requests \cup Pollers, NEW o, o = job'[q] PROVE FlagFits(o)'
    <3>1. CASE q = p
      BY <1>2, <2>1, <3>1 DEF FlagFits, LockPcs
    <3>2. CASE q # p /\ job[q].pc \notin LockPcs
      <4>1. o.pc \notin LockPcs
        BY <1>2, <2>1, <3>2 DEF Processes
      <4> QED  BY <4>1 DEF FlagFits, LockPcs
    <3>3. CASE q # p /\ job[q].pc \in LockPcs
      <4>1. next.pc \notin LockPcs /\ o = job[q]
        BY <1>2, <1>6, <2>1, <3>3 DEF Processes
      <4>2. FlagFits(o)
        BY <4>1 DEF MemberIInv, FlagsFit
      <4> QED  BY <4>1, <4>2 DEF FlagFits
    <3> QED  BY <3>1, <3>2, <3>3
  <2>2. ASSUME NEW t \in Transfers, job'[t].pc # "idle" PROVE job'[t].member \in touched'
    BY <1>1, <1>2, <2>2 DEF MemberIInv, FlagsFit, Processes
  <2>3. \A q \in Requests \cup Pollers : \A o : o = job'[q] => FlagFits(o)'
    BY <2>1
  <2> QED  BY <2>2, <2>3 DEF FlagsFit, FlagFits
<1>10. UsableOnDefault'
  <2>1. ASSUME NEW m \in Members, InTransit(m) PROVE InTransit(m)'
    <3>1. PICK q \in Requests \cup Pollers : \/ job[q].kind = "join" /\ m \in job[q].todo
                                             \/ job[q].pc = "settle" /\ m = job[q].member
      BY <2>1 DEF InTransit
    <3>2. CASE q # p
      BY <1>2, <3>1, <3>2 DEF InTransit, Processes
    <3>3. CASE q = p
      BY <1>2, <3>1, <3>3 DEF InTransit, LockPcs
    <3> QED  BY <3>2, <3>3
  <2> QED  BY <2>1 DEF MemberIInv, MemberTypeOK, UsableOnDefault
<1> QED  BY <1>3, <1>5, <1>7, <1>8, <1>9, <1>10 DEF MemberIInv

\* RefreshReadyChannels and CheckChannel begin with the default channel.
LEMMA CheckBeginsHolds ==
  ASSUME MemberIInv, NEW p \in Requests \cup Pollers, NEW S \in SUBSET Members, NEW forced \in BOOLEAN,
         CheckBegins(p, S, forced)
  PROVE  MemberIInv'
<1>1. /\ job[p] = NoJob /\ ~stateMu /\ UNCHANGED <<canPost, defaultChan>>
      /\ NoJob.pc = "idle" /\ NoJob.kind = "none" /\ NoJob \in Jobs /\ JobFits(NoJob)
  BY DEF CheckBegins, NoJob, Jobs, LockPcs, JobFits
<1>2. job[p].pc \notin LockPcs /\ job[p].kind # "join" /\ p \in Processes
  BY <1>1 DEF LockPcs, Processes
<1>3. CASE defaultChan = "none"
  <2>1. UNCHANGED <<stateMu, job, touched>> /\ usable' \subseteq usable
    BY <1>3 DEF CheckBegins
  <2>2. job' = [job EXCEPT ![p] = NoJob]
    BY <1>1, <1>2, <2>1 DEF MemberIInv, MemberTypeOK
  <2>3. NoJob.pc \notin LockPcs \cup {"lock"} /\ (Chosen => Chosen')
    BY <1>1, <2>1 DEF LockPcs, Chosen
  <2> QED  BY <1>1, <1>2, <2>1, <2>2, <2>3, OutsiderMoves
<1>4. CASE defaultChan # "none"
  <2>1. PICK chan \in Channels \cup {"none"} : chan = defaultChan
    BY DEF MemberIInv, MemberTypeOK
  <2>2. PICK next \in Jobs :
          next = [NoJob EXCEPT !.pc = "next", !.kind = "check", !.todo = S, !.channel = chan]
    BY DEF NoJob, Jobs, LockPcs
  <2>3. next.pc = "next" /\ next.kind = "check" /\ next.channel = chan
    BY <2>2 DEF NoJob
  <2>4. /\ stateMu' = TRUE /\ job' = [job EXCEPT ![p] = next]
        /\ IF forced THEN ResetChecks(S) ELSE UNCHANGED <<usable, touched>>
    BY <1>4, <2>1, <2>2 DEF CheckBegins, SetJob
  <2>5. /\ usable' \subseteq usable /\ touched' \subseteq touched
        /\ \A m \in touched \ touched' : m \notin usable' /\ \A t \in Transfers : job[t].member # m
    BY <2>4 DEF ResetChecks
  <2>6. JobFits(next) /\ next.pc \in LockPcs
    BY <2>3 DEF JobFits, LockPcs
  <2> QED  BY <1>1, <1>2, <2>1, <2>3, <2>4, <2>5, <2>6, OutsiderMoves
<1> QED  BY <1>3, <1>4

\* JoinChannel and LinkChannel, and the choice of a channel, begin; the lock is
\* taken.
LEMMA RequestStepsHold ==
  ASSUME MemberIInv, OneRequest, NEW p \in Requests,
         \/ \E m \in Members : JoinBegins(p, m)
         \/ JoinLocks(p)
         \/ \E k \in Channels : SelectChannel(p, k)
  PROVE  MemberIInv'
<1>1. /\ job[p] \in Jobs /\ JobFits(job[p])
      /\ NoJob.pc = "idle" /\ NoJob.kind = "none" /\ NoJob \in Jobs
      /\ p \in Processes /\ p \notin Pollers
      /\ UNCHANGED <<canPost, defaultChan, usable, touched>>
  BY JobTyped, ProcessesAssumption
     DEF NoJob, Jobs, LockPcs, Processes, JoinBegins, JoinLocks, SelectChannel
<1>2. Chosen => job[p].pc = "lock" /\ job[p].todo = Members
  BY DEF Chosen, OneRequest
<1>3. ASSUME NEW m \in Members, JoinBegins(p, m) PROVE MemberIInv'
  <2>1. PICK chan \in Channels \cup {"none"} : chan = defaultChan
    BY DEF MemberIInv, MemberTypeOK
  <2>2. PICK next \in Jobs :
          next = [NoJob EXCEPT !.pc = "lock", !.kind = "join", !.todo = {m}, !.channel = chan]
    BY DEF NoJob, Jobs
  <2>3. next.pc = "lock" /\ next.kind = "join" /\ next.channel = chan
    BY <2>2 DEF NoJob
  <2>4. job[p] = NoJob /\ stateMu' = stateMu /\ job' = [job EXCEPT ![p] = next]
    BY <1>3, <2>1, <2>2 DEF JoinBegins, SetJob
  <2>5. JobFits(next) /\ next.pc \notin LockPcs /\ job[p].pc \notin LockPcs /\ ~Chosen
    BY <1>1, <1>2, <2>3, <2>4 DEF JobFits, LockPcs
  <2> QED  BY <1>1, <2>1, <2>3, <2>4, <2>5, OutsiderMoves
<1>4. CASE JoinLocks(p)
  <2>1. PICK next \in Jobs : next = [job[p] EXCEPT !.pc = "next"]
    BY <1>1 DEF Jobs, LockPcs
  <2>2. /\ next.pc = "next" /\ next.kind = job[p].kind /\ next.channel = job[p].channel
        /\ next.todo = job[p].todo
    BY <1>1, <2>1 DEF Jobs
  <2>3. /\ job[p].pc = "lock" /\ ~stateMu /\ stateMu' = TRUE /\ job' = [job EXCEPT ![p] = next]
    BY <1>4, <2>1 DEF JoinLocks, SetJob
  <2>4. next.channel = defaultChan
    BY <2>2, <2>3 DEF MemberIInv, ChannelsFit
  <2>5. JobFits(next) /\ next.pc \in LockPcs /\ job[p].pc \notin LockPcs
    BY <2>2, <2>3 DEF JobFits, LockPcs
  <2> QED  BY <1>1, <2>2, <2>3, <2>4, <2>5, OutsiderMoves
<1>5. ASSUME NEW k \in Channels, SelectChannel(p, k) PROVE MemberIInv'
  <2>1. PICK next \in Jobs : next = [NoJob EXCEPT !.pc = "choose", !.channel = k]
    BY DEF NoJob, Jobs
  <2>2. next.pc = "choose" /\ next.kind = "none"
    BY <2>1 DEF NoJob
  <2>3. job[p] = NoJob /\ stateMu' = stateMu /\ job' = [job EXCEPT ![p] = next]
    BY <1>5, <2>1 DEF SelectChannel, SetJob
  <2>4. /\ JobFits(next) /\ next.pc \notin LockPcs \cup {"lock"} /\ job[p].pc \notin LockPcs
        /\ ~Chosen
    BY <1>1, <1>2, <2>2, <2>3 DEF JobFits, LockPcs
  <2> QED  BY <1>1, <2>2, <2>3, <2>4, OutsiderMoves
<1> QED  BY <1>3, <1>4, <1>5

\* SetDefaultChannel: from here every account waits for its admission.
LEMMA SetDefaultChannelHolds ==
  ASSUME MemberIInv, OneRequest, NEW p \in Requests, SetDefaultChannel(p)
  PROVE  MemberIInv'
<1>1. /\ job[p] \in Jobs /\ job[p].pc = "choose" /\ job[p].kind = "none"
      /\ p \in Processes /\ p \notin Pollers /\ p \notin Transfers
      /\ UNCHANGED <<canPost, usable, stateMu, touched>>
  BY JobTyped, ProcessesAssumption DEF SetDefaultChannel, Processes, JobFits
<1>2. CASE defaultChan' = defaultChan /\ job' = [job EXCEPT ![p] = NoJob]
  <2>1. /\ NoJob \in Jobs /\ NoJob.pc = "idle" /\ JobFits(NoJob)
        /\ NoJob.pc \notin LockPcs \cup {"lock"} /\ job[p].pc \notin LockPcs
    BY <1>1 DEF NoJob, Jobs, LockPcs, JobFits
  <2>2. ~Chosen
    BY <1>1 DEF Chosen, OneRequest
  <2> QED  BY <1>1, <1>2, <2>1, <2>2, OutsiderMoves
<1>3. CASE ~(defaultChan' = defaultChan /\ job' = [job EXCEPT ![p] = NoJob])
  <2>1. PICK next \in Jobs : next = [job[p] EXCEPT !.pc = "lock", !.kind = "join", !.todo = Members]
    BY <1>1 DEF Jobs
  <2>2. /\ next.pc = "lock" /\ next.kind = "join" /\ next.todo = Members
        /\ next.channel = job[p].channel
    BY <1>1, <2>1 DEF Jobs
  <2>3. defaultChan' = next.channel /\ job' = [job EXCEPT ![p] = next]
    BY <1>3, <2>1, <2>2 DEF SetDefaultChannel, SetJob
  <2>4. /\ job' \in [Processes -> Jobs] /\ job'[p] = next
        /\ \A q \in Processes : q # p => job'[q] = job[q]
    BY <1>1, <2>3 DEF MemberIInv, MemberTypeOK
  <2>5. MemberTypeOK'
    BY <1>1, <2>3, <2>4 DEF MemberIInv, MemberTypeOK, Jobs
  <2>6. "lock" \notin LockPcs
    BY DEF LockPcs
  <2>7. JobsFit'
    BY <1>1, <2>2, <2>4, <2>6 DEF MemberIInv, JobsFit, JobFits, Processes
  <2>8. LockFits'
    BY <1>1, <2>2, <2>4, <2>6 DEF MemberIInv, LockFits, Processes
  <2>9. Chosen'
    BY <2>2, <2>4 DEF Chosen
  <2>10. ChannelsFit'
    BY <2>3, <2>4, <2>9 DEF ChannelsFit, OneRequest
  <2>11. FlagsFit'
    <3>1. ASSUME NEW q \in Requests \cup Pollers, NEW o, o = job'[q] PROVE FlagFits(o)'
      <4>1. CASE q = p
        BY <2>2, <2>4, <3>1, <4>1 DEF FlagFits
      <4>2. CASE q # p
        <5>1. FlagFits(o)
          BY <2>4, <3>1, <4>2 DEF MemberIInv, FlagsFit, Processes
        <5> QED  BY <1>1, <5>1 DEF FlagFits
      <4> QED  BY <4>1, <4>2
    <3>2. ASSUME NEW t \in Transfers, job'[t].pc # "idle" PROVE job'[t].member \in touched'
      BY <1>1, <2>4, <3>2 DEF MemberIInv, FlagsFit, Processes
    <3>3. \A q \in Requests \cup Pollers : \A o : o = job'[q] => FlagFits(o)'
      BY <3>1
    <3> QED  BY <3>2, <3>3 DEF FlagsFit, FlagFits
  <2>12. UsableOnDefault'
    BY <1>1, <2>2, <2>4 DEF MemberIInv, MemberTypeOK, UsableOnDefault, InTransit
  <2> QED  BY <2>5, <2>7, <2>8, <2>10, <2>11, <2>12 DEF MemberIInv
<1> QED  BY <1>2, <1>3

\* start and Stop of an account reset its flag.
LEMMA SignsInOrOutHolds ==
  ASSUME MemberIInv, NEW m \in Members, SignsInOrOut(m)
  PROVE  MemberIInv'
<1>1. usable' \subseteq usable /\ UNCHANGED <<canPost, defaultChan, stateMu, job, touched>>
  BY DEF SignsInOrOut
<1>2. FlagsFit'
  <2>1. ASSUME NEW q \in Requests \cup Pollers, NEW o, o = job[q] PROVE FlagFits(o)'
    <3>1. FlagFits(o)
      BY <2>1 DEF MemberIInv, FlagsFit
    <3> QED  BY <1>1, <3>1 DEF FlagFits
  <2>2. \A q \in Requests \cup Pollers : \A o : o = job[q] => FlagFits(o)'
    BY <2>1
  <2> QED  BY <1>1, <2>2 DEF MemberIInv, FlagsFit, FlagFits
<1>3. MemberTypeOK' /\ UsableOnDefault'
  BY <1>1 DEF MemberIInv, MemberTypeOK, UsableOnDefault, InTransit
<1> QED  BY <1>1, <1>2, <1>3 DEF MemberIInv, JobsFit, LockFits, ChannelsFit, Chosen

\* ChannelRef of a transfer: the account counts as touched from here on.
LEMMA ChannelRefHolds ==
  ASSUME MemberIInv, NEW t \in Transfers, NEW m \in Members, NEW k \in Channels, ChannelRef(t, m, k)
  PROVE  MemberIInv'
<1>1. PICK o \in Jobs : o = [NoJob EXCEPT !.kind = "ref", !.member = m, !.channel = k]
  BY DEF NoJob, Jobs
<1>2. o.kind = "ref" /\ o.member = m
  BY <1>1 DEF NoJob
<1>3. /\ touched' = touched \cup {m} /\ UNCHANGED <<canPost, defaultChan, usable, stateMu>>
      /\ \E step \in {"settle", "answer"}, rank \in Answers :
           /\ step = "settle" => rank \in {"reader", "poster"}
           /\ job' = [job EXCEPT ![t] = [o EXCEPT !.pc = step, !.rank = rank]]
  <2>1. PICK rank \in {"reader", "poster"} : rank = IF k \in canPost[m] THEN "poster" ELSE "reader"
    OBVIOUS
  <2> QED  BY <1>1, <2>1 DEF ChannelRef, SetJob, Answers
<1>4. PICK step \in {"settle", "answer"}, rank \in Answers :
        /\ step = "settle" => rank \in {"reader", "poster"}
        /\ job' = [job EXCEPT ![t] = [o EXCEPT !.pc = step, !.rank = rank]]
  BY <1>3
<1>5. PICK next \in Jobs : next = [o EXCEPT !.pc = step, !.rank = rank]
  BY DEF Jobs, LockPcs
<1>6. next.pc = step /\ next.rank = rank /\ next.kind = "ref" /\ next.member = m
  BY <1>2, <1>5 DEF Jobs
<1>7. JobFits(next) /\ next.pc \in {"idle", "answer", "settle", "forget"}
  BY <1>4, <1>6 DEF JobFits
<1>8. /\ canPost' \in [Members -> SUBSET (Channels \cup {"none"})]
      /\ usable' \subseteq Members /\ touched' \subseteq Members /\ touched \subseteq touched'
      /\ m \in touched'
      /\ \A n \in Members \ {m} : canPost'[n] = canPost[n] /\ (n \in usable' <=> n \in usable)
  BY <1>3 DEF MemberIInv, MemberTypeOK
<1> QED  BY <1>3, <1>4, <1>5, <1>6, <1>7, <1>8, TransferMoves

\* The rest of ChannelRef.
LEMMA RefStepsHold ==
  ASSUME MemberIInv, NEW t \in Transfers, RefAnswered(t) \/ ForgetRow(t) \/ Settle(t)
  PROVE  MemberIInv'
<1>1. /\ job[t] \in Jobs /\ JobFits(job[t]) /\ job[t].pc \in {"answer", "forget", "settle"}
      /\ NoJob \in Jobs /\ JobFits(NoJob) /\ NoJob.pc = "idle"
  BY JobTyped DEF RefAnswered, ForgetRow, Settle, Processes, NoJob, Jobs, LockPcs, JobFits
<1>2. PICK at \in Members : at = job[t].member
  BY <1>1 DEF JobFits, LockPcs
<1>3. PICK chan \in Channels \cup {"none"} : chan = job[t].channel
  BY <1>1 DEF Jobs
<1>4. at \in touched
  BY <1>1, <1>2 DEF MemberIInv, FlagsFit
<1>5. /\ UNCHANGED <<defaultChan, stateMu, touched>>
      /\ \/ UNCHANGED canPost \/ \E rank : WriteAccess(at, chan, rank)
      /\ usable' \in {usable, usable \cup {at}, usable \ {at}}
  BY <1>2, <1>3 DEF RefAnswered, ForgetRow, Settle, SetReady
<1>6. /\ canPost' \in [Members -> SUBSET (Channels \cup {"none"})]
      /\ \A n \in Members \ {at} : canPost'[n] = canPost[n]
  BY <1>5, AccessWritten DEF MemberIInv, MemberTypeOK
<1>7. /\ usable' \subseteq Members /\ touched' \subseteq Members /\ touched \subseteq touched'
      /\ at \in touched'
      /\ \A n \in Members \ {at} : canPost'[n] = canPost[n] /\ (n \in usable' <=> n \in usable)
  BY <1>4, <1>5, <1>6 DEF MemberIInv, MemberTypeOK
<1>8. \/ job' = [job EXCEPT ![t] = NoJob]
      \/ \E step \in {"forget", "settle"} :
           /\ step = "settle" => job[t].rank \in {"reader", "poster"}
           /\ job' = [job EXCEPT ![t] = [job[t] EXCEPT !.pc = step]]
  BY DEF RefAnswered, ForgetRow, Settle, SetJob
<1>9. CASE job' = [job EXCEPT ![t] = NoJob]
  BY <1>1, <1>5, <1>6, <1>7, <1>9, TransferMoves
<1>10. ASSUME NEW step \in {"forget", "settle"}, step = "settle" => job[t].rank \in {"reader", "poster"},
              job' = [job EXCEPT ![t] = [job[t] EXCEPT !.pc = step]]
       PROVE  MemberIInv'
  <2>1. PICK next \in Jobs : next = [job[t] EXCEPT !.pc = step]
    BY <1>1 DEF Jobs, LockPcs
  <2>2. next.pc = step /\ next.rank = job[t].rank /\ next.member = at
    BY <1>1, <1>2, <2>1 DEF Jobs
  <2>3. JobFits(next) /\ next.pc \in {"idle", "answer", "settle", "forget"}
    BY <1>10, <2>2 DEF JobFits
  <2> QED  BY <1>5, <1>6, <1>7, <1>10, <2>1, <2>2, <2>3, TransferMoves
<1> QED  BY <1>8, <1>9, <1>10

LEMMA MemberStepHolds ==
  ASSUME OneRequest
  PROVE  MemberIInv /\ [MemberNext]_memberVars => MemberIInv'
<1> SUFFICES ASSUME MemberIInv, [MemberNext]_memberVars PROVE MemberIInv'
  OBVIOUS
<1>1. ASSUME NEW p \in Pollers, CheckBegins(p, Members, FALSE) PROVE MemberIInv'
  BY <1>1, CheckBeginsHolds
<1>2. ASSUME NEW p \in Requests, NEW m \in Members, CheckBegins(p, {m}, TRUE) PROVE MemberIInv'
  BY <1>2, CheckBeginsHolds
<1>3. ASSUME NEW p \in Processes, ForgetRow(p) \/ Settle(p) PROVE MemberIInv'
  BY <1>3, ForgetRowHolds, SettleHolds, RefStepsHold DEF Processes
<1>4. CASE UNCHANGED memberVars
  <2>1. UNCHANGED <<canPost, defaultChan, usable, stateMu, job, touched>>
    BY <1>4 DEF memberVars
  <2>2. FlagsFit'
    <3>1. \A o : FlagFits(o) => FlagFits(o)'
      BY <2>1 DEF FlagFits
    <3>2. \A q \in Requests \cup Pollers : \A o : o = job[q] => FlagFits(o)'
      BY <3>1 DEF MemberIInv, FlagsFit
    <3> QED  BY <2>1, <3>2 DEF MemberIInv, FlagsFit, FlagFits
  <2> QED
    BY <2>1, <2>2 DEF MemberIInv, MemberTypeOK, JobsFit, LockFits, ChannelsFit, Chosen, UsableOnDefault,
                      InTransit
<1> QED
  BY <1>1, <1>2, <1>3, <1>4, SignsInOrOutHolds, RequestStepsHold, SetDefaultChannelHolds, CheckRefusedHolds,
     JoinRefusedHolds, GrantHolds, RecordHolds, AskAccountHolds, ChannelRefHolds, RefStepsHold
     DEF MemberNext

\* channelStateMu has one holder, what it works on is the default channel, and
\* what it is about to make a flag was recorded.
THEOREM MemberInvariantHolds ==
  ASSUME OneRequest
  PROVE  MemberSpec => []MemberIInv
<1>1. MemberInit => MemberIInv
  BY MemberInitHolds
<1>2. MemberIInv /\ [MemberNext]_memberVars => MemberIInv'
  BY MemberStepHolds
<1> QED  BY <1>1, <1>2, PTL DEF MemberSpec

\* With one request of the administrator at a time, and any number of checks
\* and of transfers beside it, the scheduler is told of no account that was not
\* recorded as able to post to the channel that is the default now, but where
\* the admission after a choice has yet to reach it or a transfer's own lookup
\* wrote the flag (RefreshReadyChannels, joinChannel, recordMembership,
\* SetDefaultChannel).
THEOREM UsableAccountsPost ==
  ASSUME OneRequest
  PROVE  MemberSpec => []UsableOnDefault
<1>1. MemberIInv => UsableOnDefault
  BY DEF MemberIInv
<1> QED  BY <1>1, MemberInvariantHolds, PTL

------------------------------------------------------------------------------
(* The scheduler.                                                          *)

\* What is booked on account a and day d, and what commits have still to store.
Booked(a, d) == SumFunction([t \in Reservers(a, d) |-> size[t]])
Unstored(a, d) == SumFunction([t \in Storers(a, d) |-> actual[t]])

\* A task that has got past its choice has an account.
AccountHeld == \A t \in Tasks : pc[t] \in {"reserve", "held", "store", "return"} => chosen[t] \in Accounts

\* Transfers book, and charge, on usage that was read, or could not be.
PairsKnown ==
  \A t \in Tasks : pc[t] \in {"held", "store"} => <<chosen[t], day[t]>> \in loaded \cup failed

\* The inductive invariant.
IInv == BudgetSound /\ AccountHeld /\ PairsKnown

LEMMA MaxSize == Max(Sizes) \in Nat /\ \A n \in Sizes : n <= Max(Sizes)
  BY SizesAssumption, GreatestElement

\* UsageStored and CrossedByOne for one account and day.
UsageKept(a, d) ==
  <<a, d>> \notin failed =>
    IF <<a, d>> \in loaded THEN used[a][d] = stored[a][d] + Unstored(a, d)
                          ELSE used[a][d] = 0 /\ reserved[a][d] = 0

Bound(a, d) == quota[a] + Max(Sizes) + beyond[a][d]

Within(a, d) ==
  (changes = 0 /\ quota[a] > 0 /\ <<a, d>> \notin failed) =>
    used[a][d] + reserved[a][d] < Bound(a, d) /\ stored[a][d] < Bound(a, d)

LEMMA ReservedIs == ReservedExact <=> \A a \in Accounts, d \in Days : reserved[a][d] = Booked(a, d)
  BY DEF ReservedExact, Booked

LEMMA UsageIs == UsageStored <=> \A a \in Accounts, d \in Days : UsageKept(a, d)
  BY DEF UsageStored, UsageKept, Unstored

LEMMA CrossedIs == CrossedByOne <=> \A a \in Accounts, d \in Days : Within(a, d)
  BY DEF CrossedByOne, Within, Bound

\* What a step shows account by account and day by day, it shows of all.
LEMMA PairwiseKeeps ==
  ASSUME \A a \in Accounts, d \in Days :
           reserved'[a][d] = Booked(a, d)' /\ UsageKept(a, d)' /\ Within(a, d)'
  PROVE  ReservedExact' /\ UsageStored' /\ CrossedByOne'
  <1>1. ReservedExact'
    BY DEF ReservedExact, Booked
  <1>2. UsageStored'
    BY DEF UsageStored, UsageKept, Unstored
  <1>3. CrossedByOne'
    BY DEF CrossedByOne, Within, Bound
  <1>4. QED
    BY <1>1, <1>2, <1>3

LEMMA PairsAre ==
  ASSUME IInv, NEW a \in Accounts, NEW d \in Days
  PROVE  /\ reserved[a][d] = Booked(a, d) /\ UsageKept(a, d) /\ Within(a, d)
         /\ used[a][d] \in Nat /\ reserved[a][d] \in Nat /\ stored[a][d] \in Nat
         /\ beyond[a][d] \in Nat /\ quota[a] \in Nat /\ Max(Sizes) \in Nat
  <1>1. TypeOK /\ ReservedExact /\ UsageStored /\ CrossedByOne
    BY DEF IInv, BudgetSound
  <1>2. quota[a] \in Nat
    BY <1>1, QuotasAssumption DEF TypeOK
  <1>3. QED
    BY <1>1, <1>2, ReservedIs, UsageIs, CrossedIs, MaxSize DEF TypeOK

\* An account and day a step does not touch.
LEMMA PairStays ==
  ASSUME NEW a \in Accounts, NEW d \in Days,
         reserved[a][d] = Booked(a, d), UsageKept(a, d), Within(a, d),
         used'[a][d] = used[a][d], reserved'[a][d] = reserved[a][d], stored'[a][d] = stored[a][d],
         beyond'[a][d] = beyond[a][d], quota'[a] = quota[a], changes' = changes,
         Booked(a, d)' = Booked(a, d), Unstored(a, d)' = Unstored(a, d),
         <<a, d>> \in loaded' <=> <<a, d>> \in loaded,
         <<a, d>> \in failed => <<a, d>> \in failed'
  PROVE  reserved'[a][d] = Booked(a, d)' /\ UsageKept(a, d)' /\ Within(a, d)'
  BY DEF UsageKept, Within, Bound

\* The account and day of a transfer that books or charges were read or could not be.
LEMMA NobodyOn ==
  ASSUME IInv, NEW a \in Accounts, NEW d \in Days, <<a, d>> \notin loaded, <<a, d>> \notin failed
  PROVE  Reservers(a, d) = {} /\ Storers(a, d) = {}
  BY DEF IInv, PairsKnown, Reservers, Storers

LEMMA TasksFinite ==
  ASSUME NEW a, NEW d
  PROVE  IsFiniteSet(Reservers(a, d)) /\ IsFiniteSet(Storers(a, d))
  <1>1. Reservers(a, d) \in SUBSET Tasks /\ Storers(a, d) \in SUBSET Tasks
    BY DEF Reservers, Storers
  <1>2. QED
    BY <1>1, TasksAssumption, FS_Subset

\* The account that is chosen is one of the cluster.
LEMMA FirstAccountIs ==
  ASSUME TypeOK, NEW n
  PROVE  FirstAccount(n) \in 0..NumAccounts
  <1>1. \A T \in SUBSET Accounts : T # {} => Min(T) \in T
    <2>1. ASSUME NEW T \in SUBSET Accounts, T # {} PROVE Min(T) \in T
      <3>1. T \in SUBSET Nat
        BY NumAccountsAssumption DEF Accounts
      <3>2. \E x \in T : \A y \in T : x <= y
        BY <2>1, <3>1, LeastElement
      <3>3. QED
        BY <3>2 DEF Min
    <2>2. QED
      BY <2>1
  <1> DEFINE startable == {a \in available : MayStart(a, n)}
  <1> DEFINE fitting == {a \in startable : Fits(a, n)}
  <1>2. startable \in SUBSET Accounts /\ fitting \in SUBSET Accounts
    BY DEF TypeOK
  <1>3. FirstAccount(n) = IF fitting # {} THEN Min(fitting) ELSE IF startable # {} THEN Min(startable) ELSE 0
    BY DEF FirstAccount
  <1> HIDE DEF startable, fitting
  <1>4. FirstAccount(n) \in Accounts \cup {0}
    BY <1>1, <1>2, <1>3
  <1>5. QED
    BY <1>4, NumAccountsAssumption DEF Accounts

\* The sums do not change when no task enters or leaves the sets they are over.
LEMMA SumsStay ==
  ASSUME NEW a, NEW d, Reservers(a, d)' = Reservers(a, d), Storers(a, d)' = Storers(a, d),
         \A t \in Reservers(a, d) : size'[t] = size[t],
         \A t \in Storers(a, d) : actual'[t] = actual[t]
  PROVE  Booked(a, d)' = Booked(a, d) /\ Unstored(a, d)' = Unstored(a, d)
  <1>1. [t \in Reservers(a, d)' |-> size'[t]] = [t \in Reservers(a, d) |-> size[t]]
    OBVIOUS
  <1>2. [t \in Storers(a, d)' |-> actual'[t]] = [t \in Storers(a, d) |-> actual[t]]
    OBVIOUS
  <1>3. QED
    BY <1>1, <1>2 DEF Booked, Unstored

LEMMA InitInv == Init => IInv
  <1> SUFFICES ASSUME Init PROVE IInv
    OBVIOUS
  <1> USE DEF Init
  <1>1. TypeOK
    <2>1. today \in Days /\ day \in [Tasks -> Days]
      BY BoundsAssumption DEF Days
    <2>2. size \in [Tasks -> Sizes \cup {0}] /\ actual \in [Tasks -> Charges \cup Sizes \cup {0}]
      OBVIOUS
    <2>3. /\ used \in [Accounts -> [Days -> Nat]] /\ reserved \in [Accounts -> [Days -> Nat]]
          /\ stored \in [Accounts -> [Days -> Nat]] /\ beyond \in [Accounts -> [Days -> Nat]]
      BY DEF Nothing
    <2>4. pc \in [Tasks -> Steps]
      BY DEF Steps
    <2>5. chosen \in [Tasks -> 0..NumAccounts]
      BY NumAccountsAssumption
    <2>6. changes \in 0..MaxChanges /\ restarts \in 0..MaxRestarts
      BY BoundsAssumption
    <2>7. QED
      BY <2>1, <2>2, <2>3, <2>4, <2>5, <2>6 DEF TypeOK
  <1>2. ASSUME NEW a \in Accounts, NEW d \in Days
        PROVE  Booked(a, d) = 0 /\ Unstored(a, d) = 0
    <2>1. Reservers(a, d) = {} /\ Storers(a, d) = {}
      BY DEF Reservers, Storers
    <2>2. QED
      BY <2>1, SumNothing DEF Booked, Unstored
  <1>3. ASSUME NEW a \in Accounts, NEW d \in Days
        PROVE  reserved[a][d] = Booked(a, d) /\ UsageKept(a, d) /\ Within(a, d)
    <2>1. used[a][d] = 0 /\ reserved[a][d] = 0 /\ stored[a][d] = 0 /\ beyond[a][d] = 0
      BY DEF Nothing
    <2>2. quota[a] \in Nat
      BY QuotasAssumption
    <2>3. UsageKept(a, d)
      BY <2>1 DEF UsageKept
    <2>4. Within(a, d)
      BY <2>1, <2>2, MaxSize DEF Within, Bound
    <2>5. QED
      BY <1>2, <2>1, <2>3, <2>4
  <1>4. AccountHeld /\ PairsKnown
    BY DEF AccountHeld, PairsKnown
  <1>5. QED
    BY <1>1, <1>3, <1>4, ReservedIs, UsageIs, CrossedIs DEF IInv, BudgetSound

\* A step of a task that neither has nor gets a reservation or a debt.
LEMMA QuietStep ==
  ASSUME IInv, NEW t \in Tasks, NEW step \in Steps \ {"held", "store"}, Goto(t, step),
         pc[t] \notin {"held", "store"}, UNCHANGED <<world, ledger, actual>>,
         size' \in [Tasks -> Sizes \cup {0}], chosen' \in [Tasks -> 0..NumAccounts],
         day' \in [Tasks -> Days], fresh' \subseteq Tasks,
         step \in {"reserve", "return"} => chosen'[t] \in Accounts,
         \A u \in Tasks \ {t} : size'[u] = size[u] /\ chosen'[u] = chosen[u] /\ day'[u] = day[u]
  PROVE  IInv'
  <1>0. /\ UNCHANGED <<today, quota, available, changes, restarts>> /\ actual' = actual
        /\ UNCHANGED <<used, reserved, stored, loaded, failed, beyond>>
    BY DEF world, ledger
  <1>1. /\ pc' \in [Tasks -> Steps] /\ pc'[t] = step
        /\ \A u \in Tasks \ {t} : pc'[u] = pc[u]
    BY DEF Goto, TypeOK, IInv, BudgetSound
  <1>2. TypeOK'
    BY <1>0, <1>1 DEF TypeOK, IInv, BudgetSound
  <1>3. AccountHeld' /\ PairsKnown'
    BY <1>0, <1>1 DEF AccountHeld, PairsKnown, IInv
  <1>4. ASSUME NEW a \in Accounts, NEW d \in Days
        PROVE  Booked(a, d)' = Booked(a, d) /\ Unstored(a, d)' = Unstored(a, d)
    <2>1. Reservers(a, d)' = Reservers(a, d) /\ t \notin Reservers(a, d) /\ Reservers(a, d) \subseteq Tasks
      BY <1>1 DEF Reservers
    <2>2. Storers(a, d)' = Storers(a, d) /\ t \notin Storers(a, d)
      BY <1>1 DEF Storers
    <2>3. QED
      BY <1>0, <2>1, <2>2, SumsStay
  <1>5. ASSUME NEW a \in Accounts, NEW d \in Days
        PROVE  reserved'[a][d] = Booked(a, d)' /\ UsageKept(a, d)' /\ Within(a, d)'
    BY <1>0, <1>4, PairsAre, PairStays
  <1>6. QED
    BY <1>2, <1>3, <1>5, PairwiseKeeps DEF IInv, BudgetSound

LEMMA StepsAre ==
  {"idle", "observe", "choose", "sleep", "quotaWait", "accountWait", "slotWait", "rechoose",
   "reserve", "return"} \subseteq Steps \ {"held", "store"}
  BY DEF Steps

LEMMA CallKeeps ==
  ASSUME IInv, NEW t \in Tasks, NEW n \in Sizes, Call(t, n)
  PROVE  IInv'
  <1>1. size' \in [Tasks -> Sizes \cup {0}] /\ \A u \in Tasks \ {t} : size'[u] = size[u]
    BY DEF Call, IInv, BudgetSound, TypeOK
  <1>2. Goto(t, "observe") /\ pc[t] = "idle" /\ UNCHANGED <<world, ledger, actual, fresh, chosen, day>>
    BY DEF Call
  <1>3. fresh' \subseteq Tasks /\ chosen' \in [Tasks -> 0..NumAccounts] /\ day' \in [Tasks -> Days]
    BY <1>2 DEF IInv, BudgetSound, TypeOK
  <1>4. QED
    BY <1>1, <1>2, <1>3, StepsAre, QuietStep

\* Waits and wake-ups: only where the task is and whether it is fresh changes.
LEMMA WaitKeeps ==
  ASSUME IInv, NEW t \in Tasks, NEW step \in Steps \ {"held", "store", "reserve", "return"},
         Goto(t, step), pc[t] \notin {"held", "store"}, fresh' \subseteq Tasks,
         UNCHANGED <<world, ledger, size, chosen, day, actual>>
  PROVE  IInv'
  <1>1. /\ size' \in [Tasks -> Sizes \cup {0}] /\ chosen' \in [Tasks -> 0..NumAccounts]
        /\ day' \in [Tasks -> Days]
    BY DEF IInv, BudgetSound, TypeOK
  <1>2. QED
    BY <1>1, QuietStep

LEMMA WaitsKeep ==
  ASSUME IInv, NEW t \in Tasks,
         \/ Observe(t) \/ Choose(t) \/ QuotaSleep(t) \/ QuotaWait(t) \/ AccountWait(t) \/ TakeSlot(t)
  PROVE  IInv'
  <1>1. UNCHANGED <<world, ledger, size, chosen, day, actual>> /\ fresh' \subseteq Tasks
    BY DEF Observe, Choose, QuotaSleep, QuotaWait, AccountWait, TakeSlot, IInv, BudgetSound, TypeOK
  <1>2. pc[t] \in {"observe", "choose", "sleep", "quotaWait", "accountWait", "slotWait"}
    BY DEF Observe, Choose, QuotaSleep, QuotaWait, AccountWait, TakeSlot
  <1>3. \E step \in {"observe", "choose", "sleep", "quotaWait", "accountWait", "slotWait", "rechoose"} :
          Goto(t, step)
    BY DEF Observe, Choose, QuotaSleep, QuotaWait, AccountWait, TakeSlot
  <1>4. QED
    BY <1>1, <1>2, <1>3, StepsAre, WaitKeeps

LEMMA GiveUpKeeps ==
  ASSUME IInv, NEW t \in Tasks, GiveUp(t)
  PROVE  IInv'
  <1>1. size' \in [Tasks -> Sizes \cup {0}] /\ \A u \in Tasks \ {t} : size'[u] = size[u]
    BY DEF GiveUp, IInv, BudgetSound, TypeOK
  <1>2. /\ Goto(t, "idle") /\ pc[t] \notin {"held", "store"} /\ fresh' = fresh \ {t}
        /\ UNCHANGED <<world, ledger, actual, chosen, day>>
    BY DEF GiveUp
  <1>3. fresh' \subseteq Tasks /\ chosen' \in [Tasks -> 0..NumAccounts] /\ day' \in [Tasks -> Days]
    BY <1>2 DEF IInv, BudgetSound, TypeOK
  <1>4. QED
    BY <1>1, <1>2, <1>3, StepsAre, QuietStep

LEMMA RechooseKeeps ==
  ASSUME IInv, NEW t \in Tasks, Rechoose(t)
  PROVE  IInv'
  <1> DEFINE a == FirstAccount(size[t])
  <1>1. a \in 0..NumAccounts
    BY FirstAccountIs DEF IInv, BudgetSound
  <1>2. /\ chosen' \in [Tasks -> 0..NumAccounts] /\ chosen'[t] = a
        /\ \A u \in Tasks \ {t} : chosen'[u] = chosen[u]
    BY <1>1 DEF Rechoose, IInv, BudgetSound, TypeOK
  <1>3. /\ pc[t] = "rechoose" /\ UNCHANGED <<world, ledger, actual, size, fresh, day>>
        /\ Goto(t, IF a = 0 THEN "observe" ELSE "reserve")
    BY DEF Rechoose
  <1>4. /\ fresh' \subseteq Tasks /\ size' \in [Tasks -> Sizes \cup {0}] /\ day' \in [Tasks -> Days]
    BY <1>3 DEF IInv, BudgetSound, TypeOK
  <1> HIDE DEF a
  <1>5. CASE a = 0
    <2>1. Goto(t, "observe")
      BY <1>3, <1>5
    <2>2. QED
      BY <1>2, <1>3, <1>4, <2>1, StepsAre, QuietStep
  <1>6. CASE a # 0
    <2>1. Goto(t, "reserve") /\ chosen'[t] \in Accounts
      BY <1>1, <1>2, <1>3, <1>6, NumAccountsAssumption DEF Accounts
    <2>2. QED
      BY <1>2, <1>3, <1>4, <2>1, StepsAre, QuietStep
  <1>7. QED
    BY <1>5, <1>6

LEMMA ReturnSlotKeeps ==
  ASSUME IInv, NEW t \in Tasks, ReturnSlot(t)
  PROVE  IInv'
  <1>1. /\ size' \in [Tasks -> Sizes \cup {0}] /\ chosen' \in [Tasks -> 0..NumAccounts]
        /\ day' \in [Tasks -> Days]
    BY NumAccountsAssumption, BoundsAssumption DEF ReturnSlot, IInv, BudgetSound, TypeOK, Days
  <1>2. \A u \in Tasks \ {t} : size'[u] = size[u] /\ chosen'[u] = chosen[u] /\ day'[u] = day[u]
    BY DEF ReturnSlot, IInv, BudgetSound, TypeOK
  <1>3. Goto(t, "idle") /\ pc[t] = "return" /\ UNCHANGED <<world, ledger, actual, fresh>>
    BY DEF ReturnSlot
  <1>4. fresh' \subseteq Tasks
    BY <1>3 DEF IInv, BudgetSound, TypeOK
  <1>5. QED
    BY <1>1, <1>2, <1>3, <1>4, StepsAre, QuietStep

\* A step that no task takes.
LEMMA WorldKeeps ==
  ASSUME IInv, UNCHANGED <<ledger, pc, size, chosen, day, actual>>,
         today' \in Days, quota' \in [Accounts -> Quotas], available' \subseteq Accounts,
         fresh' \subseteq Tasks, changes' \in 0..MaxChanges, restarts' = restarts,
         changes' = 0 => quota' = quota /\ changes = 0
  PROVE  IInv'
  <1>0. UNCHANGED <<used, reserved, stored, loaded, failed, beyond>>
    BY DEF ledger
  <1>1. TypeOK' /\ AccountHeld' /\ PairsKnown'
    BY <1>0 DEF TypeOK, AccountHeld, PairsKnown, IInv, BudgetSound
  <1>2. ASSUME NEW a \in Accounts, NEW d \in Days
        PROVE  Booked(a, d)' = Booked(a, d) /\ Unstored(a, d)' = Unstored(a, d)
    BY DEF Booked, Unstored, Reservers, Storers
  <1>3. ASSUME NEW a \in Accounts, NEW d \in Days
        PROVE  reserved'[a][d] = Booked(a, d)' /\ UsageKept(a, d)' /\ Within(a, d)'
    <2>1. reserved[a][d] = Booked(a, d) /\ UsageKept(a, d) /\ Within(a, d)
      BY PairsAre
    <2>2. QED
      BY <1>0, <1>2, <2>1 DEF UsageKept, Within, Bound
  <1>4. QED
    BY <1>1, <1>3, PairwiseKeeps DEF IInv, BudgetSound

LEMMA WorldStepKeeps ==
  ASSUME IInv,
         Midnight \/ \E a \in Accounts : HealthChanges(a) \/ \E q \in Quotas : SetQuota(a, q)
  PROVE  IInv'
  <1>1. TypeOK
    BY DEF IInv, BudgetSound
  <1>2. CASE Midnight
    <2>1. today' \in Days
      BY <1>1, <1>2, BoundsAssumption DEF Midnight, TypeOK, Days
    <2>2. QED
      BY <1>1, <1>2, <2>1, WorldKeeps DEF Midnight, TypeOK
  <1>3. ASSUME NEW a \in Accounts, HealthChanges(a) PROVE IInv'
    <2>1. changes' \in 0..MaxChanges /\ changes' # 0 /\ available' \subseteq Accounts
      BY <1>1, <1>3, BoundsAssumption DEF HealthChanges, TypeOK
    <2>2. QED
      BY <1>1, <1>3, <2>1, WorldKeeps DEF HealthChanges, TypeOK
  <1>4. ASSUME NEW a \in Accounts, NEW q \in Quotas, SetQuota(a, q) PROVE IInv'
    <2>1. changes' \in 0..MaxChanges /\ changes' # 0
      BY <1>1, <1>4, BoundsAssumption DEF SetQuota, TypeOK
    <2>2. quota' \in [Accounts -> Quotas]
      BY <1>1, <1>4 DEF SetQuota, TypeOK
    <2>3. QED
      BY <1>1, <1>4, <2>1, <2>2, WorldKeeps DEF SetQuota, TypeOK
  <1>5. QED
    BY <1>2, <1>3, <1>4

LEMMA SizeTyped ==
  ASSUME TypeOK, NEW t \in Tasks
  PROVE  /\ size[t] \in Sizes \cup {0} /\ size[t] \in Nat
         /\ actual[t] \in Charges \cup Sizes \cup {0} /\ actual[t] \in Nat
  <1>1. size[t] \in Sizes \cup {0} /\ actual[t] \in Charges \cup Sizes \cup {0}
    BY DEF TypeOK
  <1>2. \A n \in Charges \cup Sizes \cup {0} : n \in Nat
    BY SizesAssumption, ChargesAssumption
  <1>3. QED
    BY <1>1, <1>2

\* The first look at an account on a day: nobody has booked or charged on it yet,
\* or the look of one that did has failed.
LEMMA LoadKeeps ==
  ASSUME IInv, NEW x \in Accounts, Load(x)
  PROVE  IInv'
  <1>1. TypeOK /\ today \in Days
    BY DEF IInv, BudgetSound, TypeOK
  <1>2. /\ <<x, today>> \notin loaded /\ loaded' = loaded \cup {<<x, today>>}
        /\ used' = [used EXCEPT ![x][today] = stored[x][today]]
        /\ UNCHANGED <<today, quota, available, changes, restarts, reserved, stored, failed, beyond,
                      pc, size, fresh, chosen, day, actual>>
    BY DEF Load, world
  <1>3. /\ used' \in [Accounts -> [Days -> Nat]] /\ used'[x][today] = stored[x][today]
        /\ \A b \in Accounts, d \in Days : (b # x \/ d # today) => used'[b][d] = used[b][d]
    BY <1>1, <1>2 DEF TypeOK
  <1>4. TypeOK'
    BY <1>1, <1>2, <1>3 DEF TypeOK
  <1>5. AccountHeld' /\ PairsKnown'
    BY <1>2 DEF AccountHeld, PairsKnown, IInv
  <1>6. ASSUME NEW b \in Accounts, NEW d \in Days
        PROVE  Booked(b, d)' = Booked(b, d) /\ Unstored(b, d)' = Unstored(b, d)
    BY <1>2 DEF Booked, Unstored, Reservers, Storers
  <1>7. ASSUME NEW b \in Accounts, NEW d \in Days
        PROVE  reserved'[b][d] = Booked(b, d)' /\ UsageKept(b, d)' /\ Within(b, d)'
    <2>1. CASE b # x \/ d # today
      <3>1. <<b, d>> \in loaded' <=> <<b, d>> \in loaded
        BY <1>2, <2>1
      <3>2. QED
        BY <1>2, <1>3, <1>6, <2>1, <3>1, PairsAre, PairStays
    <2>2. CASE b = x /\ d = today /\ <<b, d>> \in failed
      BY <1>2, <1>6, <2>2, PairsAre DEF UsageKept, Within
    <2>3. CASE b = x /\ d = today /\ <<b, d>> \notin failed
      <3>1. Reservers(b, d) = {} /\ Storers(b, d) = {}
        BY <1>2, <2>3, NobodyOn
      <3>2. Unstored(b, d) = 0
        BY <3>1, SumNothing DEF Unstored
      <3>3. reserved[b][d] = 0 /\ Within(b, d) /\ stored[b][d] \in Nat /\ reserved[b][d] = Booked(b, d)
        BY <1>2, <2>3, PairsAre DEF UsageKept
      <3>4. used'[b][d] = stored[b][d] /\ stored'[b][d] = stored[b][d] /\ reserved'[b][d] = reserved[b][d]
        BY <1>2, <1>3, <2>3
      <3>5. UsageKept(b, d)'
        BY <1>2, <1>6, <2>3, <3>2, <3>3, <3>4 DEF UsageKept
      <3>6. Within(b, d)'
        BY <1>2, <3>3, <3>4 DEF Within, Bound
      <3>7. QED
        BY <1>6, <3>3, <3>4, <3>5, <3>6
    <2>4. QED
      BY <2>1, <2>2, <2>3
  <1>8. QED
    BY <1>4, <1>5, <1>7, PairwiseKeeps DEF IInv, BudgetSound

\* A restart leaves nothing booked and nothing read.
LEMMA RestartKeeps ==
  ASSUME IInv, Restart
  PROVE  IInv'
  <1>1. TypeOK
    BY DEF IInv, BudgetSound
  <1>2. TypeOK'
    <2>1. restarts' \in 0..MaxRestarts
      BY <1>1, BoundsAssumption DEF Restart, TypeOK
    <2>2. /\ used' \in [Accounts -> [Days -> Nat]] /\ reserved' \in [Accounts -> [Days -> Nat]]
          /\ loaded' \subseteq Accounts \X Days /\ fresh' \subseteq Tasks
      BY DEF Restart, Nothing
    <2>3. /\ pc' \in [Tasks -> Steps] /\ size' \in [Tasks -> Sizes \cup {0}]
          /\ actual' \in [Tasks -> Charges \cup Sizes \cup {0}]
      BY DEF Restart, Steps
    <2>4. chosen' \in [Tasks -> 0..NumAccounts] /\ day' \in [Tasks -> Days]
      BY NumAccountsAssumption, BoundsAssumption DEF Restart, Days
    <2>5. QED
      BY <1>1, <2>1, <2>2, <2>3, <2>4 DEF Restart, TypeOK
  <1>3. AccountHeld' /\ PairsKnown'
    BY DEF Restart, AccountHeld, PairsKnown
  <1>4. ASSUME NEW b \in Accounts, NEW d \in Days
        PROVE  reserved'[b][d] = Booked(b, d)' /\ UsageKept(b, d)' /\ Within(b, d)'
    <2>1. Reservers(b, d)' = {}
      BY DEF Restart, Reservers
    <2>2. Booked(b, d)' = 0
      BY <2>1, SumNothing DEF Booked
    <2>3. used'[b][d] = 0 /\ reserved'[b][d] = 0 /\ loaded' = {}
      BY DEF Restart, Nothing
    <2>4. UsageKept(b, d)'
      BY <2>3 DEF UsageKept
    <2>5. /\ stored[b][d] \in Nat /\ Within(b, d)
          /\ UNCHANGED <<quota, changes, stored, failed, beyond>>
      BY PairsAre DEF Restart
    <2>6. Within(b, d)'
      <3>1. Bound(b, d)' = Bound(b, d) /\ Bound(b, d) \in Nat
        BY <2>5, PairsAre DEF Bound
      <3>2. used'[b][d] + reserved'[b][d] <= stored[b][d] /\ stored'[b][d] = stored[b][d]
        BY <2>3, <2>5
      <3>3. (changes' = 0 /\ quota'[b] > 0 /\ <<b, d>> \notin failed') => stored[b][d] < Bound(b, d)
        BY <2>5 DEF Within
      <3>4. used'[b][d] + reserved'[b][d] \in Nat
        BY <2>3
      <3>5. QED
        BY <2>5, <3>1, <3>2, <3>3, <3>4 DEF Within
    <2>7. QED
      BY <2>2, <2>3, <2>4, <2>6
  <1>5. QED
    BY <1>2, <1>3, <1>4, PairwiseKeeps DEF IInv, BudgetSound

LEMMA ReserveKeeps ==
  ASSUME IInv, NEW t \in Tasks, Reserve(t)
  PROVE  IInv'
  <1> DEFINE a == chosen[t]
  <1> DEFINE n == size[t]
  <1>1. TypeOK /\ AccountHeld
    BY DEF IInv, BudgetSound
  <1>2. pc[t] = "reserve" /\ a \in Accounts /\ n \in Sizes \cup {0} /\ n \in Nat
    BY <1>1, SizeTyped DEF Reserve, AccountHeld
  <1>3. CASE ~Reserves(a, n)
    <2>1. /\ Goto(t, "observe") /\ chosen' = [chosen EXCEPT ![t] = 0]
          /\ UNCHANGED <<reserved, failed, day, world, used, stored, loaded, beyond, size, fresh,
                        actual>>
      BY <1>3 DEF Reserve
    <2>2. chosen' \in [Tasks -> 0..NumAccounts] /\ \A u \in Tasks \ {t} : chosen'[u] = chosen[u]
      BY <1>1, <2>1, NumAccountsAssumption DEF TypeOK
    <2>3. size' \in [Tasks -> Sizes \cup {0}] /\ day' \in [Tasks -> Days] /\ fresh' \subseteq Tasks
      BY <1>1, <2>1 DEF TypeOK
    <2>4. UNCHANGED <<world, ledger, actual>>
      BY <2>1 DEF ledger
    <2>5. QED
      BY <1>2, <2>1, <2>2, <2>3, <2>4, StepsAre, QuietStep
  <1>4. CASE Reserves(a, n)
    <2>1. /\ reserved' = [reserved EXCEPT ![a][today] = @ + n]
          /\ failed' = IF <<a, today>> \in loaded THEN failed ELSE failed \cup {<<a, today>>}
          /\ day' = [day EXCEPT ![t] = today] /\ Goto(t, "held")
          /\ UNCHANGED <<chosen, today, quota, available, changes, restarts, used, stored, loaded,
                        beyond, size, fresh, actual>>
      BY <1>4 DEF Reserve, world
    <2>2. /\ pc' \in [Tasks -> Steps] /\ pc'[t] = "held"
          /\ \A u \in Tasks \ {t} : pc'[u] = pc[u]
      BY <1>1, <2>1 DEF Goto, TypeOK, Steps
    <2>3. /\ day' \in [Tasks -> Days] /\ day'[t] = today /\ today \in Days
          /\ \A u \in Tasks \ {t} : day'[u] = day[u]
      BY <1>1, <2>1 DEF TypeOK
    <2>4. PICK x \in Accounts, y \in Days : x = a /\ y = today
      BY <1>2, <2>3
    <2>5. /\ reserved' \in [Accounts -> [Days -> Nat]] /\ reserved'[x][y] = reserved[x][y] + n
          /\ \A b \in Accounts, d \in Days : (b # x \/ d # y) => reserved'[b][d] = reserved[b][d]
      BY <1>1, <1>2, <2>1, <2>4 DEF TypeOK
    <2>6. /\ failed' \subseteq Accounts \X Days /\ failed \subseteq failed'
          /\ <<x, y>> \in loaded \cup failed'
      BY <1>1, <2>1, <2>4 DEF TypeOK
    <2>7. TypeOK'
      BY <1>1, <2>1, <2>2, <2>3, <2>5, <2>6 DEF TypeOK
    <2>8. AccountHeld'
      BY <1>1, <1>2, <2>1, <2>2 DEF AccountHeld
    <2>9. PairsKnown'
      BY <2>1, <2>2, <2>3, <2>4, <2>6 DEF PairsKnown, IInv
    <2>10. ASSUME NEW b \in Accounts, NEW d \in Days
           PROVE  Unstored(b, d)' = Unstored(b, d)
      <3>1. Storers(b, d)' = Storers(b, d)
        BY <1>2, <2>1, <2>2, <2>3 DEF Storers
      <3>2. [u \in Storers(b, d)' |-> actual'[u]] = [u \in Storers(b, d) |-> actual[u]]
        BY <2>1, <3>1
      <3>3. QED
        BY <3>2 DEF Unstored
    <2>11. ASSUME NEW b \in Accounts, NEW d \in Days, b # x \/ d # y
           PROVE  reserved'[b][d] = Booked(b, d)' /\ UsageKept(b, d)' /\ Within(b, d)'
      <3>1. Reservers(b, d)' = Reservers(b, d)
        BY <1>2, <2>1, <2>2, <2>3, <2>4, <2>11 DEF Reservers
      <3>2. [u \in Reservers(b, d)' |-> size'[u]] = [u \in Reservers(b, d) |-> size[u]]
        BY <2>1, <3>1
      <3>3. Booked(b, d)' = Booked(b, d)
        BY <3>2 DEF Booked
      <3>4. QED
        <4>1. reserved[b][d] = Booked(b, d) /\ UsageKept(b, d) /\ Within(b, d)
          BY PairsAre
        <4>2. /\ used'[b][d] = used[b][d] /\ reserved'[b][d] = reserved[b][d]
              /\ stored'[b][d] = stored[b][d] /\ beyond'[b][d] = beyond[b][d]
              /\ quota'[b] = quota[b] /\ changes' = changes /\ loaded' = loaded
              /\ <<b, d>> \in failed => <<b, d>> \in failed'
          BY <2>1, <2>5, <2>6, <2>11
        <4>3. QED
          BY <2>10, <3>3, <4>1, <4>2, PairStays
    <2>12. reserved'[x][y] = Booked(x, y)'
      <3>1. Reservers(x, y)' = Reservers(x, y) \cup {t} /\ t \notin Reservers(x, y)
        BY <1>2, <2>1, <2>2, <2>3, <2>4 DEF Reservers
      <3>2. \A u \in Reservers(x, y) : size[u] \in Nat /\ size'[u] = size[u]
        BY <1>1, <2>1, SizeTyped DEF Reservers
      <3>3. /\ SumFunction([u \in Reservers(x, y) \cup {t} |-> size'[u]])
                = size'[t] + SumFunction([u \in Reservers(x, y) |-> size[u]])
            /\ SumFunction([u \in Reservers(x, y) |-> size[u]]) \in Nat
        <4>1. size'[t] \in Nat /\ IsFiniteSet(Reservers(x, y))
          BY <1>2, <2>1, TasksFinite
        <4>2. QED
          BY <3>1, <3>2, <4>1, SumJoins
      <3>4. Booked(x, y)' = n + Booked(x, y) /\ Booked(x, y) \in Nat
        BY <2>1, <3>1, <3>3 DEF Booked
      <3>5. reserved[x][y] = Booked(x, y)
        BY PairsAre
      <3>6. QED
        BY <1>2, <2>5, <3>4, <3>5
    <2>13. UsageKept(x, y)'
      <3>1. CASE <<x, y>> \in loaded
        BY <2>1, <2>6, <2>10, <3>1, PairsAre DEF UsageKept
      <3>2. CASE <<x, y>> \notin loaded
        BY <2>1, <2>6, <3>2 DEF UsageKept
      <3>3. QED
        BY <3>1, <3>2
    <2>14. Within(x, y)'
      <3>1. SUFFICES ASSUME changes = 0, quota[x] > 0, <<x, y>> \notin failed
                     PROVE  /\ used[x][y] + reserved'[x][y] < Bound(x, y)
                            /\ stored[x][y] < Bound(x, y)
        BY <2>1, <2>6 DEF Within, Bound
      <3>2. used[x][y] + reserved[x][y] < Bound(x, y) /\ stored[x][y] < Bound(x, y)
        BY <3>1, PairsAre DEF Within
      <3>3. CASE n = 0
        BY <2>5, <3>2, <3>3, PairsAre
      <3>4. CASE n # 0
        <4>1. MayStart(x, n)
          BY <1>4, <2>4 DEF Reserves
        <4>2. n <= Max(Sizes) /\ n > 0
          BY <1>2, <3>4, MaxSize
        <4>3. /\ used[x][y] < quota[x]
              /\ n <= quota[x] - used[x][y] - reserved[x][y] \/ reserved[x][y] = 0
          BY <2>4, <3>1, <3>4, <4>1 DEF MayStart
        <4>4. /\ used[x][y] \in Nat /\ reserved[x][y] \in Nat /\ quota[x] \in Nat
              /\ beyond[x][y] \in Nat /\ Max(Sizes) \in Nat
          BY PairsAre
        <4>5. used[x][y] + (reserved[x][y] + n) < quota[x] + Max(Sizes) + beyond[x][y]
          BY <1>2, <4>2, <4>3, <4>4
        <4>6. QED
          BY <2>5, <3>2, <4>5 DEF Bound
      <3>5. QED
        BY <3>3, <3>4
    <2>15. ASSUME NEW b \in Accounts, NEW d \in Days
           PROVE  reserved'[b][d] = Booked(b, d)' /\ UsageKept(b, d)' /\ Within(b, d)'
      BY <2>11, <2>12, <2>13, <2>14
    <2>16. QED
      BY <2>7, <2>8, <2>9, <2>15, PairwiseKeeps DEF IInv, BudgetSound
  <1>5. QED
    BY <1>3, <1>4

LEMMA CommitKeeps ==
  ASSUME IInv, NEW t \in Tasks, NEW n \in Charges \cup {size[t]}, Commit(t, n)
  PROVE  IInv'
  <1> DEFINE a == chosen[t]
  <1> DEFINE e == day[t]
  <1>1. TypeOK /\ AccountHeld
    BY DEF IInv, BudgetSound
  <1>2. /\ pc[t] = "held" /\ a \in Accounts /\ e \in Days
        /\ n \in Charges \cup Sizes \cup {0} /\ n \in Nat /\ size[t] \in Nat
    <2>1. pc[t] = "held" /\ a \in Accounts /\ e \in Days
      BY <1>1 DEF Commit, AccountHeld, TypeOK
    <2>2. size[t] \in Nat /\ size[t] \in Sizes \cup {0}
      BY <1>1, SizeTyped
    <2>3. QED
      BY <2>1, <2>2, ChargesAssumption
  <1>3. /\ reserved' = [reserved EXCEPT ![a][e] = IF @ >= size[t] THEN @ - size[t] ELSE 0]
        /\ used' = [used EXCEPT ![a][e] = @ + n] /\ fresh' = {}
        /\ beyond' = [beyond EXCEPT ![a][e] = IF n > size[t] THEN @ + (n - size[t]) ELSE @]
        /\ actual' = [actual EXCEPT ![t] = n] /\ Goto(t, "store")
        /\ UNCHANGED <<today, quota, available, changes, restarts, stored, loaded, failed, size,
                      chosen, day>>
    BY DEF Commit, world
  <1>4. /\ pc' \in [Tasks -> Steps] /\ pc'[t] = "store"
        /\ \A u \in Tasks \ {t} : pc'[u] = pc[u]
    BY <1>1, <1>3 DEF Goto, TypeOK, Steps
  <1>5. /\ actual' \in [Tasks -> Charges \cup Sizes \cup {0}] /\ actual'[t] = n
        /\ \A u \in Tasks \ {t} : actual'[u] = actual[u]
    BY <1>1, <1>2, <1>3 DEF TypeOK
  <1>6. PICK x \in Accounts, y \in Days : x = a /\ y = e
    BY <1>2
  <1>7. /\ Reservers(x, y) = Reservers(x, y)' \cup {t} /\ t \notin Reservers(x, y)'
        /\ Storers(x, y)' = Storers(x, y) \cup {t} /\ t \notin Storers(x, y)
    BY <1>2, <1>3, <1>4, <1>6 DEF Reservers, Storers
  <1>8. ASSUME NEW b \in Accounts, NEW d \in Days, b # x \/ d # y
        PROVE  Booked(b, d)' = Booked(b, d) /\ Unstored(b, d)' = Unstored(b, d)
    <2>1. Reservers(b, d)' = Reservers(b, d) /\ Storers(b, d)' = Storers(b, d)
      BY <1>2, <1>3, <1>4, <1>6, <1>8 DEF Reservers, Storers
    <2>2. t \notin Storers(b, d) /\ Storers(b, d) \subseteq Tasks
      BY <1>2 DEF Storers
    <2>3. QED
      BY <1>3, <1>5, <2>1, <2>2, SumsStay
  <1>9. Booked(x, y) = size[t] + Booked(x, y)' /\ Booked(x, y)' \in Nat
    <2>1. \A u \in Reservers(x, y)' : size'[u] \in Nat /\ size[u] = size'[u]
      BY <1>1, <1>3, SizeTyped DEF Reservers
    <2>2. IsFiniteSet(Reservers(x, y)')
      BY <1>7, TasksFinite, FS_Subset
    <2>3. /\ SumFunction([u \in Reservers(x, y)' \cup {t} |-> size[u]])
              = size[t] + SumFunction([u \in Reservers(x, y)' |-> size'[u]])
          /\ SumFunction([u \in Reservers(x, y)' |-> size'[u]]) \in Nat
      BY <1>2, <1>7, <2>1, <2>2, SumJoins
    <2>4. QED
      BY <1>7, <2>3 DEF Booked
  <1>10. Unstored(x, y)' = n + Unstored(x, y) /\ Unstored(x, y) \in Nat
    <2>1. \A u \in Storers(x, y) : actual[u] \in Nat /\ actual'[u] = actual[u]
      BY <1>1, <1>2, <1>5, SizeTyped DEF Storers
    <2>2. IsFiniteSet(Storers(x, y)) /\ actual'[t] \in Nat
      BY <1>2, <1>5, TasksFinite
    <2>3. /\ SumFunction([u \in Storers(x, y) \cup {t} |-> actual'[u]])
              = actual'[t] + SumFunction([u \in Storers(x, y) |-> actual[u]])
          /\ SumFunction([u \in Storers(x, y) |-> actual[u]]) \in Nat
      BY <1>7, <2>1, <2>2, SumJoins
    <2>4. QED
      BY <1>5, <1>7, <2>3 DEF Unstored
  <1>11. reserved[x][y] = size[t] + Booked(x, y)'
    BY <1>9, ReservedIs DEF IInv, BudgetSound
  <1>12. /\ reserved' \in [Accounts -> [Days -> Nat]]
         /\ reserved'[x][y] = Booked(x, y)'
         /\ \A b \in Accounts, d \in Days : (b # x \/ d # y) => reserved'[b][d] = reserved[b][d]
    <2>1. reserved' = [reserved EXCEPT ![x][y] = IF @ >= size[t] THEN @ - size[t] ELSE 0]
      BY <1>3, <1>6
    <2> DEFINE left == IF reserved[x][y] >= size[t] THEN reserved[x][y] - size[t] ELSE 0
    <2>2. left = Booked(x, y)' /\ left \in Nat
      BY <1>2, <1>9, <1>11
    <2>3. reserved' = [reserved EXCEPT ![x][y] = left]
      BY <2>1
    <2> HIDE DEF left
    <2>4. QED
      BY <1>1, <2>2, <2>3 DEF TypeOK
  <1>13. /\ used' \in [Accounts -> [Days -> Nat]]
         /\ used[x][y] \in Nat /\ used'[x][y] = used[x][y] + n
         /\ \A b \in Accounts, d \in Days : (b # x \/ d # y) => used'[b][d] = used[b][d]
    BY <1>1, <1>2, <1>3, <1>6 DEF TypeOK
  <1>14. /\ beyond' \in [Accounts -> [Days -> Nat]]
         /\ beyond'[x][y] = beyond[x][y] + (IF n > size[t] THEN n - size[t] ELSE 0)
         /\ \A b \in Accounts, d \in Days : (b # x \/ d # y) => beyond'[b][d] = beyond[b][d]
    <2> DEFINE more == IF n > size[t] THEN n - size[t] ELSE 0
    <2>1. more \in Nat /\ beyond[x][y] \in Nat
      BY <1>1, <1>2 DEF TypeOK
    <2>2. (IF n > size[t] THEN beyond[x][y] + (n - size[t]) ELSE beyond[x][y]) = beyond[x][y] + more
      BY <2>1
    <2>3. beyond' = [beyond EXCEPT ![x][y] = beyond[x][y] + more]
      BY <1>3, <1>6, <2>2
    <2> HIDE DEF more
    <2>4. /\ beyond' \in [Accounts -> [Days -> Nat]] /\ beyond'[x][y] = beyond[x][y] + more
          /\ \A b \in Accounts, d \in Days : (b # x \/ d # y) => beyond'[b][d] = beyond[b][d]
      BY <1>1, <2>1, <2>3 DEF TypeOK
    <2>5. QED
      BY <2>4 DEF more
  <1>15. TypeOK'
    BY <1>1, <1>3, <1>4, <1>5, <1>12, <1>13, <1>14 DEF TypeOK
  <1>16. AccountHeld' /\ PairsKnown'
    BY <1>1, <1>2, <1>3, <1>4 DEF AccountHeld, PairsKnown, IInv
  <1>17. ASSUME NEW b \in Accounts, NEW d \in Days, b # x \/ d # y
         PROVE  reserved'[b][d] = Booked(b, d)' /\ UsageKept(b, d)' /\ Within(b, d)'
    <2>1. reserved[b][d] = Booked(b, d) /\ UsageKept(b, d) /\ Within(b, d)
      BY PairsAre
    <2>2. /\ used'[b][d] = used[b][d] /\ reserved'[b][d] = reserved[b][d]
          /\ stored'[b][d] = stored[b][d] /\ beyond'[b][d] = beyond[b][d]
          /\ quota'[b] = quota[b] /\ changes' = changes /\ loaded' = loaded /\ failed' = failed
      BY <1>3, <1>12, <1>13, <1>14, <1>17
    <2>3. Booked(b, d)' = Booked(b, d) /\ Unstored(b, d)' = Unstored(b, d)
      BY <1>8, <1>17
    <2>4. QED
      BY <2>1, <2>2, <2>3, PairStays
  <1>18. UsageKept(x, y)'
    <2>1. <<x, y>> \in loaded \cup failed
      BY <1>2, <1>6 DEF PairsKnown, IInv
    <2>2. UsageKept(x, y) /\ used[x][y] \in Nat /\ stored[x][y] \in Nat
      BY PairsAre
    <2>3. QED
      BY <1>2, <1>3, <1>10, <1>13, <2>1, <2>2 DEF UsageKept
  <1>19. Within(x, y)'
    <2>1. SUFFICES ASSUME changes = 0, quota[x] > 0, <<x, y>> \notin failed
                   PROVE  used'[x][y] + reserved'[x][y] < Bound(x, y)' /\ stored[x][y] < Bound(x, y)'
      BY <1>3 DEF Within
    <2>2. used[x][y] + reserved[x][y] < Bound(x, y) /\ stored[x][y] < Bound(x, y)
      BY <2>1, PairsAre DEF Within
    <2>3. /\ used[x][y] \in Nat /\ stored[x][y] \in Nat /\ quota[x] \in Nat
          /\ beyond[x][y] \in Nat /\ Max(Sizes) \in Nat
      BY PairsAre
    <2>4. Bound(x, y)' = quota[x] + Max(Sizes) + beyond'[x][y]
      BY <1>3 DEF Bound
    <2>5. CASE n > size[t]
      BY <1>2, <1>9, <1>11, <1>12, <1>13, <1>14, <2>2, <2>3, <2>4, <2>5 DEF Bound
    <2>6. CASE ~(n > size[t])
      BY <1>2, <1>9, <1>11, <1>12, <1>13, <1>14, <2>2, <2>3, <2>4, <2>6 DEF Bound
    <2>7. QED
      BY <2>5, <2>6
  <1>20. ASSUME NEW b \in Accounts, NEW d \in Days
         PROVE  reserved'[b][d] = Booked(b, d)' /\ UsageKept(b, d)' /\ Within(b, d)'
    BY <1>12, <1>17, <1>18, <1>19
  <1>21. QED
    BY <1>15, <1>16, <1>20, PairwiseKeeps DEF IInv, BudgetSound

\* The row is written, or cannot be: the debt of the task is gone either way.
LEMMA StoreKeeps ==
  ASSUME IInv, NEW t \in Tasks, Store(t) \/ StoreFails(t)
  PROVE  IInv'
  <1>1. TypeOK /\ AccountHeld
    BY DEF IInv, BudgetSound
  <1>2. /\ pc[t] = "store" /\ chosen[t] \in Accounts /\ day[t] \in Days
        /\ actual[t] \in Nat
    BY <1>1, SizeTyped DEF Store, StoreFails, AccountHeld, TypeOK
  <1>3. PICK x \in Accounts, y \in Days : x = chosen[t] /\ y = day[t]
    BY <1>2
  <1>4. /\ \/ stored' = [stored EXCEPT ![x][y] = @ + actual[t]] /\ failed' = failed
           \/ stored' = stored /\ failed' = failed \cup {<<x, y>>}
        /\ actual' = [actual EXCEPT ![t] = 0] /\ Goto(t, "return")
        /\ UNCHANGED <<today, quota, available, changes, restarts, used, reserved, loaded, beyond,
                      size, fresh, chosen, day>>
    BY <1>3 DEF Store, StoreFails, world
  <1>5. /\ pc' \in [Tasks -> Steps] /\ pc'[t] = "return"
        /\ \A u \in Tasks \ {t} : pc'[u] = pc[u]
    BY <1>1, <1>4 DEF Goto, TypeOK, Steps
  <1>6. /\ actual' \in [Tasks -> Charges \cup Sizes \cup {0}]
        /\ \A u \in Tasks \ {t} : actual'[u] = actual[u]
    BY <1>1, <1>4 DEF TypeOK
  <1>7. Storers(x, y) = Storers(x, y)' \cup {t} /\ t \notin Storers(x, y)'
    BY <1>2, <1>3, <1>4, <1>5 DEF Storers
  <1>8. ASSUME NEW b \in Accounts, NEW d \in Days
        PROVE  Booked(b, d)' = Booked(b, d)
    <2>1. Reservers(b, d)' = Reservers(b, d)
      BY <1>2, <1>4, <1>5 DEF Reservers
    <2>2. [u \in Reservers(b, d)' |-> size'[u]] = [u \in Reservers(b, d) |-> size[u]]
      BY <1>4, <2>1
    <2>3. QED
      BY <2>2 DEF Booked
  <1>9. ASSUME NEW b \in Accounts, NEW d \in Days, b # x \/ d # y
        PROVE  Unstored(b, d)' = Unstored(b, d)
    <2>1. Storers(b, d)' = Storers(b, d) /\ t \notin Storers(b, d) /\ Storers(b, d) \subseteq Tasks
      BY <1>2, <1>3, <1>4, <1>5, <1>9 DEF Storers
    <2>2. [u \in Storers(b, d)' |-> actual'[u]] = [u \in Storers(b, d) |-> actual[u]]
      BY <1>6, <2>1
    <2>3. QED
      BY <2>2 DEF Unstored
  <1>10. Unstored(x, y) = actual[t] + Unstored(x, y)' /\ Unstored(x, y)' \in Nat
    <2>1. \A u \in Storers(x, y)' : actual'[u] \in Nat /\ actual[u] = actual'[u]
      <3>1. \A u \in Storers(x, y)' : u \in Tasks \ {t}
        BY <1>7 DEF Storers
      <3>2. QED
        BY <1>1, <1>6, <3>1, SizeTyped
    <2>2. IsFiniteSet(Storers(x, y)')
      BY <1>7, TasksFinite, FS_Subset
    <2>3. /\ SumFunction([u \in Storers(x, y)' \cup {t} |-> actual[u]])
              = actual[t] + SumFunction([u \in Storers(x, y)' |-> actual'[u]])
          /\ SumFunction([u \in Storers(x, y)' |-> actual'[u]]) \in Nat
      BY <1>2, <1>7, <2>1, <2>2, SumJoins
    <2>4. QED
      BY <1>7, <2>3 DEF Unstored
  <1>11. /\ stored' \in [Accounts -> [Days -> Nat]]
         /\ stored[x][y] \in Nat
         /\ \A b \in Accounts, d \in Days : (b # x \/ d # y) => stored'[b][d] = stored[b][d]
    <2>1. CASE stored' = stored
      BY <1>1, <2>1 DEF TypeOK
    <2>2. CASE stored' = [stored EXCEPT ![x][y] = @ + actual[t]]
      BY <1>1, <1>2, <2>2 DEF TypeOK
    <2>3. QED
      BY <1>4, <2>1, <2>2
  <1>12. /\ failed' \subseteq Accounts \X Days /\ failed \subseteq failed'
         /\ <<x, y>> \notin failed' => stored'[x][y] = stored[x][y] + actual[t]
    BY <1>1, <1>2, <1>4 DEF TypeOK
  <1>13. TypeOK'
    BY <1>1, <1>4, <1>5, <1>6, <1>11, <1>12 DEF TypeOK
  <1>14. AccountHeld' /\ PairsKnown'
    BY <1>1, <1>2, <1>4, <1>5, <1>12 DEF AccountHeld, PairsKnown, IInv
  <1>15. ASSUME NEW b \in Accounts, NEW d \in Days, b # x \/ d # y
         PROVE  reserved'[b][d] = Booked(b, d)' /\ UsageKept(b, d)' /\ Within(b, d)'
    BY <1>4, <1>8, <1>9, <1>11, <1>12, <1>15, PairsAre, PairStays
  <1>16. <<x, y>> \in loaded \cup failed
    BY <1>2, <1>3 DEF PairsKnown, IInv
  <1>17. ASSUME <<x, y>> \notin failed'
         PROVE  used[x][y] = stored'[x][y] + Unstored(x, y)' /\ <<x, y>> \notin failed
    <2>1. used[x][y] = stored[x][y] + Unstored(x, y) /\ <<x, y>> \notin failed
      BY <1>12, <1>16, <1>17, PairsAre DEF UsageKept
    <2>2. QED
      BY <1>2, <1>10, <1>11, <1>12, <1>17, <2>1
  <1>18. UsageKept(x, y)'
    BY <1>4, <1>16, <1>17 DEF UsageKept
  <1>19. Within(x, y)'
    <2>1. SUFFICES ASSUME changes = 0, quota[x] > 0, <<x, y>> \notin failed'
                   PROVE  /\ used[x][y] + reserved[x][y] < Bound(x, y)
                          /\ stored'[x][y] < Bound(x, y)
      BY <1>4 DEF Within, Bound
    <2>2. used[x][y] + reserved[x][y] < Bound(x, y)
      BY <1>17, <2>1, PairsAre DEF Within
    <2>3. /\ used[x][y] \in Nat /\ reserved[x][y] \in Nat /\ quota[x] \in Nat
          /\ beyond[x][y] \in Nat /\ Max(Sizes) \in Nat /\ stored'[x][y] \in Nat
      BY <1>11, PairsAre
    <2>4. stored'[x][y] <= used[x][y]
      BY <1>10, <1>17, <2>1, <2>3
    <2>5. QED
      BY <2>2, <2>3, <2>4 DEF Bound
  <1>20. reserved'[x][y] = Booked(x, y)'
    BY <1>4, <1>8, PairsAre
  <1>21. ASSUME NEW b \in Accounts, NEW d \in Days
         PROVE  reserved'[b][d] = Booked(b, d)' /\ UsageKept(b, d)' /\ Within(b, d)'
    BY <1>15, <1>18, <1>19, <1>20
  <1>22. QED
    BY <1>13, <1>14, <1>21, PairwiseKeeps DEF IInv, BudgetSound

LEMMA NextInv == IInv /\ [Next]_vars => IInv'
  <1> SUFFICES ASSUME IInv, [Next]_vars PROVE IInv'
    OBVIOUS
  <1>1. CASE \/ Midnight \/ Restart
             \/ \E a \in Accounts : Load(a) \/ HealthChanges(a) \/ \E q \in Quotas : SetQuota(a, q)
    BY <1>1, WorldStepKeeps, RestartKeeps, LoadKeeps
  <1>2. ASSUME NEW t \in Tasks,
               TaskStep(t) \/ TakeSlot(t) \/ GiveUp(t) \/ \E n \in Sizes : Call(t, n)
        PROVE  IInv'
    BY <1>2, WaitsKeep, GiveUpKeeps, CallKeeps, RechooseKeeps, ReserveKeeps, CommitKeeps,
       StoreKeeps, ReturnSlotKeeps
    DEF TaskStep
  <1>3. CASE UNCHANGED vars
    <2>1. /\ UNCHANGED <<today, quota, available, changes, restarts>>
          /\ UNCHANGED <<ledger, pc, size, fresh, chosen, day, actual>>
      BY <1>3 DEF vars, world
    <2>2. QED
      BY <2>1, WorldKeeps DEF IInv, BudgetSound, TypeOK
  <1>4. QED
    BY <1>1, <1>2, <1>3 DEF Next

\* The inductive invariant holds in every state: a task past its choice has an
\* account, those that book or charge do so on usage that was read or could not
\* be, and the daily budgets are kept.
THEOREM InvariantHolds == Spec => []IInv
  <1>1. QED
    BY InitInv, NextInv, PTL DEF Spec

\* What is booked on an account and a day is what the transfers running on it
\* expect, what is used is stored or about to be, and a limit is crossed by one
\* content at most and by what transfers report above their booked size, through
\* retries, refused reservations, cancellations, midnight and restarts; but for
\* an account and day whose usage could not be read or stored, and, the limit,
\* for one that changed (quotaTracker.reserve, ensureLoadedLocked,
\* quotaReservation.commit, Service.acquire).
THEOREM BudgetsAreSound == Spec => []BudgetSound
  <1>1. IInv => BudgetSound
    BY DEF IInv
  <1>2. QED
    BY <1>1, InvariantHolds, PTL

=============================================================================
