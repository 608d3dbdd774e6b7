------------------------------ MODULE Cluster ------------------------------
(***************************************************************************)
(* The Telegram accounts of a deployment (internal/tgc/cluster.go,         *)
(* client.go, auth.go and account.go, internal/database/accounts.go,       *)
(* internal/api/accounts.go and telegram.go): the rows of tg_accounts, the *)
(* managers loaded for the enabled ones, and the run loops that hold their *)
(* connections.                                                            *)
(*                                                                         *)
(* A request of the administrator is the list of steps it still has to     *)
(* take; reload and start are lists of their own, put in front when the    *)
(* request reaches them.  A step is one statement, one critical section or *)
(* one wait.  A step that fails ends the request, as its handler returns.  *)
(* Labels, credentials, proxies and quotas are not told apart: what counts *)
(* is that changing them reloads the rows or dials again.                  *)
(***************************************************************************)
EXTENDS Integers, FiniteSets, Sequences

CONSTANTS TgAccounts,  \* accounts that may be registered
          TgCallers,   \* requests of the administrator at a time
          MaxRuns      \* bound: run loops of one account at a time

ASSUME RunsAssumption == MaxRuns \in Nat \ {0}

VARIABLES acctRow,     \* tg_accounts: "absent", or enabled "on" or "off"
          primaryRow,  \* accounts registered with is_primary
          authorised,  \* accounts whose session file Telegram accepts
          managers,    \* Cluster.managers
          readyNow,    \* managers in StateReady: the other states are not told apart
          mclient,     \* Manager.client and its cancel: the run it belongs to, or 0
          loops,       \* run loops: live until cancelled, gone when they return
          task         \* what each request is in the middle of

clusterVars == <<acctRow, primaryRow, authorised, managers, readyNow, mclient, loops, task>>

Runs == 1..MaxRuns
NoTask == [acct |-> "none", todo |-> <<>>, rows |-> {}, first |-> FALSE]
Busy(c) == task[c] # NoTask
TaskAt(c, step) == Busy(c) /\ Head(task[c].todo) = step
Enabled == {a \in TgAccounts : acctRow[a] = "on"}
Registered == {a \in TgAccounts : acctRow[a] # "absent"}

ClusterInit ==
  /\ acctRow = [a \in TgAccounts |-> "absent"] /\ primaryRow = {} /\ authorised = {}
  /\ managers = {} /\ readyNow = {}
  /\ mclient = [a \in TgAccounts |-> 0]
  /\ loops = [a \in TgAccounts |-> [n \in Runs |-> "gone"]]
  /\ task = [c \in TgCallers |-> NoTask]

\* The request goes on with these steps; with none left it is answered.
Do(c, steps) ==
  task' = [task EXCEPT ![c] = IF steps = <<>> THEN NoTask ELSE [@ EXCEPT !.todo = steps]]
Rest(c) == Tail(task[c].todo)
Answer(c) == Do(c, <<>>)

\* An expansion of a step: what is left of the request follows it.
Expand(c, steps) == Do(c, steps \o Rest(c))

Start == <<"stop", "wait", "dial", "connect", "auth">>
Reload == <<"list", "install">>

(***************************************************************************)
(* Requests.                                                               *)
(***************************************************************************)
Request(c, a, steps) ==
  /\ task[c] = NoTask
  /\ task' = [task EXCEPT ![c] = [NoTask EXCEPT !.acct = a, !.todo = steps]]
  /\ UNCHANGED <<acctRow, primaryRow, authorised, managers, readyNow, mclient, loops>>

\* Add, whose ListAccounts decides whether the account is the first.
Add(c, a) ==
  /\ acctRow[a] = "absent" /\ a \notin managers
  /\ Request(c, a, <<"count", "insert", "reload", "start">>)

\* ErrLastAccount.
MayGo(a) == acctRow[a] = "on" => Cardinality(Enabled) > 1

\* Remove: an account that is not loaded has nothing to close.
Remove(c, a) ==
  /\ acctRow[a] # "absent" /\ MayGo(a)
  /\ Request(c, a, IF a \in managers
                   THEN <<"logout", "stop", "wait", "unlink", "stop", "wait", "delete", "reload">>
                   ELSE <<"unlink", "delete", "reload">>)

\* Update, with the other changes of handleUpdateAccount (SetQuotas) and
\* SetProxy, which dials again.
Update(c, a, on) ==
  /\ acctRow[a] # "absent"
  /\ on \/ MayGo(a)
  /\ Request(c, a, CASE on /\ acctRow[a] = "off" -> <<"enable", "reload", "start">>
                     [] on -> <<"enable", "reload">>
                     [] OTHER -> <<"disable", "reload">>)

SetProxy(c, a) ==
  /\ acctRow[a] # "absent"
  /\ Request(c, a, <<"reload", "start">>)

\* Configure writes the manager's copy of the row back, which says enabled, and
\* dials; Reload of a signed-in account after a settings change only dials.
Configure(c, a) ==
  /\ a \in managers
  /\ \/ Request(c, a, <<"enable", "start">>)
     \/ a \in readyNow /\ Request(c, a, <<"start">>)

\* SendCode, SignIn and SubmitPassword end in refreshAuth when Telegram agrees.
SignIn(c, a) ==
  /\ a \in managers /\ mclient[a] # 0
  /\ Request(c, a, <<"signin", "auth">>)

LogOut(c, a) ==
  /\ a \in managers
  /\ Request(c, a, <<"logout", "stop", "wait", "unlink", "start">>)

ImportSession(c, a) ==
  /\ a \in managers
  /\ Request(c, a, <<"stop", "wait", "import", "adopt", "start">>)

(***************************************************************************)
(* Steps.                                                                  *)
(***************************************************************************)
\* A statement or a file operation fails, or the client has hung up: the
\* handler returns.  ImportSession records the error.
Fails(c) ==
  /\ \/ \E step \in {"count", "insert", "delete", "enable", "disable", "list", "signin"} : TaskAt(c, step)
     \/ TaskAt(c, "unlink") /\ Len(task[c].todo) > 1 /\ Rest(c)[1] = "start"
     \/ TaskAt(c, "import") \/ TaskAt(c, "adopt")
  /\ Answer(c)
  /\ readyNow' = IF TaskAt(c, "import") \/ TaskAt(c, "adopt") THEN readyNow \ {task[c].acct} ELSE readyNow
  /\ UNCHANGED <<acctRow, primaryRow, authorised, managers, mclient, loops>>

CountRows(c) ==
  /\ TaskAt(c, "count")
  /\ task' = [task EXCEPT ![c].first = (Registered = {}), ![c].todo = Tail(@)]
  /\ UNCHANGED <<acctRow, primaryRow, authorised, managers, readyNow, mclient, loops>>

WriteRow(c) ==
  LET a == task[c].acct
  IN  /\ Busy(c)
      /\ \/ /\ TaskAt(c, "insert") /\ acctRow[a] = "absent"
            /\ acctRow' = [acctRow EXCEPT ![a] = "on"]
            /\ primaryRow' = IF task[c].first THEN primaryRow \cup {a} ELSE primaryRow
         \/ /\ TaskAt(c, "enable") \/ TaskAt(c, "adopt")
            /\ acctRow[a] # "absent"
            /\ acctRow' = [acctRow EXCEPT ![a] = "on"] /\ UNCHANGED primaryRow
         \/ /\ TaskAt(c, "disable") /\ acctRow[a] # "absent"
            /\ acctRow' = [acctRow EXCEPT ![a] = "off"] /\ UNCHANGED primaryRow
         \/ /\ TaskAt(c, "delete") /\ acctRow[a] # "absent"
            /\ acctRow' = [acctRow EXCEPT ![a] = "absent"] /\ primaryRow' = primaryRow \ {a}
      /\ Do(c, Rest(c))
      /\ UNCHANGED <<authorised, managers, readyNow, mclient, loops>>

\* reload and start, once the request gets to them.  SetProxy and Update start
\* nothing when the account is not loaded.
Enter(c) ==
  /\ \/ TaskAt(c, "reload") /\ Expand(c, Reload)
     \/ TaskAt(c, "start") /\ Expand(c, IF task[c].acct \in managers THEN Start ELSE <<>>)
  /\ UNCHANGED <<acctRow, primaryRow, authorised, managers, readyNow, mclient, loops>>

\* reload reads the rows before it takes the lock.
ListAccounts(c) ==
  /\ TaskAt(c, "list")
  /\ task' = [task EXCEPT ![c].rows = Enabled, ![c].todo = Tail(@)]
  /\ UNCHANGED <<acctRow, primaryRow, authorised, managers, readyNow, mclient, loops>>

\* Managers of accounts that stay are kept, new ones made, the others stopped.
Cancelled(S) ==
  [a \in TgAccounts |-> [n \in Runs |->
     IF a \in S /\ n = mclient[a] /\ loops[a][n] = "live" THEN "cancelled" ELSE loops[a][n]]]
Disconnected(S) == [a \in TgAccounts |-> IF a \in S THEN 0 ELSE mclient[a]]

InstallManager(c) ==
  LET stale == managers \ task[c].rows
  IN  /\ TaskAt(c, "install")
      /\ managers' = task[c].rows
      /\ readyNow' = readyNow \cap task[c].rows
      /\ mclient' = Disconnected(stale) /\ loops' = Cancelled(stale)
      /\ Do(c, Rest(c))
      /\ UNCHANGED <<acctRow, primaryRow, authorised>>

\* Stop: the client is taken off the manager and its loop cancelled.  The state
\* stays what it was.
Stop(c) ==
  /\ TaskAt(c, "stop")
  /\ mclient' = Disconnected({task[c].acct}) /\ loops' = Cancelled({task[c].acct})
  /\ Do(c, Rest(c))
  /\ UNCHANGED <<acctRow, primaryRow, authorised, managers, readyNow>>

\* Stop waits for the loop, ten seconds at most.
StopWaited(c) ==
  /\ TaskAt(c, "wait") /\ Do(c, Rest(c))
  /\ UNCHANGED <<acctRow, primaryRow, authorised, managers, readyNow, mclient, loops>>

\* AuthLogOut, whose failure is only logged, and the session file.
RevokeSession(c) ==
  /\ TaskAt(c, "logout") \/ TaskAt(c, "unlink")
  /\ \/ authorised' = authorised \ {task[c].acct}
     \/ TaskAt(c, "logout") /\ UNCHANGED authorised
  /\ Do(c, Rest(c))
  /\ UNCHANGED <<acctRow, primaryRow, managers, readyNow, mclient, loops>>

\* Telegram accepts the code or the password; an imported session may be valid.
GainSession(c) ==
  /\ TaskAt(c, "signin") \/ TaskAt(c, "import")
  /\ \/ authorised' = authorised \cup {task[c].acct}
     \/ TaskAt(c, "import") /\ authorised' = authorised \ {task[c].acct}
  /\ Do(c, Rest(c))
  /\ UNCHANGED <<acctRow, primaryRow, managers, readyNow, mclient, loops>>

\* start makes a client and a run loop; a proxy it cannot use is an error.
Dial(c) ==
  LET a == task[c].acct
  IN  /\ TaskAt(c, "dial")
      /\ \/ /\ Answer(c) /\ readyNow' = readyNow \ {a}
            /\ UNCHANGED <<mclient, loops>>
         \/ \E n \in Runs :
              /\ loops[a][n] = "gone" /\ \A k \in 1..(n - 1) : loops[a][k] # "gone"
              /\ loops' = [loops EXCEPT ![a][n] = "live"]
              /\ mclient' = [mclient EXCEPT ![a] = n]
              /\ readyNow' = readyNow \ {a}
              /\ Do(c, Rest(c))
      /\ UNCHANGED <<acctRow, primaryRow, authorised, managers>>

\* The loop reports that it is connected, or that it failed.
Connect(c) ==
  LET a == task[c].acct
  IN  /\ TaskAt(c, "connect")
      /\ IF mclient[a] # 0 /\ loops[a][mclient[a]] = "live" THEN Do(c, Rest(c)) ELSE Answer(c)
      /\ UNCHANGED <<acctRow, primaryRow, authorised, managers, readyNow, mclient, loops>>

\* The same, with the loop of the client left running.
ConnectTimeout_Left(c) ==
  /\ TaskAt(c, "connect") /\ Answer(c)
  /\ mclient' = Disconnected({task[c].acct})
  /\ UNCHANGED <<acctRow, primaryRow, authorised, managers, readyNow, loops>>

\* Forty-five seconds pass, or the client hangs up.
ConnectTimeout(c) ==
  /\ TaskAt(c, "connect") /\ Do(c, <<"stop", "wait">>)
  /\ UNCHANGED <<acctRow, primaryRow, authorised, managers, readyNow, mclient, loops>>

\* refreshAuth, the last step of its requests, asks Telegram whether the session
\* is signed in: without a client nothing, a call that fails counts as signed out.
RefreshAuth(c) ==
  LET a == task[c].acct
  IN  /\ TaskAt(c, "auth")
      /\ \/ mclient[a] = 0 /\ Answer(c)
         \/ mclient[a] # 0 /\ Do(c, <<"refused">>)
         \/ /\ mclient[a] # 0 /\ a \in authorised /\ loops[a][mclient[a]] = "live"
            /\ Do(c, <<"accepted">>)
      /\ UNCHANGED <<acctRow, primaryRow, authorised, managers, readyNow, mclient, loops>>

\* It writes the answer to its manager, whatever the run loop did meanwhile.
SettleAuth(c) ==
  LET a == task[c].acct
  IN  /\ \/ TaskAt(c, "accepted") /\ readyNow' = readyNow \cup ({a} \cap managers)
         \/ TaskAt(c, "refused") /\ readyNow' = readyNow \ {a}
      /\ Answer(c)
      /\ UNCHANGED <<acctRow, primaryRow, authorised, managers, mclient, loops>>

\* A run loop returns: cancelled, or with an error it writes to its manager,
\* which may be one that was dropped since.
LoopEnds(a, n) ==
  /\ loops[a][n] # "gone"
  /\ loops' = [loops EXCEPT ![a][n] = "gone"]
  /\ \/ loops[a][n] = "cancelled" /\ UNCHANGED readyNow
     \/ readyNow' = readyNow \ {a}
  /\ UNCHANGED <<acctRow, primaryRow, authorised, managers, mclient, task>>

\* The server stops, in the middle of a request or not, and starts again:
\* SeedPrimaryAccount adopts stored credentials when no account is registered,
\* New loads the enabled accounts and Start dials them, some without success, and
\* asks whether they are signed in; some loops have ended when the answer is there.
ClusterRestart ==
  /\ \E seed \in {{}} \cup {{a} : a \in TgAccounts} :
       /\ seed # {} => Registered = {}
       /\ acctRow' = [a \in TgAccounts |-> IF a \in seed THEN "on" ELSE acctRow[a]]
       /\ primaryRow' = primaryRow \cup seed
  /\ managers' = {a \in TgAccounts : acctRow'[a] = "on"}
  /\ \E up \in SUBSET managers' : \E running \in SUBSET up, accepted \in SUBSET (up \cap authorised) :
       /\ mclient' = [a \in TgAccounts |-> IF a \in up THEN 1 ELSE 0]
       /\ loops' = [a \in TgAccounts |->
                      [n \in Runs |-> IF a \in running /\ n = 1 THEN "live" ELSE "gone"]]
       /\ readyNow' = accepted
  /\ task' = [c \in TgCallers |-> NoTask]
  /\ UNCHANGED authorised

CallerStep(c) ==
  \/ Fails(c) \/ CountRows(c) \/ WriteRow(c) \/ Enter(c) \/ ListAccounts(c) \/ InstallManager(c)
  \/ Stop(c) \/ StopWaited(c) \/ RevokeSession(c) \/ GainSession(c)
  \/ Dial(c) \/ Connect(c) \/ ConnectTimeout(c)
  \/ RefreshAuth(c) \/ SettleAuth(c)

ClusterNext ==
  \/ \E c \in TgCallers, a \in TgAccounts :
       \/ Add(c, a) \/ Remove(c, a) \/ SetProxy(c, a) \/ Configure(c, a)
       \/ SignIn(c, a) \/ LogOut(c, a) \/ ImportSession(c, a)
       \/ \E on \in BOOLEAN : Update(c, a, on)
  \/ \E c \in TgCallers : CallerStep(c)
  \/ \E a \in TgAccounts, n \in Runs : LoopEnds(a, n)
  \/ ClusterRestart

ClusterSpec == ClusterInit /\ [][ClusterNext]_clusterVars

(***************************************************************************)
(* Properties.                                                             *)
(***************************************************************************)
\* An account has one connection at most, it is the one its loaded manager would
\* stop, and so no reload, timeout or hang-up leaves a run loop that nothing can
\* cancel any more (Manager.start, Stop, Cluster.reload): two clients would write
\* each other's auth key into one session file.
OneConnection ==
  \A a \in TgAccounts, n \in Runs :
    loops[a][n] = "live" => a \in managers /\ mclient[a] = n

\* An account that counts as signed in and has a client has a session Telegram
\* accepts, except while the request that ends the session is about to stop the
\* client: no log-out, import or failed dial leaves a client that is offered for
\* transfers after its session is gone (refreshAuth, logOut, start).  A manager
\* without a client, and a run loop that has ended, are not excluded: ReadyIsUsable.
ReadyHasSession ==
  \A a \in readyNow :
    \/ mclient[a] = 0
    \/ a \in authorised
    \/ \E c \in TgCallers : task[c].acct = a /\ TaskAt(c, "stop")

\* "StateReady means signed in and usable" (client.go), while no request for the
\* account is under way: violated, since Stop leaves the state as it is and
\* refreshAuth writes it over that of a run loop that ended meanwhile.
ReadyIsUsable ==
  \A a \in readyNow :
    (\A c \in TgCallers : task[c].acct # a)
      => mclient[a] # 0 /\ a \in authorised /\ loops[a][mclient[a]] = "live"

\* While any account is registered one of them is enabled, so a drive that has
\* an account keeps one that can carry transfers (ErrLastAccount in Remove and
\* Update), and one account at most claims to be the primary (Add).
AccountRemains ==
  /\ Registered # {} => Enabled # {}
  /\ Cardinality(primaryRow) <= 1

\* One administrator at a time keeps every account on one connection, offered only
\* with its session, and one account enabled (the invariants above).
ClusterSound == OneConnection /\ ReadyHasSession /\ AccountRemains
=============================================================================
