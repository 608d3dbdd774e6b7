----------------------------- MODULE Membership -----------------------------
(***************************************************************************)
(* Which accounts may store into the channel (internal/tgc/cluster.go from *)
(* RefreshReadyChannels on, invite.go and backend.go,                      *)
(* internal/api/telegram.go and accounts.go,                               *)
(* internal/database/accounts.go and settings.go): the rows of             *)
(* channel_accounts, the default channel, and Manager.channelReady, which  *)
(* the scheduler reads.  Membership itself is Telegram's and may change at *)
(* any time.                                                               *)
(*                                                                         *)
(* Checks of the whole cluster and of one account, joins, links and the    *)
(* admission after a channel was chosen hold channelStateMu; choosing the  *)
(* channel and the lookups of a transfer do not.  A step is one Telegram   *)
(* call, one statement or one store.  The accounts of one request are done *)
(* one after the other.  Access hashes are not modelled: FindChannel falls *)
(* back to the account's own list, so they decide nothing about its        *)
(* answer; rememberChannelDetails and UpsertChannel only store them.       *)
(* Whether a manager is signed in is not kept either: any call on it may   *)
(* fail, and a check may pass over it.                                     *)
(***************************************************************************)
EXTENDS Integers, FiniteSets

CONSTANTS Members,    \* loaded accounts
          Lead,       \* the primary one
          Channels,   \* channels
          Requests,   \* requests of the administrator at a time
          Pollers,    \* checks after a sign-in or a poll of the accounts page
          Transfers   \* lookups of uploads and downloads

ASSUME LeadAssumption == Lead \in Members
ASSUME ProcessesAssumption ==
  Requests \cap Pollers = {} /\ Transfers \cap (Requests \cup Pollers) = {}

VARIABLES canPost,     \* channel_accounts: the channels an account's rows let it post to
          defaultChan, \* the default channel, or "none"
          usable,      \* accounts with channelReady
          stateMu,     \* whether channelStateMu is held
          job,         \* what each process is in the middle of
          touched      \* accounts a transfer asked about since the last locked reset

memberVars == <<canPost, defaultChan, usable, stateMu, job, touched>>

Processes == Requests \cup Pollers \cup Transfers
NoJob == [pc |-> "idle", kind |-> "none", todo |-> {}, channel |-> "none", member |-> "none", rank |-> "none"]

MemberInit ==
  /\ canPost = [m \in Members |-> {}]
  /\ defaultChan = "none" /\ usable = {}
  /\ stateMu = FALSE /\ job = [p \in Processes |-> NoJob] /\ touched = {}

SetJob(p, step) == job' = [job EXCEPT ![p] = step]

\* What FindChannel answers: an error, or the account's own view, which anybody
\* may have changed in a Telegram client since it was last asked.
Answers == {"error", "out", "reader", "poster"}

SetReady(m, rank) == usable' = IF rank = "poster" THEN usable \cup {m} ELSE usable \ {m}
WriteAccess(m, k, rank) ==
  canPost' = [canPost EXCEPT ![m] = IF rank = "poster" THEN @ \cup {k} ELSE @ \ {k}]

\* The same, with the flag left as it was.
ResetChecks_Kept(S) == UNCHANGED <<usable, touched>>

\* resetChannelCheck of a request that holds the lock.
ResetChecks(S) ==
  /\ usable' = usable \ S
  /\ touched' = touched \ {m \in S : \A t \in Transfers : job[t].member # m}

(***************************************************************************)
(* Sign-in.                                                                *)
(***************************************************************************)
\* start and Stop reset the flag.
SignsInOrOut(m) ==
  /\ m \in usable
  /\ usable' = usable \ {m}
  /\ UNCHANGED <<canPost, defaultChan, stateMu, job, touched>>

(***************************************************************************)
(* Checks and admissions under the lock.                                   *)
(***************************************************************************)
\* RefreshReadyChannels, and CheckChannel for one account: the default channel
\* is read under the lock.
CheckBegins(p, S, forced) ==
  /\ job[p] = NoJob /\ ~stateMu
  /\ IF defaultChan = "none"
     THEN /\ usable' = IF forced THEN usable ELSE usable \ S
          /\ UNCHANGED <<stateMu, job, touched>>
     ELSE /\ stateMu' = TRUE
          /\ IF forced THEN ResetChecks(S) ELSE UNCHANGED <<usable, touched>>
          /\ SetJob(p, [NoJob EXCEPT !.pc = "next", !.kind = "check", !.todo = S, !.channel = defaultChan])
  /\ UNCHANGED <<canPost, defaultChan>>

\* JoinChannel and LinkChannel, with the default channel their handler read
\* before.
JoinBegins(p, m) ==
  /\ job[p] = NoJob /\ defaultChan # "none"
  /\ SetJob(p, [NoJob EXCEPT !.pc = "lock", !.kind = "join", !.todo = {m}, !.channel = defaultChan])
  /\ UNCHANGED <<canPost, defaultChan, usable, stateMu, touched>>

JoinLocks(p) ==
  /\ job[p].pc = "lock" /\ ~stateMu /\ stateMu' = TRUE
  /\ SetJob(p, [job[p] EXCEPT !.pc = "next"])
  /\ UNCHANGED <<canPost, defaultChan, usable, touched>>

\* The request goes on to its next account, or lets the lock go.
NextAccount(p, o) ==
  IF o.todo = {} THEN SetJob(p, NoJob) /\ stateMu' = FALSE
  ELSE SetJob(p, [o EXCEPT !.pc = "next", !.member = "none", !.rank = "none"]) /\ UNCHANGED stateMu

\* One account of the request: a check passes over an account that is not
\* signed in or was checked lately, a join resets the account first.
AskAccount(p, m) ==
  LET o == [job[p] EXCEPT !.todo = @ \ {m}, !.member = m]
  IN  /\ job[p].pc = "next" /\ m \in job[p].todo
      /\ IF o.kind = "join" THEN ResetChecks({m})
         ELSE usable' \in {usable, usable \ {m}} /\ UNCHANGED touched
      /\ \/ /\ \E answer \in Answers : SetJob(p, [o EXCEPT !.pc = "answer", !.rank = answer])
            /\ UNCHANGED stateMu
         \/ o.kind = "check" /\ NextAccount(p, o)
      /\ UNCHANGED <<canPost, defaultChan>>

\* refreshAccountChannel without an answer, or with one that says "not in".
CheckRefused(p) ==
  LET o == job[p]
  IN  /\ o.kind = "check" /\ o.pc = "answer"
      /\ usable' = usable \ {o.member}
      /\ \/ o.rank = "error" /\ NextAccount(p, o)
         \/ o.rank = "out" /\ SetJob(p, [o EXCEPT !.pc = "forget"]) /\ UNCHANGED stateMu
      /\ UNCHANGED <<canPost, defaultChan, touched>>

\* DeleteChannelAccess, whose failure is only logged.
ForgetRow(p) ==
  LET o == job[p]
  IN  /\ o.pc = "forget"
      /\ WriteAccess(o.member, o.channel, "out") \/ UNCHANGED canPost
      /\ IF p \in Transfers THEN SetJob(p, NoJob) /\ UNCHANGED stateMu ELSE NextAccount(p, o)
      /\ UNCHANGED <<defaultChan, usable, touched>>

\* joinChannel: the primary invites an account that is not in the channel, if it
\* is in it itself and Telegram lets it.
JoinRefused(p) ==
  LET o == job[p]
  IN  /\ o.kind = "join" /\ o.pc = "answer" /\ o.rank \in {"error", "out"}
      /\ \/ NextAccount(p, o)
         \/ /\ o.rank = "out" /\ o.member # Lead
            /\ SetJob(p, [o EXCEPT !.rank = "reader"]) /\ UNCHANGED stateMu
      /\ UNCHANGED <<canPost, defaultChan, usable, touched>>

\* UpsertChannelAccess of refreshAccountChannel and recordMembership; when it
\* fails the account is not usable, and a reader is promoted all the same.
Record(p) ==
  LET o == job[p]
      promote == o.kind = "join" /\ o.rank = "reader"
      next == [o EXCEPT !.pc = IF promote THEN "grant" ELSE "settle"]
  IN  /\ o.pc = "answer" /\ o.rank \in {"reader", "poster"} /\ p \notin Transfers
      /\ \/ /\ WriteAccess(o.member, o.channel, o.rank) /\ SetJob(p, next)
            /\ UNCHANGED <<usable, stateMu>>
         \/ /\ usable' = usable \ {o.member} /\ UNCHANGED canPost
            /\ IF promote THEN SetJob(p, next) /\ UNCHANGED stateMu ELSE NextAccount(p, o)
      /\ UNCHANGED <<defaultChan, touched>>

\* recordMembership has the primary promote a reader, itself excepted, and
\* records the membership again.
Grant(p) ==
  LET o == job[p]
  IN  /\ o.pc = "grant" /\ usable' = usable \ {o.member}
      /\ \/ NextAccount(p, o)
         \/ /\ o.member # Lead
            /\ SetJob(p, [o EXCEPT !.pc = "answer", !.rank = "poster"]) /\ UNCHANGED stateMu
      /\ UNCHANGED <<canPost, defaultChan, touched>>

\* setChannelReady with what was recorded.
Settle(p) ==
  LET o == job[p]
  IN  /\ o.pc = "settle"
      /\ SetReady(o.member, o.rank)
      /\ IF p \in Transfers THEN SetJob(p, NoJob) /\ UNCHANGED stateMu ELSE NextAccount(p, o)
      /\ UNCHANGED <<canPost, defaultChan, touched>>

(***************************************************************************)
(* Choosing the channel.                                                   *)
(***************************************************************************)
\* handleSelectChannel, after the primary's FindChannel said it can post, and
\* handleCreateChannel, after CreateChannel made a channel of its own.
SelectChannel(p, k) ==
  /\ job[p] = NoJob
  /\ SetJob(p, [NoJob EXCEPT !.pc = "choose", !.channel = k])
  /\ UNCHANGED <<canPost, defaultChan, usable, stateMu, touched>>

\* SetDefaultChannel, then JoinAll.
SetDefaultChannel(p) ==
  /\ job[p].pc = "choose"
  /\ \/ /\ defaultChan' = job[p].channel
        /\ SetJob(p, [job[p] EXCEPT !.pc = "lock", !.kind = "join", !.todo = Members])
     \/ UNCHANGED defaultChan /\ SetJob(p, NoJob)
  /\ UNCHANGED <<canPost, usable, stateMu, touched>>

(***************************************************************************)
(* Transfers, which take no lock.                                          *)
(***************************************************************************)
\* ChannelRef of a file's channel: a fresh row is believed, otherwise the
\* account is asked.
ChannelRef(t, m, k) ==
  LET o == [NoJob EXCEPT !.kind = "ref", !.member = m, !.channel = k]
  IN  /\ job[t] = NoJob /\ touched' = touched \cup {m}
      /\ \/ SetJob(t, [o EXCEPT !.pc = "settle", !.rank = IF k \in canPost[m] THEN "poster" ELSE "reader"])
         \/ \E answer \in Answers : SetJob(t, [o EXCEPT !.pc = "answer", !.rank = answer])
      /\ UNCHANGED <<canPost, defaultChan, usable, stateMu>>

\* The rest of ChannelRef after FindChannel.
RefAnswered(t) ==
  LET o == job[t]
  IN  /\ o.pc = "answer" /\ t \in Transfers
      /\ \/ /\ o.rank \in {"error", "out"} /\ usable' = usable \ {o.member} /\ UNCHANGED canPost
            /\ SetJob(t, IF o.rank = "out" THEN [o EXCEPT !.pc = "forget"] ELSE NoJob)
         \/ /\ o.rank \in {"reader", "poster"}
            /\ WriteAccess(o.member, o.channel, o.rank) /\ UNCHANGED usable
            /\ SetJob(t, [o EXCEPT !.pc = "settle"])
         \/ /\ o.rank \in {"reader", "poster"}
            /\ usable' = usable \ {o.member} /\ UNCHANGED canPost /\ SetJob(t, NoJob)
      /\ UNCHANGED <<defaultChan, stateMu, touched>>

MemberNext ==
  \/ \E m \in Members : SignsInOrOut(m)
  \/ \E p \in Pollers : CheckBegins(p, Members, FALSE)
  \/ \E p \in Requests :
       \/ JoinLocks(p) \/ JoinRefused(p) \/ Grant(p) \/ SetDefaultChannel(p)
       \/ \E k \in Channels : SelectChannel(p, k)
       \/ \E m \in Members : CheckBegins(p, {m}, TRUE) \/ JoinBegins(p, m)
  \/ \E p \in Requests \cup Pollers :
       \/ CheckRefused(p) \/ Record(p)
       \/ \E m \in Members : AskAccount(p, m)
  \/ \E p \in Processes : ForgetRow(p) \/ Settle(p)
  \/ \E t \in Transfers :
       \/ RefAnswered(t)
       \/ \E m \in Members, k \in Channels : ChannelRef(t, m, k)

MemberSpec == MemberInit /\ [][MemberNext]_memberVars

(***************************************************************************)
(* Properties.                                                             *)
(***************************************************************************)
\* The admission that follows a choice of channel has not come to m yet, or what
\* was just recorded about m is about to become its flag.
InTransit(m) ==
  \E p \in Requests \cup Pollers :
    \/ job[p].kind = "join" /\ m \in job[p].todo
    \/ job[p].pc = "settle" /\ m = job[p].member

\* An account the scheduler may use has been recorded as able to post to the
\* channel that is the default now, however choices of a channel, checks, joins
\* and sign-ins interleave, unless the admission that follows a choice has still
\* to reach it or a transfer's own lookup has written the flag (RefreshReadyChannels,
\* joinChannel, recordMembership, Manager.ChannelReady).
UsableOnDefault ==
  \A m \in usable \ touched :
    InTransit(m) \/ defaultChan \in canPost[m]
=============================================================================
