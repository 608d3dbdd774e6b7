------------------------------- MODULE Scheduler -------------------------------
(***************************************************************************)
(* How a transfer gets its task slot and its Telegram account, and what it *)
(* is charged for (internal/drive/schedule.go, quota.go): the loop of      *)
(* Service.acquire over the global limiter of one direction and the daily  *)
(* budgets of the accounts.  One step is one critical section, one wait or *)
(* one database write.  The limiter is used through its promise (see       *)
(* Admission): at most Slots owners, every waiter served in time.          *)
(***************************************************************************)
EXTENDS Integers, FiniteSets, FiniteSetsExt, Functions

CONSTANTS
  Tasks,        \* goroutines that call leaseUpload or leaseDownload
  NumAccounts,  \* accounts of the cluster; 1 is the primary
  Slots,        \* the configured concurrency
  Quotas,       \* values of the daily limit; 0 is no limit
  Sizes,        \* expected sizes of contents; 0 is unknown
  Charges,      \* what a transfer may report to have moved: a download reports
                \* every range it served, what was read twice included
  MaxDays,      \* bound: UTC days
  MaxUsed,      \* bound: usage of an account above which nobody comes
  MaxChanges,   \* bound: changes of health or of a quota
  MaxRestarts   \* bound: restarts of the server

ASSUME TasksAssumption == IsFiniteSet(Tasks)
ASSUME NumAccountsAssumption == NumAccounts \in Nat \ {0}
ASSUME SlotsAssumption == Slots \in Nat \ {0}
ASSUME QuotasAssumption == Quotas \subseteq Nat /\ Quotas # {}
ASSUME SizesAssumption == Sizes \subseteq Nat /\ Sizes # {} /\ IsFiniteSet(Sizes)
ASSUME ChargesAssumption == Charges \subseteq Nat
ASSUME BoundsAssumption ==
  MaxDays \in Nat \ {0} /\ MaxUsed \in Nat /\ MaxChanges \in Nat /\ MaxRestarts \in Nat

VARIABLES
  today,      \* the UTC day, quotaDate
  quota,      \* per account: its daily limit
  available,  \* accounts that are signed in and not cooling down
  used,       \* per account and day: quotaTracker.used
  reserved,   \* per account and day: quotaTracker.reserved
  stored,     \* per account and day: the usage row in the database
  loaded,     \* accounts and days whose usage was read from the database
  failed,     \* accounts and days a statement failed for: usage that could not be
              \* stored, or a transfer booked on one that could not be read
  beyond,     \* per account and day: what commits charged above the booked size
  pc,         \* per task: its next step
  size,       \* per task: the expected size of its content
  fresh,      \* tasks whose observed quota generation is still the current one
  chosen,     \* per task: the account picked for it, 0 for none
  day,        \* per task: the day its reservation is booked on
  actual,     \* per task: the bytes its commit charged and has still to store
  changes,    \* number of health and quota changes so far
  restarts    \* number of restarts so far

ledger == <<used, reserved, stored, loaded, failed, beyond>>
world == <<today, quota, available, changes, restarts>>
vars == <<world, ledger, pc, size, fresh, chosen, day, actual>>

Accounts == 1..NumAccounts
Days == 1..MaxDays
Steps == {"idle", "observe", "choose", "sleep", "quotaWait", "accountWait", "slotWait",
          "rechoose", "reserve", "held", "store", "return"}

\* The tasks that own a slot of the limiter.
Owners == {t \in Tasks : pc[t] \in {"rechoose", "reserve", "held", "store", "return"}}

\* The tasks with an uncommitted reservation on account a and day d.
Reservers(a, d) == {t \in Tasks : pc[t] = "held" /\ chosen[t] = a /\ day[t] = d}

\* Nothing, per account and day.
Nothing == [a \in Accounts |-> [d \in Days |-> 0]]

Init ==
  /\ today = 1
  /\ quota \in [Accounts -> Quotas]
  /\ available \in SUBSET Accounts
  /\ used = Nothing
  /\ reserved = Nothing
  /\ stored = Nothing
  /\ loaded = {} /\ failed = {}
  /\ beyond = Nothing
  /\ pc = [t \in Tasks |-> "idle"]
  /\ size = [t \in Tasks |-> 0]
  /\ fresh = {}
  /\ chosen = [t \in Tasks |-> 0]
  /\ day = [t \in Tasks |-> 1]
  /\ actual = [t \in Tasks |-> 0]
  /\ changes = 0
  /\ restarts = 0

Goto(t, step) == pc' = [pc EXCEPT ![t] = step]

------------------------------------------------------------------------------
(* The daily budget, quotaTracker.                                         *)

\* ensureLoadedLocked, which every look at an account begins with: the first one
\* of a day reads the usage row.  A look at one that is not loaded stands for a
\* failed read, which is only warned about.
Load(a) ==
  /\ <<a, today>> \notin loaded
  /\ loaded' = loaded \cup {<<a, today>>}
  /\ used' = [used EXCEPT ![a][today] = stored[a][today]]
  /\ UNCHANGED <<world, reserved, stored, failed, beyond, pc, size, fresh, chosen, day, actual>>

\* mayStart: a content may cross the boundary only when it is alone.
MayStart(a, n) ==
  LET u == used[a][today]
      r == reserved[a][today]
  IN  \/ n = 0 \/ quota[a] = 0
      \/ u < quota[a] /\ r < quota[a] - u /\ (n <= quota[a] - u - r \/ r = 0)

\* fits: the whole content is covered by what remains.
Fits(a, n) ==
  LET u == used[a][today]
      r == reserved[a][today]
  IN  \/ n = 0 \/ quota[a] = 0
      \/ u < quota[a] /\ r < quota[a] - u /\ n <= quota[a] - u - r

\* The reservation relies on the choice made before.
Reserves_Unchecked(a, n) == TRUE

\* reserve makes the same test as mayStart under the lock it books under.
Reserves(a, n) == MayStart(a, n)

\* firstAccountForTransfer: the first usable account that fits the content,
\* else the first that may start it.
FirstAccount(n) ==
  LET usable == {a \in available : MayStart(a, n)}
      fitting == {a \in usable : Fits(a, n)}
  IN  IF fitting # {} THEN Min(fitting) ELSE IF usable # {} THEN Min(usable) ELSE 0

------------------------------------------------------------------------------
(* Service.acquire.                                                        *)

Call(t, n) ==
  /\ pc[t] = "idle" /\ \A a \in Accounts : used[a][today] + stored[a][today] <= MaxUsed
  /\ size' = [size EXCEPT ![t] = n]
  /\ Goto(t, "observe")
  /\ UNCHANGED <<world, ledger, fresh, chosen, day, actual>>

\* generationNow, before the accounts are looked at.
Observe(t) ==
  /\ pc[t] = "observe"
  /\ fresh' = fresh \cup {t}
  /\ Goto(t, "choose")
  /\ UNCHANGED <<world, ledger, size, chosen, day, actual>>

\* The first choice only says whether there is something to queue for.
Choose(t) ==
  /\ pc[t] = "choose"
  /\ Goto(t, IF FirstAccount(size[t]) # 0 THEN "slotWait"
             ELSE IF available = {} THEN "accountWait" ELSE "sleep")
  /\ UNCHANGED <<world, ledger, size, fresh, chosen, day, actual>>

\* quota.wait goes to sleep whatever happened since the accounts were looked at.
QuotaSleep_Blind(t) ==
  /\ pc[t] = "sleep"
  /\ fresh' = fresh \cup {t}
  /\ Goto(t, "quotaWait")
  /\ UNCHANGED <<world, ledger, size, chosen, day, actual>>

\* quota.wait's critical section: a generation that is no longer the observed
\* one ends it at once; otherwise it takes the channel of the current one and
\* sets its timer, to the next midnight from now.
QuotaSleep(t) ==
  /\ pc[t] = "sleep"
  /\ Goto(t, IF t \in fresh THEN "quotaWait" ELSE "observe")
  /\ UNCHANGED <<world, ledger, size, fresh, chosen, day, actual>>

\* The select: the channel was closed by a signal, or the timer has fired.
QuotaWait(t) ==
  /\ pc[t] = "quotaWait" /\ t \notin fresh
  /\ Goto(t, "observe")
  /\ UNCHANGED <<world, ledger, size, fresh, chosen, day, actual>>

\* The 250 ms poll: this wait always ends.
AccountWait(t) ==
  /\ pc[t] = "accountWait"
  /\ Goto(t, "observe")
  /\ UNCHANGED <<world, ledger, size, fresh, chosen, day, actual>>

\* limiter.acquire.
TakeSlot(t) ==
  /\ pc[t] = "slotWait" /\ Cardinality(Owners) < Slots
  /\ Goto(t, "rechoose")
  /\ UNCHANGED <<world, ledger, size, fresh, chosen, day, actual>>

\* The context ends a wait.
GiveUp(t) ==
  /\ pc[t] \in {"quotaWait", "accountWait", "slotWait"}
  /\ Goto(t, "idle")
  /\ size' = [size EXCEPT ![t] = 0]
  /\ fresh' = fresh \ {t}
  /\ UNCHANGED <<world, ledger, chosen, day, actual>>

\* With the slot, choose again; without an account the slot goes back.
Rechoose(t) ==
  /\ pc[t] = "rechoose"
  /\ chosen' = [chosen EXCEPT ![t] = FirstAccount(size[t])]
  /\ Goto(t, IF FirstAccount(size[t]) = 0 THEN "observe" ELSE "reserve")
  /\ UNCHANGED <<world, ledger, size, fresh, day, actual>>

\* reserveQuota: the budget is booked on today, or the slot goes back.
Reserve(t) ==
  LET a == chosen[t] IN
  /\ pc[t] = "reserve"
  /\ IF Reserves(a, size[t])
       THEN /\ reserved' = [reserved EXCEPT ![a][today] = @ + size[t]]
            /\ failed' = IF <<a, today>> \in loaded THEN failed ELSE failed \cup {<<a, today>>}
            /\ day' = [day EXCEPT ![t] = today]
            /\ Goto(t, "held")
            /\ UNCHANGED chosen
       ELSE /\ Goto(t, "observe")
            /\ chosen' = [chosen EXCEPT ![t] = 0]
            /\ UNCHANGED <<reserved, failed, day>>
  /\ UNCHANGED <<world, used, stored, loaded, beyond, size, fresh, actual>>

\* quotaReservation.commit with n bytes reported, or the booked size when
\* nothing was: the reservation ends, the bytes count, every waiter is signalled.
Commit(t, n) ==
  LET a == chosen[t] IN
  /\ pc[t] = "held"
  /\ reserved' = [reserved EXCEPT ![a][day[t]] = IF @ >= size[t] THEN @ - size[t] ELSE 0]
  /\ used' = [used EXCEPT ![a][day[t]] = @ + n]
  /\ beyond' = [beyond EXCEPT ![a][day[t]] = IF n > size[t] THEN @ + (n - size[t]) ELSE @]
  /\ fresh' = {}
  /\ actual' = [actual EXCEPT ![t] = n]
  /\ Goto(t, "store")
  /\ UNCHANGED <<world, stored, loaded, failed, size, chosen, day>>

\* AddTelegramUsage, outside the lock.
Store(t) ==
  /\ pc[t] = "store"
  /\ stored' = [stored EXCEPT ![chosen[t]][day[t]] = @ + actual[t]]
  /\ actual' = [actual EXCEPT ![t] = 0]
  /\ Goto(t, "return")
  /\ UNCHANGED <<world, used, reserved, loaded, failed, beyond, size, fresh, chosen, day>>

\* It fails, which is only warned about.
StoreFails(t) ==
  /\ pc[t] = "store" /\ actual[t] > 0
  /\ failed' = failed \cup {<<chosen[t], day[t]>>}
  /\ actual' = [actual EXCEPT ![t] = 0]
  /\ Goto(t, "return")
  /\ UNCHANGED <<world, used, reserved, stored, loaded, beyond, size, fresh, chosen, day>>

\* The slot is returned last.
ReturnSlot(t) ==
  /\ pc[t] = "return"
  /\ Goto(t, "idle")
  /\ size' = [size EXCEPT ![t] = 0]
  /\ chosen' = [chosen EXCEPT ![t] = 0]
  /\ day' = [day EXCEPT ![t] = 1]
  /\ UNCHANGED <<world, ledger, fresh, actual>>

------------------------------------------------------------------------------
\* Midnight UTC: the timers of those that sleep in quota.wait fire.
Midnight ==
  /\ today < MaxDays
  /\ today' = today + 1
  /\ fresh' = {t \in fresh : pc[t] # "quotaWait"}
  /\ UNCHANGED <<quota, available, changes, restarts, ledger, pc, size, chosen, day, actual>>

\* An account signs in or out, hits a FLOOD_WAIT or recovers from one.
HealthChanges(a) ==
  /\ changes < MaxChanges
  /\ changes' = changes + 1
  /\ available' = IF a \in available THEN available \ {a} ELSE available \cup {a}
  /\ UNCHANGED <<today, quota, restarts, ledger, pc, size, fresh, chosen, day, actual>>

\* An administrator changes a limit: NotifyQuotaChanged signals the tracker.
SetQuota(a, q) ==
  /\ changes < MaxChanges /\ q # quota[a]
  /\ changes' = changes + 1
  /\ quota' = [quota EXCEPT ![a] = q]
  /\ fresh' = {}
  /\ UNCHANGED <<today, available, restarts, ledger, pc, size, chosen, day, actual>>

\* The server stops at any point and starts again: only the rows are kept.
Restart ==
  /\ restarts < MaxRestarts
  /\ restarts' = restarts + 1
  /\ used' = Nothing /\ reserved' = Nothing /\ loaded' = {}
  /\ pc' = [t \in Tasks |-> "idle"]
  /\ size' = [t \in Tasks |-> 0]
  /\ fresh' = {}
  /\ chosen' = [t \in Tasks |-> 0]
  /\ day' = [t \in Tasks |-> 1]
  /\ actual' = [t \in Tasks |-> 0]
  /\ UNCHANGED <<today, quota, available, changes, stored, failed, beyond>>

TaskStep(t) ==
  \/ Observe(t) \/ Choose(t) \/ QuotaSleep(t) \/ QuotaWait(t) \/ AccountWait(t)
  \/ Rechoose(t) \/ Reserve(t) \/ Store(t) \/ StoreFails(t) \/ ReturnSlot(t)
  \/ \E n \in Charges \cup {size[t]} : Commit(t, n)

Next ==
  \/ Midnight \/ Restart
  \/ \E a \in Accounts : Load(a) \/ HealthChanges(a) \/ \E q \in Quotas : SetQuota(a, q)
  \/ \E t \in Tasks : TaskStep(t) \/ TakeSlot(t) \/ GiveUp(t) \/ \E n \in Sizes : Call(t, n)

\* Goroutines run, transfers end, and the limiter serves every waiter.
Fairness == \A t \in Tasks : WF_vars(TaskStep(t)) /\ SF_vars(TakeSlot(t))

Spec == Init /\ [][Next]_vars

FairSpec == Spec /\ Fairness

------------------------------------------------------------------------------
TypeOK ==
  /\ today \in Days
  /\ quota \in [Accounts -> Quotas]
  /\ available \subseteq Accounts
  /\ used \in [Accounts -> [Days -> Nat]]
  /\ reserved \in [Accounts -> [Days -> Nat]]
  /\ stored \in [Accounts -> [Days -> Nat]]
  /\ loaded \subseteq Accounts \X Days
  /\ failed \subseteq Accounts \X Days
  /\ beyond \in [Accounts -> [Days -> Nat]]
  /\ pc \in [Tasks -> Steps]
  /\ size \in [Tasks -> Sizes \cup {0}]
  /\ fresh \subseteq Tasks
  /\ chosen \in [Tasks -> 0..NumAccounts]
  /\ day \in [Tasks -> Days]
  /\ actual \in [Tasks -> Charges \cup Sizes \cup {0}]
  /\ changes \in 0..MaxChanges
  /\ restarts \in 0..MaxRestarts

\* The booked bytes of an account and day are those of the transfers that run
\* on it, through retries, midnight and every way an acquire can end: nothing
\* leaks and nothing is released twice.
ReservedExact ==
  \A a \in Accounts, d \in Days :
    reserved[a][d] = SumFunction([t \in Reservers(a, d) |-> size[t]])

\* The transfers that have still to store what they were charged.
Storers(a, d) == {t \in Tasks : pc[t] = "store" /\ chosen[t] = a /\ day[t] = d}

\* What the database lacks is what commits have still to store, and what was
\* never read is not in use.  Exempt are an account and day a statement failed
\* for: what AddTelegramUsage could not write is missing for good, and a
\* transfer booked on usage that could not be read is forgotten by a later read.
UsageStored ==
  \A a \in Accounts, d \in Days :
    <<a, d>> \notin failed =>
      IF <<a, d>> \in loaded
        THEN used[a][d] = stored[a][d] + SumFunction([t \in Storers(a, d) |-> actual[t]])
        ELSE used[a][d] = 0 /\ reserved[a][d] = 0

\* However many transfers race for its last bytes, and whatever a restart
\* forgets, a budget is crossed by less than one content, plus what transfers
\* reported above the size they booked: a download that serves a range twice
\* pays for it twice, after it was admitted.  As long as nobody changes a limit;
\* an account and day a statement failed for is exempt, as above.
CrossedByOne ==
  \A a \in Accounts, d \in Days :
    (changes = 0 /\ quota[a] > 0 /\ <<a, d>> \notin failed) =>
      /\ used[a][d] + reserved[a][d] < quota[a] + Max(Sizes) + beyond[a][d]
      /\ stored[a][d] < quota[a] + Max(Sizes) + beyond[a][d]

\* The daily budgets are kept: what is booked, used and stored adds up through
\* midnight, retries and restarts, and a budget is crossed by one content at
\* most and what downloads repeat (the invariants above, with their exemptions).
BudgetSound == TypeOK /\ ReservedExact /\ UsageStored /\ CrossedByOne

Usable(a, t) == a \in available /\ MayStart(a, size[t])

\* No wake-up is lost: a transfer does not stay in quota.wait with an account
\* free for it, when only other transfers freed it: they signal the tracker,
\* before it slept (generationNow comes before the choice) or while it does.
\* (One that looked at yesterday's budget sleeps until the next midnight, and
\* one that looked at usage of a failed statement until the next signal.)
WakesForQuota ==
  \A t \in Tasks :
    ~<>[](today = 1 /\ changes = 0 /\ failed = {} /\ pc[t] = "quotaWait" /\ \E a \in Accounts : Usable(a, t))

------------------------------------------------------------------------------
\* What a comment of the code says, and the code does not do: "quota.wait alone
\* could sleep until midnight ... a login or a FLOOD_WAIT expiry is an equally
\* valid admission wake-up" (Service.acquire).
WakesForAccount ==
  \A t \in Tasks : ~<>[](pc[t] = "quotaWait" /\ \E a \in Accounts : Usable(a, t))
==============================================================================
