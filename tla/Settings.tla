----------------------------- MODULE Settings -----------------------------
(***************************************************************************)
(* The settings that change while the server runs (internal/config/        *)
(* runtime.go, internal/api/settings.go, Manager.Configure in              *)
(* internal/tgc/client.go, updateRuntimeSettings in internal/plugin/       *)
(* host.go): the snapshot every service reads, the rows of the settings    *)
(* table it is loaded from, and what has to be told of a change.           *)
(*                                                                         *)
(* Three callers write both: the settings page under settingsMu, the setup *)
(* wizard and plugins beside it.  One step is one critical section or one  *)
(* transaction.  Of the settings those are kept that are treated apart:    *)
(* credentials, a text whose empty value means something, two numbers that *)
(* must fit each other, one that has to reach the connections, one that    *)
(* has to reach the limiter, one whose zero stands for a default, and the  *)
(* log level.  Rendering a number or a duration and parsing it is exact,   *)
(* and a log level stands for its spellings.                               *)
(***************************************************************************)
EXTENDS Integers

CONSTANTS
  Panels, Wizards, Guests,  \* requests of the page, of the wizard, of plugins
  Logins,                   \* loaded Telegram accounts
  Main,                     \* the primary one
  NormalizeLocalRoot,       \* the absolute path of a directory, a function
  Environment,              \* the settings of the environment
  Patches,                  \* what an update may ask for: some fields, new values
  MaxUpdates,               \* bound: updates between two starts
  Overlap                   \* may callers of different kinds overlap?

ASSUME MainAssumption == Main \in Logins
ASSUME KindsAssumption ==
  Panels \cap Wizards = {} /\ Panels \cap Guests = {} /\ Wizards \cap Guests = {}

VARIABLES
  published,  \* RuntimeConfig.settings
  settingRow, \* the settings table: a function of the keys that were ever stored
  gate,       \* the limit SetTransferConcurrency handed to the limiters
  logLevel,   \* the level in force
  conn,       \* per account: its connection, and the pool size it was built with
  mainCreds,  \* credentials of the primary: its manager's copy and its row
  upd,        \* what each caller is in the middle of
  updates,    \* number of updates since the server started
  unsaved     \* a plugin left a snapshot that the table does not yield

settingsVars == <<published, settingRow, gate, logLevel, conn, mainCreds, upd, updates, unsaved>>

Updaters == Panels \cup Wizards \cup Guests
Fields == {"creds", "root", "part", "segment", "pool", "conc", "conns", "level"}
NoUpdate == [step |-> "idle", patch |-> <<>>, old |-> <<>>, new |-> <<>>, todo |-> {},
             acct |-> Main]

\* Scaled down: the largest upload part, parts of a segment, the defaults.
MaxPart == 2
MaxUploadParts == 2
DefaultConc == 2
DefaultConns == 2

(***************************************************************************)
(* The settings as values.                                                 *)
(***************************************************************************)
Default(value, default) == IF value <= 0 THEN default ELSE value

\* RuntimeSettings: the snapshot with what is not set filled in.
WithDefaults(s) ==
  [s EXCEPT !.part = Default(@, MaxPart), !.conc = Default(@, DefaultConc),
            !.conns = Default(@, DefaultConns)]

Valid(s) ==
  /\ s.creds.id >= 0
  /\ s.part > 0 /\ s.part <= MaxPart /\ MaxPart % s.part = 0
  /\ s.segment > 0 /\ s.segment <= MaxUploadParts * s.part /\ s.segment % s.part = 0
  /\ s.pool >= 1 /\ s.conc >= 1 /\ s.conns >= 0

Patched(s, patch) == [f \in Fields |-> IF f \in DOMAIN patch THEN patch[f] ELSE s[f]]

\* zapcore.ParseLevel reads an empty name as info.
LevelOf(name) == IF name = "" THEN "info" ELSE name

Complete(creds) == creds.id > 0 /\ creds.hash # ""

\* The directories that are named anywhere, as texts; "" is none.
Directories == DOMAIN NormalizeLocalRoot

\* What a setting may be set to, and the server starts with.
Values(f) ==
  CASE f = "creds" -> [id : Int, hash : STRING]
    [] f = "root" -> Directories
    [] f = "level" -> STRING
    [] OTHER -> Int

Normal(root) == NormalizeLocalRoot[root] = root

ASSUME NormalizeAssumption ==
  /\ \A r \in Directories : NormalizeLocalRoot[r] \in Directories /\ Normal(NormalizeLocalRoot[r])
  /\ Normal(Environment.root)

ASSUME EnvironmentAssumption ==
  /\ DOMAIN Environment = Fields /\ \A f \in Fields : Environment[f] \in Values(f)
  /\ Valid(WithDefaults(Environment))
ASSUME PatchesAssumption ==
  \A p \in Patches : DOMAIN p \subseteq Fields /\ \A f \in DOMAIN p : p[f] \in Values(f)

\* What a row stands for when it is loaded over the value of the environment: an
\* empty hash or log level is no value, an empty directory is one.  Directories
\* are made absolute again.
Loads(f, row, env) ==
  CASE f = "creds" -> [row EXCEPT !.hash = IF @ = "" THEN env.hash ELSE @]
    [] f = "level" -> IF row = "" THEN env ELSE row
    [] f = "root" -> NormalizeLocalRoot[row]
    [] OTHER -> row

\* ApplyStoredRuntimeSettings; the server does not start on what is not Valid.
Stored ==
  LET env == WithDefaults(Environment) IN
  [f \in Fields |-> IF f \in DOMAIN settingRow THEN Loads(f, settingRow[f], env[f]) ELSE env[f]]

(***************************************************************************)
(* Steps of an update.                                                     *)
(***************************************************************************)
Doing(c, step) == upd[c].step = step
Go(c, step) == upd' = [upd EXCEPT ![c].step = step]
Over(c) == upd' = [upd EXCEPT ![c] = NoUpdate]

SettingsInit ==
  /\ published = WithDefaults(Environment)
  /\ settingRow = <<>>
  /\ gate = WithDefaults(Environment).conc
  /\ logLevel = LevelOf(Environment.level)
  /\ conn = [a \in Logins |-> [is |-> "down", pool |-> 0]]
  /\ mainCreds = [copy |-> Environment.creds, row |-> Environment.creds]
  /\ upd = [c \in Updaters |-> NoUpdate]
  /\ updates = 0 /\ unsaved = FALSE

\* A request comes in; those of the page queue for settingsMu.
Arrives(c, patch, first) ==
  /\ Doing(c, "idle") /\ updates < MaxUpdates
  /\ Overlap \/ \A d \in Updaters : Doing(d, "idle") \/ {c, d} \subseteq Panels
  /\ upd' = [upd EXCEPT ![c] = [NoUpdate EXCEPT !.step = first, !.patch = patch]]
  /\ updates' = updates + 1
  /\ UNCHANGED <<published, settingRow, gate, logLevel, conn, mainCreds, unsaved>>

\* Credentials may be emptied like any other text.
CredentialsAllowed_Always(old, new) == TRUE

\* Credentials may only change to complete ones.
CredentialsAllowed(old, new) == old.creds = new.creds \/ Complete(new.creds)

Locked(c) == c \in Panels /\ ~Doing(c, "idle") /\ ~Doing(c, "lock")

\* What the page asks for, with its directory made absolute.
Asked(patch) ==
  [f \in DOMAIN patch |-> IF f = "root" THEN NormalizeLocalRoot[patch[f]] ELSE patch[f]]

\* handleUpdateSettings reads the snapshot, applies the request and checks.
ReadSettings(c) ==
  LET old == WithDefaults(published)
      new == Patched(old, Asked(upd[c].patch))
  IN  /\ Doing(c, "lock") /\ \A d \in Panels : ~Locked(d)
      /\ IF Valid(new) /\ CredentialsAllowed(old, new)
           THEN upd' = [upd EXCEPT ![c] = [@ EXCEPT !.step = "store", !.old = old, !.new = new]]
           ELSE Over(c)
      /\ UNCHANGED <<published, settingRow, gate, logLevel, conn, mainCreds, updates, unsaved>>

\* A restart loads other credentials or another directory than s says.
LoadsOther(s) == s.creds.hash = "" \/ ~Normal(s.root)

\* SetSettings, all keys in one transaction, with the request's context.
StoreSettings(c) ==
  /\ Doing(c, "store")
  /\ \/ /\ settingRow' = upd[c].new /\ Go(c, "publish")
        /\ unsaved' = (unsaved /\ LoadsOther(upd[c].new))
     \/ Over(c) /\ UNCHANGED <<settingRow, unsaved>>
  /\ UNCHANGED <<published, gate, logLevel, conn, mainCreds, updates>>

Publish(c) ==
  /\ Doing(c, "publish")
  /\ published' = upd[c].new
  /\ Go(c, "apply")
  /\ UNCHANGED <<settingRow, gate, logLevel, conn, mainCreds, updates, unsaved>>

\* SetTransferConcurrency, the log level, and which accounts are to dial again.
Apply(c) ==
  LET old == upd[c].old
      new == upd[c].new
      credentialsChanged == old.creds # new.creds
      configure == \/ credentialsChanged
                   \/ conn[Main].is # "ready" /\ "creds" \in DOMAIN upd[c].patch /\ Complete(new.creds)
  IN  /\ Doing(c, "apply")
      /\ gate' = new.conc
      /\ logLevel' = IF new.level = old.level THEN logLevel ELSE LevelOf(new.level)
      /\ \/ configure /\ Go(c, "adopt")
         \/ /\ ~configure /\ new.pool # old.pool
            /\ upd' = [upd EXCEPT ![c].step = "reload", ![c].todo = Logins]
         \/ ~configure /\ new.pool = old.pool /\ Over(c)
      /\ UNCHANGED <<published, settingRow, conn, mainCreds, updates, unsaved>>

\* The loop over the accounts: those that are not ready are passed over.
ReloadNext(c) ==
  /\ Doing(c, "reload")
  /\ \/ upd[c].todo = {} /\ Over(c) /\ UNCHANGED conn
     \/ \E a \in upd[c].todo :
          IF conn[a].is = "ready"
            THEN /\ conn' = [conn EXCEPT ![a] = [is |-> "dialling", pool |-> published.pool]]
                 /\ upd' = [upd EXCEPT ![c].todo = @ \ {a}, ![c].acct = a, ![c].step = "await"]
            ELSE upd' = [upd EXCEPT ![c].todo = @ \ {a}] /\ UNCHANGED conn
  /\ UNCHANGED <<published, settingRow, gate, logLevel, mainCreds, updates, unsaved>>

\* start returns, with a connection or without; the loop goes on.
Await(c) ==
  /\ Doing(c, "await") /\ conn[upd[c].acct].is # "dialling"
  /\ Go(c, "reload")
  /\ UNCHANGED <<published, settingRow, gate, logLevel, conn, mainCreds, updates, unsaved>>

(***************************************************************************)
(* Configure, from the page or the wizard, on the primary account.         *)
(***************************************************************************)
Wanted(c) == IF c \in Panels THEN upd[c].new.creds ELSE upd[c].patch.creds

AdoptCredentials(c) ==
  /\ Doing(c, "adopt")
  /\ mainCreds' = [mainCreds EXCEPT !.copy = Wanted(c)]
  /\ Go(c, "row")
  /\ UNCHANGED <<published, settingRow, gate, logLevel, conn, updates, unsaved>>

\* UpdateAccountSettings.
StoreAccount(c) ==
  /\ Doing(c, "row")
  /\ \/ mainCreds' = [mainCreds EXCEPT !.row = Wanted(c)] /\ Go(c, "mirror")
     \/ UNCHANGED mainCreds /\ Over(c)
  /\ UNCHANGED <<published, settingRow, gate, logLevel, conn, updates, unsaved>>

\* SetSettings with the two keys of the credentials.
MirrorCredentials(c) ==
  /\ Doing(c, "mirror")
  /\ \/ /\ settingRow' = [f \in DOMAIN settingRow \cup {"creds"} |->
                           IF f = "creds" THEN Wanted(c) ELSE settingRow[f]]
        /\ Go(c, "reread")
     \/ UNCHANGED settingRow /\ Over(c)
  /\ UNCHANGED <<published, gate, logLevel, conn, mainCreds, updates, unsaved>>

\* The snapshot is read and put back with the credentials, without settingsMu.
Reread(c) ==
  /\ Doing(c, "reread")
  /\ upd' = [upd EXCEPT ![c].step = "reflect", ![c].old = WithDefaults(published)]
  /\ UNCHANGED <<published, settingRow, gate, logLevel, conn, mainCreds, updates, unsaved>>

Reflect(c) ==
  /\ Doing(c, "reflect")
  /\ published' = [upd[c].old EXCEPT !.creds = Wanted(c)]
  /\ Go(c, "dial")
  /\ UNCHANGED <<settingRow, gate, logLevel, conn, mainCreds, updates, unsaved>>

DialMain(c) ==
  /\ Doing(c, "dial")
  /\ conn' = [conn EXCEPT ![Main] = [is |-> "dialling", pool |-> published.pool]]
  /\ upd' = [upd EXCEPT ![c].step = "await", ![c].acct = Main, ![c].todo = {}]
  /\ UNCHANGED <<published, settingRow, gate, logLevel, mainCreds, updates, unsaved>>

(***************************************************************************)
(* updateRuntimeSettings of the plugin host: published, then stored.       *)
(***************************************************************************)
HostReads(c) ==
  LET new == Patched(WithDefaults(published), upd[c].patch)
  IN  /\ Doing(c, "hostRead")
      /\ IF Valid(new) THEN upd' = [upd EXCEPT ![c].step = "hostPublish", ![c].new = new] ELSE Over(c)
      /\ UNCHANGED <<published, settingRow, gate, logLevel, conn, mainCreds, updates, unsaved>>

HostPublishes(c) ==
  /\ Doing(c, "hostPublish")
  /\ published' = upd[c].new
  /\ Go(c, "hostApply")
  /\ UNCHANGED <<settingRow, gate, logLevel, conn, mainCreds, updates, unsaved>>

HostApplies(c) ==
  /\ Doing(c, "hostApply")
  /\ gate' = upd[c].new.conc
  /\ Go(c, "hostStore")
  /\ UNCHANGED <<published, settingRow, logLevel, conn, mainCreds, updates, unsaved>>

\* persistRuntimeSettings; what it cannot store stays published.  Unlike the page
\* a plugin may empty the app hash and name a directory that is not absolute.
HostStores(c) ==
  /\ Doing(c, "hostStore") /\ Over(c)
  /\ \/ settingRow' = upd[c].new /\ unsaved' = LoadsOther(upd[c].new)
     \/ unsaved' = TRUE /\ UNCHANGED settingRow
  /\ UNCHANGED <<published, gate, logLevel, conn, mainCreds, updates>>

(***************************************************************************)
(* Connections come and go; the server restarts.                           *)
(***************************************************************************)
\* An account is started by somebody else: at boot, after a sign-in.
DialElsewhere(a) ==
  /\ conn[a].is = "down"
  /\ conn' = [conn EXCEPT ![a] = [is |-> "dialling", pool |-> published.pool]]
  /\ UNCHANGED <<published, settingRow, gate, logLevel, mainCreds, upd, updates, unsaved>>

\* The dialling ends, or a connection breaks for good.
DialEnds(a) ==
  /\ conn[a].is # "down"
  /\ conn' = [conn EXCEPT ![a] = IF conn[a].is = "dialling" THEN [@ EXCEPT !.is = "ready"]
                                 ELSE [is |-> "down", pool |-> 0]]
  /\ UNCHANGED <<published, settingRow, gate, logLevel, mainCreds, upd, updates, unsaved>>

DialFails(a) ==
  /\ conn[a].is = "dialling"
  /\ conn' = [conn EXCEPT ![a] = [is |-> "down", pool |-> 0]]
  /\ UNCHANGED <<published, settingRow, gate, logLevel, mainCreds, upd, updates, unsaved>>

\* Cluster.reload, for another reason, gives the manager its row again.
ReloadRows ==
  /\ mainCreds' = [mainCreds EXCEPT !.copy = mainCreds.row]
  /\ UNCHANGED <<published, settingRow, gate, logLevel, conn, upd, updates, unsaved>>

\* The server stops at any point and starts on what is stored.
SettingsRestart ==
  /\ Valid(Stored)
  /\ published' = Stored
  /\ gate' = WithDefaults(Stored).conc
  /\ logLevel' = LevelOf(Stored.level)
  /\ conn' = [a \in Logins |-> [is |-> "down", pool |-> 0]]
  /\ mainCreds' = [mainCreds EXCEPT !.copy = mainCreds.row]
  /\ upd' = [c \in Updaters |-> NoUpdate]
  /\ unsaved' = FALSE
  /\ UNCHANGED <<settingRow, updates>>

UpdateStep(c) ==
  \/ ReadSettings(c) \/ StoreSettings(c) \/ Publish(c) \/ Apply(c) \/ ReloadNext(c) \/ Await(c)
  \/ AdoptCredentials(c) \/ StoreAccount(c) \/ MirrorCredentials(c) \/ Reread(c) \/ Reflect(c)
  \/ DialMain(c)
  \/ HostReads(c) \/ HostPublishes(c) \/ HostApplies(c) \/ HostStores(c)

SettingsNext ==
  \/ \E patch \in Patches :
       \/ \E c \in Panels : Arrives(c, patch, "lock")
       \/ \E c \in Guests : Arrives(c, patch, "hostRead")
       \/ \E c \in Wizards :
            DOMAIN patch = {"creds"} /\ Complete(patch.creds) /\ Arrives(c, patch, "adopt")
  \/ \E c \in Updaters : UpdateStep(c)
  \/ \E a \in Logins : DialElsewhere(a) \/ DialEnds(a) \/ DialFails(a)
  \/ ReloadRows \/ SettingsRestart

SettingsSpec == SettingsInit /\ [][SettingsNext]_settingsVars

(***************************************************************************)
(* Properties.                                                             *)
(***************************************************************************)
NothingUnderWay == \A c \in Updaters : Doing(c, "idle") \/ Doing(c, "lock")

\* What a restart would load is valid and is what the services work with, after
\* any sequence of updates of the page, the wizard and plugins, each refused,
\* cut off or not stored at any point (ApplyStoredRuntimeSettings against
\* handleUpdateSettings, Configure and persistRuntimeSettings).  Excepted are an
\* emptied log level, see SavedTakesPrecedence, and what a plugin has published
\* that could not be stored, has no app hash or names a directory that is not
\* absolute, until the page stores a snapshot without these.
SettingsSurvive ==
  (NothingUnderWay /\ ~unsaved) =>
    /\ Valid(Stored)
    /\ \A f \in Fields \ {"level"} : WithDefaults(Stored)[f] = WithDefaults(published)[f]
    /\ published.level \in {"", Stored.level}

\* The limiters admit what the settings say (SetTransferConcurrency).
GateFollows == NothingUnderWay => gate = WithDefaults(published).conc

\* The settings of a running server: the two invariants above.
SettingsSound == SettingsSurvive /\ GateFollows

------------------------------------------------------------------------------
\* What comments of the code say, and the code does not do.

\* "Existing environment values are used as the initial fallback, so older
\* deployments continue to work and a saved WebUI value takes precedence over them"
\* (ApplyStoredRuntimeSettings): the level a restart sets is the one saved last.
SavedTakesPrecedence ==
  (NothingUnderWay /\ ~unsaved) => LevelOf(Stored.level) = LevelOf(published.level)

\* "Reconnecting only the primary would leave the others on the old numbers, so
\* they all rebuild" (handleUpdateSettings).
PoolFollows ==
  NothingUnderWay => \A a \in Logins : conn[a].is = "ready" => conn[a].pool = published.pool

\* "The primary account's credentials are also the ones the settings page and the
\* setup wizard show, so they stay mirrored into the runtime snapshot" (Configure).
CredentialsMirrored == NothingUnderWay => mainCreds.copy = published.creds
=============================================================================
