-------------------------------- MODULE Plugins --------------------------------
(***************************************************************************)
(* The plugin manager (internal/plugin/manager.go, http.go, updates.go,    *)
(* internal/database/plugins.go): rows of the plugins table, executables on*)
(* disk, child processes, the map of active entries, the management calls  *)
(* on them and the recovery goroutines that replace a failed child.        *)
(*                                                                         *)
(* Every account owns at most one plugin here; the manager keys everything *)
(* by account and plugin, so a second plugin of an account behaves like one*)
(* of another account.  A step is one database statement, one critical     *)
(* section of manager.mu, one rename, or the start or stop of a child.  A  *)
(* database statement and a start with a context that is done fail.  The   *)
(* limits on plugins and processes count what other accounts run, so a     *)
(* check of them may go either way.                                        *)
(***************************************************************************)
EXTENDS Integers, FiniteSets

CONSTANTS
  Users,           \* accounts
  Versions,        \* releases of the plugin
  PluginCallers,   \* management requests (api/plugins.go, api/users.go)
  MaxEntries       \* bound: entries that something refers to at a time

ASSUME VersionsAssumption == 0 \notin Versions
ASSUME NoneAssumption == "none" \notin Users
ASSUME PluginBounds == MaxEntries \in Nat \ {0}

VARIABLES
  row,         \* per account: the row of its plugin, or NoRow
  binary,      \* per account: the release at the plugin's path, 0 for none
  active,      \* per account: manager.active, 0 for no entry
  entries,     \* the activePlugin records
  recovering,  \* manager.recovering
  recovery,    \* per entry: the goroutine that replaces it
  call,        \* per management request: where it is and what it holds
  closed, toBoot

pluginVars == <<row, binary, active, entries, recovering, recovery,
                call, closed, toBoot>>

NoRow == [enabled |-> FALSE, status |-> "none", ver |-> 0]
Row(enabled, status, v) == [enabled |-> enabled, status |-> status, ver |-> v]
Entries == 1..MaxEntries
NoEntry == [user |-> "none", ver |-> 0, proc |-> "down", failed |-> FALSE]
Resting == [step |-> "none", ver |-> 0, new |-> 0]
Idle == [step |-> "idle", user |-> "none", ver |-> 0, rec |-> NoRow, old |-> FALSE, new |-> 0,
         aside |-> 0, meta |-> FALSE, hung |-> FALSE]

PluginInit ==
  /\ row = [u \in Users |-> NoRow]
  /\ binary = [u \in Users |-> 0]
  /\ active = [u \in Users |-> 0]
  /\ entries = [e \in Entries |-> NoEntry]
  /\ recovering = {}
  /\ recovery = [e \in Entries |-> Resting]
  /\ call = [c \in PluginCallers |-> Idle]
  /\ closed = FALSE /\ toBoot = {}

Installed(u) == row[u] # NoRow
Ready(e) == e # 0 /\ ~entries[e].failed

\* What the steps of a management request leave alone.
memory == <<active, entries, recovering, recovery>>
disk == <<row, binary>>
outside == <<closed, toBoot>>

------------------------------------------------------------------------------
(* Entries and their recovery.                                             *)

\* Entries that a map, a request, a recovery, a client or a process still holds.
Referred ==
  {active[u] : u \in Users} \cup {call[c].new : c \in PluginCallers}
  \cup {e \in Entries : recovery[e].step # "none" \/ entries[e].proc = "up"}
  \cup {recovery[e].new : e \in Entries}

Unused == Entries \ Referred
Fresh == CHOOSE e \in Unused : \A d \in Unused : e <= d

\* A new activePlugin; a placeholder (unavailableRuntime) has no process.
Create(u, v, proc) ==
  /\ Unused # {}
  /\ entries' = [entries EXCEPT ![Fresh] =
       [user |-> u, ver |-> v, proc |-> proc, failed |-> proc = "down"]]

\* Whatever lies at the path is started.
Startable_Any(u, v) == binary[u] # 0

\* startRuntime: the child runs only the bytes its row vouches for.
Startable(u, v) == v # 0 /\ binary[u] = v

\* stopRuntime; what ran no longer matters.
Stopped(entry) == [entry EXCEPT !.proc = "down", !.ver = 0]
Kill(e) == entries' = [entries EXCEPT ![e] = Stopped(@)]

\* stopRuntime of an entry that has left the map: forgotten, unless a recovery
\* still works on it.
Discard(e) ==
  entries' = IF e = 0 THEN entries
             ELSE [entries EXCEPT ![e] = IF recovery[e] = Resting THEN NoEntry ELSE Stopped(@)]

\* scheduleRestart: one recovery per plugin, of the entry that is active.
ScheduleRestart(e) ==
  IF closed \/ active[entries[e].user] # e \/ entries[e].user \in recovering
    THEN UNCHANGED <<entries, recovering, recovery>>
    ELSE /\ entries' = [entries EXCEPT ![e].failed = TRUE]
         /\ recovering' = recovering \cup {entries[e].user}
         /\ recovery' = [recovery EXCEPT ![e] = [Resting EXCEPT !.step = "record"]]

\* handlePluginFailure goes by the key, not by the child that failed.
HandleFailure(u) ==
  IF active[u] = 0 THEN UNCHANGED <<entries, recovering, recovery>> ELSE ScheduleRestart(active[u])

\* The placeholder of a plugin that did not start, and its recovery.
Placeholder(u) ==
  /\ Create(u, 0, "down")
  /\ active' = [active EXCEPT ![u] = Fresh]
  /\ IF u \in recovering
       THEN UNCHANGED <<recovering, recovery>>
       ELSE /\ recovering' = recovering \cup {u}
            /\ recovery' = [recovery EXCEPT ![Fresh] = [Resting EXCEPT !.step = "record"]]

------------------------------------------------------------------------------
(* The plugins table.                                                      *)

\* UpdatePluginState; a row that is gone, or a caller that is, is an error.
StateUpdated(c, enabled, status) ==
  LET u == call[c].user IN
  /\ ~call[c].hung /\ Installed(u)
  /\ row' = [row EXCEPT ![u].enabled = enabled, ![u].status = status]

StateError(c) == (call[c].hung \/ ~Installed(call[c].user)) /\ UNCHANGED row

\* UpdatePluginStatus leaves enabled alone.
UpdateStatus(u, status) ==
  row' = IF Installed(u) THEN [row EXCEPT ![u].status = status] ELSE row

UpdateStatusIfEnabled(u, status) ==
  row' = IF row[u].enabled THEN [row EXCEPT ![u].status = status] ELSE row

------------------------------------------------------------------------------
At(c, step) == call[c].step = step
Then(c, step) == call' = [call EXCEPT ![c].step = step]
Done(c) == call' = [call EXCEPT ![c] = Idle]

\* A request begins with what it read of the row.
Begin(c, u, v, rec, step) ==
  /\ At(c, "idle") /\ ~closed /\ toBoot = {}
  /\ call' = [call EXCEPT ![c] = [Idle EXCEPT !.step = step, !.user = u, !.ver = v, !.rec = rec]]

Release(u) == [NoRow EXCEPT !.ver = row[u].ver]

\* takeActive and stopRuntime: the entry leaves the map, then its child is
\* stopped, which only calls already in it can tell apart.
TakeAndStop(c, from, to) ==
  LET u == call[c].user IN
  /\ At(c, from)
  /\ active' = [active EXCEPT ![u] = 0]
  /\ Discard(active[u])
  /\ IF to = "idle" THEN Done(c)
     ELSE call' = [call EXCEPT ![c].step = to, ![c].old = active[u] # 0]
  /\ UNCHANGED <<disk, recovering, recovery, outside>>

\* startRuntime for a request.
StartChild(c, v, to) ==
  /\ ~call[c].hung /\ Startable(call[c].user, v)
  /\ Create(call[c].user, binary[call[c].user], "up")
  /\ call' = [call EXCEPT ![c].step = to, ![c].new = Fresh]

------------------------------------------------------------------------------
(* Inspect and Install.  A review can be had at any time; Install spends one.*)

InstallSteps == {"i_take", "i_swap", "i_row", "i_start", "i_state",
                 "i_active", "u_binary", "u_row", "restore"}

\* Under installMu.
Install(c, u, v) ==
  /\ \A d \in PluginCallers : call[d].step \notin InstallSteps
  /\ Begin(c, u, v, row[u], "i_take")
  /\ UNCHANGED <<disk, memory, outside>>

\* A new plugin exceeds a limit, or the download fails; otherwise the running
\* child makes way.
InstallFails(c) ==
  /\ At(c, "i_take")
  /\ Done(c)
  /\ UNCHANGED <<disk, memory, outside>>

\* The executable in place is moved aside and the download takes its name; when
\* a rename fails everything is as before.
InstallSwap(c) ==
  LET u == call[c].user IN
  /\ At(c, "i_swap")
  /\ \/ /\ binary' = [binary EXCEPT ![u] = call[c].ver]
        /\ call' = [call EXCEPT ![c].step = "i_row", ![c].aside = binary[u]]
     \/ Then(c, "restore") /\ UNCHANGED binary
  /\ UNCHANGED <<row, memory, outside>>

InstallRow(c) ==
  LET u == call[c].user IN
  /\ At(c, "i_row")
  /\ IF call[c].hung
       THEN Then(c, "u_binary") /\ UNCHANGED row
       ELSE /\ row' = [row EXCEPT ![u] = Row(TRUE, "stopped", call[c].ver)]
            /\ call' = [call EXCEPT ![c].step = "i_start", ![c].meta = TRUE]
  /\ UNCHANGED <<binary, memory, outside>>

InstallStart(c) ==
  /\ At(c, "i_start")
  /\ \/ StartChild(c, call[c].ver, "i_state")
     \/ Then(c, "u_binary") /\ UNCHANGED entries
  /\ UNCHANGED <<disk, active, recovering, recovery, outside>>

InstallState(c) ==
  /\ At(c, "i_state")
  /\ \/ StateUpdated(c, TRUE, "active") /\ Then(c, "i_active") /\ UNCHANGED entries
     \/ StateError(c) /\ Discard(call[c].new) /\ Then(c, "u_binary")
  /\ UNCHANGED <<binary, active, recovering, recovery, outside>>

\* The entry is there; the copy moved aside goes.
InstallActive(c) ==
  /\ At(c, "i_active")
  /\ active' = [active EXCEPT ![call[c].user] = call[c].new]
  /\ Done(c)
  /\ UNCHANGED <<disk, entries, recovering, recovery, outside>>

\* restoreOld: the executable, the row, then the runtime.
UndoBinary(c) ==
  /\ At(c, "u_binary")
  /\ binary' = [binary EXCEPT ![call[c].user] = call[c].aside]
  /\ Then(c, IF call[c].meta THEN "u_row" ELSE "restore")
  /\ UNCHANGED <<row, memory, outside>>

UndoRow(c) ==
  /\ At(c, "u_row")
  /\ row' = IF call[c].hung THEN row ELSE [row EXCEPT ![call[c].user] = call[c].rec]
  /\ Then(c, "restore")
  /\ UNCHANGED <<binary, memory, outside>>

\* restoreRuntime, when there was an entry; it may not come up again.
Restore(c) ==
  LET u == call[c].user
      v == call[c].rec.ver IN
  /\ At(c, "restore")
  /\ \/ /\ call[c].old /\ ~call[c].hung /\ Startable(u, v)
        /\ Create(u, binary[u], "up")
        /\ active' = [active EXCEPT ![u] = Fresh]
     \/ UNCHANGED <<active, entries>>
  /\ Done(c)
  /\ UNCHANGED <<disk, recovering, recovery, outside>>

------------------------------------------------------------------------------
(* SetEnabled.                                                             *)

Disable(c, u) ==
  /\ Installed(u) /\ Begin(c, u, 0, NoRow, "d_take")
  /\ UNCHANGED <<disk, memory, outside>>

DisableState(c) ==
  /\ At(c, "d_state")
  /\ StateUpdated(c, FALSE, "disabled") \/ StateError(c)
  /\ Done(c)
  /\ UNCHANGED <<binary, memory, outside>>

Enable(c, u) ==
  /\ Installed(u) /\ Begin(c, u, 0, Release(u), "e_look")
  /\ UNCHANGED <<disk, memory, outside>>

\* getActive; checkProcessLimit may refuse another child.
EnableLook(c) ==
  LET u == call[c].user IN
  /\ At(c, "e_look")
  /\ \/ active[u] # 0 /\ call' = [call EXCEPT ![c].step = "e_mark", ![c].new = active[u]]
     \/ active[u] = 0 /\ Then(c, "e_start")
     \/ active[u] = 0 /\ Done(c)
  /\ UNCHANGED <<disk, memory, outside>>

\* An entry that was there is enabled, and restarted if it had failed.
EnableMark(c) ==
  /\ At(c, "e_mark")
  /\ \/ /\ StateUpdated(c, TRUE, "active")
        /\ IF entries[call[c].new].failed
             THEN ScheduleRestart(call[c].new)
             ELSE UNCHANGED <<entries, recovering, recovery>>
     \/ StateError(c) /\ UNCHANGED <<entries, recovering, recovery>>
  /\ Done(c)
  /\ UNCHANGED <<binary, active, outside>>

EnableStart(c) ==
  /\ At(c, "e_start")
  /\ \/ StartChild(c, call[c].rec.ver, "e_active")
     \/ Then(c, "e_error") /\ UNCHANGED entries
  /\ UNCHANGED <<disk, active, recovering, recovery, outside>>

EnableActive(c) ==
  /\ At(c, "e_active")
  /\ active' = [active EXCEPT ![call[c].user] = call[c].new]
  /\ call' = [call EXCEPT ![c].step = "e_state", ![c].new = 0]
  /\ UNCHANGED <<disk, entries, recovering, recovery, outside>>

EnableState(c) ==
  /\ At(c, "e_state")
  /\ \/ StateUpdated(c, TRUE, "active") /\ UNCHANGED <<entries, recovering, recovery>>
     \/ StateError(c) /\ HandleFailure(call[c].user)
  /\ Done(c)
  /\ UNCHANGED <<binary, active, outside>>

EnableError(c) ==
  /\ At(c, "e_error")
  /\ StateUpdated(c, TRUE, "error") \/ StateError(c)
  /\ Then(c, "e_place")
  /\ UNCHANGED <<binary, memory, outside>>

EnablePlace(c) ==
  /\ At(c, "e_place")
  /\ Placeholder(call[c].user)
  /\ Done(c)
  /\ UNCHANGED <<disk, outside>>

------------------------------------------------------------------------------
(* Uninstall, RemoveAllForUser and StopAllForUser.                         *)

Uninstall(c, u) ==
  /\ Installed(u) /\ Begin(c, u, 0, Release(u), "x_take")
  /\ UNCHANGED <<disk, memory, outside>>

\* The executable is moved aside; if that fails the plugin goes on.
UninstallAside(c) ==
  LET u == call[c].user IN
  /\ At(c, "x_aside")
  /\ \/ /\ binary' = [binary EXCEPT ![u] = 0]
        /\ call' = [call EXCEPT ![c].step = "x_row", ![c].aside = binary[u]]
     \/ Then(c, "restore") /\ UNCHANGED binary
  /\ UNCHANGED <<row, memory, outside>>

\* DeletePlugin, last, so that a failure leaves a record to go back to.
UninstallRow(c) ==
  LET u == call[c].user IN
  /\ At(c, "x_row")
  /\ IF call[c].hung \/ ~Installed(u)
       THEN /\ binary' = [binary EXCEPT ![u] = call[c].aside]
            /\ Then(c, "restore")
            /\ UNCHANGED row
       ELSE /\ row' = [row EXCEPT ![u] = NoRow]
            /\ Done(c)
            /\ UNCHANGED binary
  /\ UNCHANGED <<memory, outside>>

RemoveAllForUser(c, u) ==
  /\ Installed(u) /\ Begin(c, u, 0, NoRow, "a_take")
  /\ UNCHANGED <<disk, memory, outside>>

\* The executable goes aside (which may fail) and the row goes; a row that
\* cannot be deleted has its executable back, and the account is kept.
RemoveAll(c) ==
  LET u == call[c].user IN
  /\ At(c, "a_row")
  /\ IF call[c].hung
       THEN UNCHANGED disk
       ELSE /\ binary' = [binary EXCEPT ![u] = 0]
            /\ row' = [row EXCEPT ![u] = NoRow]
  /\ Done(c)
  /\ UNCHANGED <<memory, outside>>

StopAllForUser(c, u) ==
  /\ active[u] # 0 /\ Begin(c, u, 0, NoRow, "s_take")
  /\ UNCHANGED <<disk, memory, outside>>

\* The browser goes away: the context of the request is cancelled.
HangUp(c) ==
  /\ ~At(c, "idle") /\ ~call[c].hung
  /\ call' = [call EXCEPT ![c].hung = TRUE]
  /\ UNCHANGED <<disk, memory, outside>>

CallStep(c) ==
  \/ InstallFails(c) \/ TakeAndStop(c, "i_take", "i_swap")
  \/ InstallSwap(c) \/ InstallRow(c) \/ InstallStart(c) \/ InstallState(c) \/ InstallActive(c)
  \/ UndoBinary(c) \/ UndoRow(c) \/ Restore(c)
  \/ TakeAndStop(c, "d_take", "d_state") \/ DisableState(c)
  \/ EnableLook(c) \/ EnableMark(c) \/ EnableStart(c) \/ EnableActive(c) \/ EnableState(c)
  \/ EnableError(c) \/ EnablePlace(c)
  \/ TakeAndStop(c, "x_take", "x_aside") \/ UninstallAside(c)
  \/ UninstallRow(c)
  \/ TakeAndStop(c, "a_take", "a_row") \/ RemoveAll(c)
  \/ TakeAndStop(c, "s_take", "idle")
  \/ HangUp(c)

CallBegins(c, u) ==
  \/ \E v \in Versions : Install(c, u, v)
  \/ Disable(c, u) \/ Enable(c, u) \/ Uninstall(c, u) \/ RemoveAllForUser(c, u)
  \/ StopAllForUser(c, u)

------------------------------------------------------------------------------
(* restart: the goroutine that replaces entry e.                           *)

Recovering(e, step) == recovery[e].step = step
OnTo(e, step) == recovery' = [recovery EXCEPT ![e].step = step]

\* recordPluginFailure, before the goroutine starts.
RestartRecord(e) ==
  /\ Recovering(e, "record")
  /\ UpdateStatus(entries[e].user, "error")
  /\ OnTo(e, "read")
  /\ UNCHANGED <<binary, active, entries, recovering, call, outside>>

\* The failed child is stopped, and PluginByID says what to start; it fails once
\* Close has cancelled the recoveries.
RestartRead(e) ==
  LET u == entries[e].user IN
  /\ Recovering(e, "read")
  /\ Kill(e)
  /\ \/ /\ ~closed /\ row[u].enabled
        /\ recovery' = [recovery EXCEPT ![e].step = "start", ![e].ver = row[u].ver]
     \/ ~closed /\ Installed(u) /\ ~row[u].enabled /\ OnTo(e, "off")
     \/ (closed \/ ~Installed(u)) /\ OnTo(e, "swap")
  /\ UNCHANGED <<disk, active, recovering, call, outside>>

RestartStart(e) ==
  LET u == entries[e].user IN
  /\ Recovering(e, "start")
  /\ \/ /\ Startable(u, recovery[e].ver)
        /\ Create(u, binary[u], "up")
        /\ recovery' = [recovery EXCEPT ![e].step = "swap", ![e].new = Fresh]
     \/ OnTo(e, "swap") /\ UNCHANGED entries
  /\ UNCHANGED <<disk, active, recovering, call, outside>>

\* A replacement that is not needed is left to itself.
RestartSwap_NoStop(e) ==
  LET u == entries[e].user
      r == recovery[e]
      canReplace == r.new # 0 /\ active[u] = e /\ ~closed IN
  /\ r.step \in {"swap", "off"}
  /\ active' = [active EXCEPT ![u] = IF canReplace THEN r.new
                                     ELSE IF r.step = "off" /\ @ = e THEN 0 ELSE @]
  /\ recovering' = recovering \ {u}
  /\ recovery' = [recovery EXCEPT ![e] = IF canReplace THEN [Resting EXCEPT !.step = "status"]
                                         ELSE Resting]
  /\ UNCHANGED <<disk, entries, call, outside>>

\* The replacement takes the place of the entry it was started for; when a
\* management request or Close was faster it is stopped again.
RestartSwap(e) ==
  LET u == entries[e].user
      r == recovery[e]
      canReplace == r.new # 0 /\ active[u] = e /\ ~closed IN
  /\ r.step \in {"swap", "off"}
  /\ active' = [active EXCEPT ![u] = IF canReplace THEN r.new
                                     ELSE IF r.step = "off" /\ @ = e THEN 0 ELSE @]
  /\ entries' = [d \in Entries |-> IF ~canReplace /\ (d = r.new \/ (d = e /\ active'[u] # e))
                                     THEN NoEntry ELSE entries[d]]
  /\ recovering' = recovering \ {u}
  /\ recovery' = [recovery EXCEPT ![e] = IF canReplace THEN [Resting EXCEPT !.step = "status"]
                                         ELSE Resting]
  /\ UNCHANGED <<disk, call, outside>>

RestartStatus(e) ==
  /\ Recovering(e, "status")
  /\ UpdateStatusIfEnabled(entries[e].user, "active")
  /\ recovery' = [recovery EXCEPT ![e] = Resting]
  /\ entries' = [entries EXCEPT ![e] = NoEntry]
  /\ UNCHANGED <<binary, active, recovering, call, outside>>

Restart(e) ==
  \/ RestartRecord(e) \/ RestartRead(e) \/ RestartStart(e)
  \/ RestartSwap(e) \/ RestartStatus(e)

------------------------------------------------------------------------------
(* Calls into a plugin: hooks and events, and the routes it serves.        *)

\* Before, After, dispatchEvent or a route had an error from the plugin; the
\* call may have begun with an entry that has since been replaced.
CallFails(u) ==
  /\ active[u] # 0 /\ ~closed
  /\ HandleFailure(u)
  /\ UNCHANGED <<disk, active, call, outside>>

\* reportPluginCallError: a route of a live child that is slow is only recorded.
RouteTimesOut(e) ==
  /\ entries[e].proc = "up" /\ ~closed
  /\ UpdateStatus(entries[e].user, "error")
  /\ UNCHANGED <<binary, memory, call, outside>>

\* A child exits by itself; nobody hears of it before the next call.
ChildDies(e) ==
  /\ entries[e].proc = "up"
  /\ Kill(e)
  /\ UNCHANGED <<disk, active, recovering, recovery, call, outside>>

------------------------------------------------------------------------------
(* The life of the manager.                                                *)

\* Close, once the server has stopped serving: the entries leave the map and
\* their children are stopped; recoveries under way see it.
Close ==
  /\ ~closed /\ toBoot = {}
  /\ \A c \in PluginCallers : At(c, "idle")
  /\ closed' = TRUE
  /\ active' = [u \in Users |-> 0]
  /\ entries' = [e \in Entries |->
       IF \A u \in Users : active[u] # e THEN entries[e]
       ELSE IF recovery[e] = Resting THEN NoEntry ELSE Stopped(entries[e])]
  /\ UNCHANGED <<disk, recovering, recovery, call, toBoot>>

\* The process ends and a new one starts: only rows and executables remain.
Reboot ==
  /\ closed => recovering = {}
  /\ toBoot' = {u \in Users : row[u].enabled}
  /\ closed' = FALSE
  /\ active' = [u \in Users |-> 0]
  /\ entries' = [e \in Entries |-> NoEntry]
  /\ recovering' = {} /\ recovery' = [e \in Entries |-> Resting]
  /\ call' = [c \in PluginCallers |-> Idle]
  /\ UNCHANGED disk

\* Start, for one enabled plugin: held back by the limit, started, or replaced
\* by a placeholder that recovers.
BootHeld(u) ==
  /\ u \in toBoot /\ toBoot' = toBoot \ {u}
  /\ UpdateStatus(u, "error")
  /\ UNCHANGED <<binary, memory, call, closed>>

BootStarts(u) ==
  /\ u \in toBoot /\ toBoot' = toBoot \ {u}
  /\ Startable(u, row[u].ver) /\ Create(u, binary[u], "up")
  /\ active' = [active EXCEPT ![u] = Fresh]
  /\ UpdateStatus(u, "active")
  /\ UNCHANGED <<binary, recovering, recovery, call, closed>>

BootFails(u) ==
  /\ u \in toBoot /\ toBoot' = toBoot \ {u}
  /\ UpdateStatus(u, "error")
  /\ Placeholder(u)
  /\ UNCHANGED <<binary, call, closed>>

Boot(u) == BootHeld(u) \/ BootStarts(u) \/ BootFails(u)

PluginNext ==
  \/ \E c \in PluginCallers : CallStep(c) \/ \E u \in Users : CallBegins(c, u)
  \/ \E e \in Entries : Restart(e) \/ ChildDies(e) \/ RouteTimesOut(e)
  \/ \E u \in Users : CallFails(u)
  \/ Close \/ Reboot
  \/ \E u \in Users : Boot(u)

PluginSpec == PluginInit /\ [][PluginNext]_pluginVars

------------------------------------------------------------------------------
Refs == 0..MaxEntries
RowType == {NoRow} \cup [enabled : BOOLEAN, status : {"stopped", "active", "error", "disabled"},
                         ver : Versions]

\* The type of the manager's state.
PluginTypeOK ==
  /\ row \in [Users -> RowType]
  /\ binary \in [Users -> Versions \cup {0}]
  /\ active \in [Users -> Refs]
  /\ entries \in [Entries -> [user : Users \cup {"none"}, ver : Versions \cup {0},
                              proc : {"up", "down"}, failed : BOOLEAN]]
  /\ recovering \subseteq Users
  /\ recovery \in [Entries -> [step : {"none", "record", "read", "start", "off", "swap", "status"}, ver : Versions \cup {0}, new : Refs]]
  /\ \A c \in PluginCallers : call[c].rec.ver \in Versions \cup {0} /\ call[c].new \in Refs
  /\ closed \in BOOLEAN /\ toBoot \subseteq Users

\* No child runs on behind the manager's back: every live process is the one of
\* an active entry, or in the hands of a request or a recovery that will stop
\* it or make it active (stopRuntime, startRuntime, restart).
NoOrphanChild ==
  \A e \in Entries : entries[e].proc = "up" =>
    \/ \E u \in Users : active[u] = e
    \/ \E c \in PluginCallers : e = call[c].new
    \/ \E d \in Entries : e = recovery[d].new \/ (d = e /\ recovery[d].step # "none")

\* Between requests, a plugin that is ready runs the release its row names: no
\* recovery brings back the release that an update replaced (startRuntime's
\* digest check, and restart's comparison with the entry it was started for).
RunsWhatRowSays ==
  \A u \in Users :
    /\ Ready(active[u]) /\ entries[active[u]].proc = "up"
    /\ \A c \in PluginCallers : call[c].user # u
    => row[u].ver = entries[active[u]].ver

\* A row that says active is one its owner has enabled, however late a recovery
\* reports (UpdatePluginStatusIfEnabled).
ActiveIsEnabled == \A u \in Users : row[u].status = "active" => row[u].enabled

\* The recovering guard: a plugin is restarted by one goroutine at a time, until
\* that one has put its replacement in place.
OneRestart ==
  \A d, e \in Entries :
    /\ d # e /\ entries[d].user = entries[e].user
    /\ {recovery[d].step, recovery[e].step} \cap {"none", "status"} = {}
    => FALSE

\* Rows, entries and processes agree: what is ready is the release of the row,
\* what is active is enabled, and one goroutine restarts a plugin (the
\* invariants above), in a well-typed state.
PluginSound == PluginTypeOK /\ RunsWhatRowSays /\ ActiveIsEnabled /\ OneRestart
================================================================================
