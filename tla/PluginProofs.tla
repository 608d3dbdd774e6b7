----------------------------- MODULE PluginProofs -----------------------------
(***************************************************************************)
(* Proofs about the plugin manager (Plugins), for every set of plugins,    *)
(* releases and requests, and any number of children and restarts.         *)
(***************************************************************************)
EXTENDS Plugins, FiniteSetTheorems, SequenceTheorems, TLAPS

(***************************************************************************)
(* Plugins.  Two management requests on one plugin of one account do not   *)
(* exclude each other in the code; what is proved here is under the        *)
(* hypothesis that they do not overlap (OnePerPlugin).  Everything else    *)
(* interleaves freely.                                                     *)
(*                                                                         *)
(* The invariant says who owns a child: the map of active entries, the     *)
(* request or the recovery that started it, or the recovery that is about  *)
(* to stop it.  What a request knows of its plugin (CallFits) is what makes*)
(* its undo steps bring back the release that the row names.               *)
(***************************************************************************)
\* The steps of a request between which its plugin has no entry.
TakenSteps == {"i_swap", "i_row", "i_start", "i_state", "i_active", "u_binary", "u_row", "restore",
               "e_start", "e_active", "e_error", "e_place", "x_aside", "x_row", "a_row"}

\* Where a request has a child of its own.
NewSteps == {"i_state", "i_active", "e_active"}

CallSteps == TakenSteps \cup {"idle", "i_take", "d_take", "d_state", "e_look", "e_mark", "e_state",
                              "x_take", "a_take", "s_take"}

Plugged == [user : Users \cup {"none"}, ver : Versions \cup {0}, proc : {"up", "down"}, failed : BOOLEAN]
Known == RowType \cup {[NoRow EXCEPT !.ver = v] : v \in Versions \cup {0}}
PluginCalls == [step : CallSteps, user : Users \cup {"none"}, ver : Versions \cup {0}, rec : Known,
                old : BOOLEAN, new : Refs, aside : Versions \cup {0}, meta : BOOLEAN, hung : BOOLEAN]

ManagerTypeOK == PluginTypeOK /\ call \in [PluginCallers -> PluginCalls]

\* An entry that runs or has failed is one of an account.
EntriesFit == \A e \in Entries : entries[e].proc = "up" \/ entries[e].failed => entries[e].user \in Users

\* The entry in the map is its account's, and its child runs the release of the row.
ActiveFits ==
  \A u \in Users : active[u] # 0 =>
    /\ entries[active[u]].user = u
    /\ entries[active[u]].proc = "up" => entries[active[u]].ver = row[u].ver

\* Who looks after a child.
Owned(e) ==
  \/ \E u \in Users : active[u] = e
  \/ \E c \in PluginCallers : call[c].step \in NewSteps /\ call[c].new = e
  \/ \E d \in Entries : recovery[d].new = e
  \/ recovery[e].step # "none"
ChildrenOwned == \A e \in Entries : entries[e].proc = "up" => Owned(e)

Working(e) == recovery[e].step \notin {"none", "status"}

\* A recovery works on an entry of an account, which it marks; its replacement
\* is its own.
RecoveryFits ==
  \A e \in Entries :
    /\ recovery[e].step = "none" => recovery[e] = Resting
    /\ recovery[e].step # "none" => entries[e].user \in Users
    /\ Working(e) => entries[e].user \in recovering
    /\ recovery[e].step = "status" => \A u \in Users : active[u] # e
    /\ recovery[e].step # "swap" => recovery[e].new = 0
    /\ recovery[e].step = "start" /\ active[entries[e].user] = e =>
         recovery[e].ver = row[entries[e].user].ver
    /\ recovery[e].new # 0 =>
         /\ entries[recovery[e].new].user = entries[e].user
         /\ recovery[recovery[e].new].step = "none"
         /\ \A u \in Users : active[u] # recovery[e].new
         /\ entries[recovery[e].new].proc = "up" /\ active[entries[e].user] = e =>
              entries[recovery[e].new].ver = row[entries[e].user].ver

RecoveriesApart ==
  \A d, e \in Entries : d # e /\ Working(d) /\ Working(e) => entries[d].user # entries[e].user

\* What a request knows of its plugin.
CallFits(o) ==
  /\ o.step # "idle" => o.user \in Users /\ toBoot = {}
  /\ o.step \in TakenSteps => active[o.user] = 0
  /\ o.step = "e_mark" => o.new # 0
  /\ o.step \in {"i_take", "i_swap", "i_row", "i_start", "i_state", "i_active", "u_binary", "u_row"} =>
       o.rec \in RowType /\ o.ver # 0
  /\ o.step \in {"i_take", "i_swap", "i_row", "e_look", "e_start", "e_active", "x_take", "x_aside", "x_row"} =>
       o.rec.ver = row[o.user].ver
  /\ o.step \in {"i_start", "i_state", "i_active"} => row[o.user].ver = o.ver /\ o.meta
  /\ o.step = "u_binary" => o.meta \/ o.rec.ver = row[o.user].ver
  /\ o.step = "restore" => o.hung \/ o.rec.ver = row[o.user].ver
  /\ o.rec.status = "active" => o.rec.enabled
  /\ o.step \in NewSteps =>
       /\ o.new # 0
       /\ entries[o.new].user = o.user
       /\ recovery[o.new].step = "none"
       /\ \A d \in Entries : recovery[d].new # o.new
       /\ entries[o.new].proc = "up" => entries[o.new].ver = row[o.user].ver

CallsFit == \A c \in PluginCallers : CallFits(call[c])

BootFits == \A u \in toBoot : active[u] = 0 /\ row[u].enabled

PluginIInv ==
  /\ ManagerTypeOK /\ EntriesFit /\ ActiveFits /\ ChildrenOwned /\ RecoveryFits /\ RecoveriesApart
  /\ CallsFit /\ BootFits /\ ActiveIsEnabled

\* The requests on one plugin do not overlap.
OnePerPlugin ==
  \A c, d \in PluginCallers :
    call[c].step # "idle" /\ call[d].step # "idle" /\ call[c].user = call[d].user => c = d

-----------------------------------------------------------------------------
\* Every number of a set of entries has a least one, and the one that is taken
\* is unused.
LEMMA FreshFits ==
  ASSUME PluginIInv, Unused # {}
  PROVE  /\ Fresh \in Entries
         /\ \A u \in Users : active[u] # Fresh
         /\ \A c \in PluginCallers : call[c].new # Fresh
         /\ \A e \in Entries : recovery[e].new # Fresh
         /\ recovery[Fresh] = Resting /\ entries[Fresh].proc = "down"
<1>1. \E e \in Unused : \A d \in Unused : e <= d
  <2> DEFINE Less == {ss \in Nat \X Nat : ss[1] < ss[2]}
  <2>1. IsWellFoundedOn(Less, Nat)
    BY NatLessThanWellFounded DEF OpToRel
  <2>2. Unused \in SUBSET Nat
    BY PluginBounds DEF Unused, Entries
  <2>3. PICK e \in Unused : \A d \in Unused : ~(<<d, e>> \in Less)
    BY <2>1, <2>2, WFMin, Zenon
  <2>4. \A d \in Unused : ~(d < e)
    BY <2>2, <2>3
  <2> QED  BY <2>2, <2>4
<1>2. Fresh \in Unused
  BY <1>1 DEF Fresh
<1>3. Fresh \in Entries /\ Fresh \notin Referred
  BY <1>2 DEF Unused
<1>4. recovery[Fresh].step = "none" /\ entries[Fresh].proc = "down"
  BY <1>3 DEF Referred, PluginIInv, ManagerTypeOK, PluginTypeOK
<1> QED  BY <1>3, <1>4 DEF Referred, PluginIInv, RecoveryFits

\* The numbers of entries do not contain zero.
LEMMA EntriesPositive == 0 \notin Entries /\ Entries \subseteq Refs /\ Refs = Entries \cup {0}
BY PluginBounds DEF Entries, Refs

\* A row of an account is one of the table, or none.
LEMMA RowsTyped ==
  ASSUME ManagerTypeOK, NEW u \in Users
  PROVE  row[u] \in RowType /\ row[u] \in Known /\ row[u].ver \in Versions \cup {0} /\ row[u].enabled \in BOOLEAN
<1>1. row[u] \in RowType
  BY DEF ManagerTypeOK, PluginTypeOK
<1>2. row[u] \in Known
  BY <1>1 DEF Known
<1>3. row[u].ver \in Versions \cup {0} /\ row[u].enabled \in BOOLEAN
  <2>1. CASE row[u] = NoRow
    BY <2>1 DEF NoRow
  <2>2. CASE row[u] # NoRow
    BY <1>1, <2>2 DEF RowType
  <2> QED  BY <2>1, <2>2
<1> QED  BY <1>1, <1>2, <1>3

\* A request whose plugin and child stay as they are.
LEMMA CallStays ==
  ASSUME PluginIInv, NEW d \in PluginCallers, call'[d] = call[d],
         call[d].step # "idle" =>
           /\ row'[call[d].user].ver = row[call[d].user].ver
           /\ active[call[d].user] = 0 => active'[call[d].user] = 0
           /\ toBoot' = {},
         call[d].step \in NewSteps =>
           LET n == call[d].new IN
           /\ entries'[n].user = entries[n].user
           /\ entries'[n].proc = "up" => entries[n].proc = "up" /\ entries'[n].ver = entries[n].ver
           /\ recovery'[n].step = "none"
           /\ \A x \in Entries : recovery'[x].new # n
  PROVE  \A o : o = call'[d] => CallFits(o)'
<1> SUFFICES ASSUME NEW o, o = call'[d] PROVE CallFits(o)'
  OBVIOUS
<1>1. CallFits(o) /\ o = call[d]
  BY DEF PluginIInv, CallsFit
<1>2. CASE o.step = "idle"
  BY <1>1, <1>2 DEF CallFits, TakenSteps, NewSteps
<1>3. CASE o.step # "idle"
  BY <1>1, <1>3 DEF CallFits
<1> QED  BY <1>2, <1>3

\* A request moves on and changes, if anything, the row of its plugin and what
\* lies at its path; the release of the row only while there is no entry.
LEMMA CallMoves ==
  ASSUME PluginIInv, OnePerPlugin, NEW c \in PluginCallers, NEW next \in PluginCalls,
         call' = [call EXCEPT ![c] = next], UNCHANGED <<memory, outside>>,
         toBoot = {}, NEW u \in Users, call[c].step = "idle" \/ call[c].user = u,
         binary' \in [Users -> Versions \cup {0}], row' \in [Users -> RowType],
         \A w \in Users : row'[w] # row[w] => w = u /\ call[c].step # "idle",
         row'[u].ver = row[u].ver \/ active[u] = 0,
         row'[u].status = "active" => row'[u].enabled,
         CallFits(next)',
         call[c].step \in NewSteps \/ next.step \in NewSteps =>
           call[c].step \in NewSteps /\ next.step \in NewSteps /\ next.new = call[c].new
  PROVE  PluginIInv'
<1>1. /\ call' \in [PluginCallers -> PluginCalls] /\ call'[c] = next
      /\ \A d \in PluginCallers : d # c => call'[d] = call[d]
      /\ UNCHANGED <<active, entries, recovering, recovery, closed, toBoot>>
  BY DEF PluginIInv, ManagerTypeOK, memory, outside
<1>2. next.rec.ver \in Versions \cup {0} /\ next.new \in Refs
  BY RowsTyped DEF PluginCalls, Known, RowType, NoRow
<1>3. ManagerTypeOK'
  BY <1>1, <1>2 DEF PluginIInv, ManagerTypeOK, PluginTypeOK
<1>4. \A w \in Users : row'[w].ver = row[w].ver \/ active[w] = 0
  OBVIOUS
<1>5. EntriesFit' /\ RecoveriesApart' /\ BootFits'
  BY <1>1 DEF PluginIInv, EntriesFit, RecoveriesApart, Working, BootFits
<1>6. ActiveFits'
  BY <1>1, <1>4 DEF PluginIInv, ActiveFits
<1>7. RecoveryFits'
  BY <1>1, <1>4, EntriesPositive DEF PluginIInv, RecoveryFits, Working
<1>8. ChildrenOwned'
  BY <1>1 DEF PluginIInv, ChildrenOwned, Owned
<1>9. CallsFit'
  <2>1. ASSUME NEW d \in PluginCallers, d # c PROVE \A o : o = call'[d] => CallFits(o)'
    <3>1. call[d].step # "idle" => row'[call[d].user] = row[call[d].user]
      BY <2>1 DEF OnePerPlugin, PluginIInv, CallsFit, CallFits
    <3> QED  BY <1>1, <2>1, <3>1, CallStays DEF PluginIInv, CallsFit, CallFits
  <2>2. \A d \in PluginCallers : \A o : o = call'[d] => CallFits(o)'
    BY <1>1, <2>1
  <2> QED  BY <2>2 DEF CallsFit
<1>10. ActiveIsEnabled'
  BY DEF PluginIInv, ActiveIsEnabled
<1> QED  BY <1>3, <1>5, <1>6, <1>7, <1>8, <1>9, <1>10 DEF PluginIInv

\* A request, what it knows of its plugin, and the tables, are of their types.
LEMMA CallTyped ==
  ASSUME PluginIInv, NEW c \in PluginCallers
  PROVE  /\ call[c] \in PluginCalls /\ CallFits(call[c])
         /\ call[c].step # "idle" => call[c].user \in Users /\ toBoot = {}
         /\ row \in [Users -> RowType] /\ binary \in [Users -> Versions \cup {0}]
         /\ \A u \in Users : row[u].status = "active" => row[u].enabled
<1>1. call[c] \in PluginCalls /\ CallFits(call[c])
  BY DEF PluginIInv, ManagerTypeOK, CallsFit
<1> QED  BY <1>1 DEF CallFits, PluginIInv, ManagerTypeOK, PluginTypeOK, ActiveIsEnabled

\* A request that has not begun knows nothing.
LEMMA IdleTyped ==
  /\ Idle \in PluginCalls /\ Idle.step = "idle" /\ Idle.user = "none"
  /\ Idle.rec = NoRow /\ Idle.new = 0 /\ NoRow.status = "none"
  /\ CallFits(Idle) /\ CallFits(Idle)'
<1>1. NoRow \in Known /\ 0 \in Refs /\ NoRow.status = "none"
  BY EntriesPositive DEF Known, RowType, NoRow
<1>2. Idle \in PluginCalls
  BY <1>1 DEF Idle, PluginCalls, CallSteps
<1>3. /\ Idle.step = "idle" /\ Idle.user = "none" /\ Idle.rec = NoRow /\ Idle.new = 0
  BY DEF Idle
<1> QED  BY <1>1, <1>2, <1>3 DEF CallFits, TakenSteps, NewSteps

\* What a request remembers when only the release of a row matters to it.
LEMMA ReleaseTyped ==
  ASSUME ManagerTypeOK, NEW u \in Users
  PROVE  Release(u) \in Known /\ Release(u).ver = row[u].ver /\ Release(u).status = "none"
<1>1. row[u].ver \in Versions \cup {0}
  BY RowsTyped
<1> QED  BY <1>1 DEF Release, Known, NoRow

\* A request begins (Install, SetEnabled, Uninstall, RemoveAllForUser, StopAllForUser).
LEMMA BeginHolds ==
  ASSUME PluginIInv, OnePerPlugin, NEW c \in PluginCallers, NEW u \in Users,
         NEW v \in Versions \cup {0}, NEW rec \in Known,
         NEW step \in {"i_take", "d_take", "e_look", "x_take", "a_take", "s_take"},
         rec.status = "active" => rec.enabled,
         step \in {"i_take", "e_look", "x_take"} => rec.ver = row[u].ver,
         step = "i_take" => rec \in RowType /\ v # 0,
         Begin(c, u, v, rec, step), UNCHANGED <<disk, memory, outside>>
  PROVE  PluginIInv'
<1>1. PICK next \in PluginCalls : next = [Idle EXCEPT !.step = step, !.user = u, !.ver = v, !.rec = rec]
  BY IdleTyped, ZenonT(60) DEF PluginCalls, CallSteps
<1>2. /\ next.step = step /\ next.user = u /\ next.ver = v /\ next.rec = rec
  BY <1>1, IdleTyped DEF PluginCalls
<1>3. /\ toBoot = {} /\ call[c].step = "idle" /\ call' = [call EXCEPT ![c] = next]
      /\ UNCHANGED <<row, binary, active, toBoot>>
  BY <1>1 DEF Begin, At, disk, memory, outside
<1>4. CallFits(next)'
  BY <1>2, <1>3 DEF CallFits, TakenSteps, NewSteps
<1>5. /\ binary' \in [Users -> Versions \cup {0}] /\ row' \in [Users -> RowType]
      /\ \A w \in Users : row'[w] = row[w] /\ (row[w].status = "active" => row[w].enabled)
  BY <1>3, CallTyped
<1>6. call[c].step \notin NewSteps /\ next.step \notin NewSteps
  BY <1>2, <1>3 DEF NewSteps
<1> QED  BY <1>3, <1>4, <1>5, <1>6, CallMoves

\* A management request begins (Install, SetEnabled, Uninstall, RemoveAllForUser,
\* StopAllForUser).
LEMMA CallsBegin ==
  ASSUME PluginIInv, OnePerPlugin, NEW c \in PluginCallers, NEW u \in Users, CallBegins(c, u)
  PROVE  PluginIInv'
<1>1. /\ row[u] \in RowType /\ row[u] \in Known /\ (row[u].status = "active" => row[u].enabled)
      /\ Release(u) \in Known /\ Release(u).ver = row[u].ver /\ Release(u).status = "none"
      /\ NoRow \in Known /\ NoRow.status = "none"
  BY RowsTyped, ReleaseTyped DEF PluginIInv, ActiveIsEnabled, Known, RowType, NoRow
<1>2. ASSUME NEW v \in Versions, Install(c, u, v) PROVE PluginIInv'
  BY <1>1, <1>2, BeginHolds, VersionsAssumption DEF Install
<1>3. CASE Disable(c, u) \/ RemoveAllForUser(c, u) \/ StopAllForUser(c, u)
  BY <1>1, <1>3, BeginHolds DEF Disable, RemoveAllForUser, StopAllForUser
<1>4. CASE Enable(c, u) \/ Uninstall(c, u)
  BY <1>1, <1>4, BeginHolds DEF Enable, Uninstall
<1> QED  BY <1>2, <1>3, <1>4 DEF CallBegins

\* A request that has no child of its own ends, with the row it has written.
LEMMA CallEnds ==
  ASSUME PluginIInv, OnePerPlugin, NEW c \in PluginCallers, Done(c), UNCHANGED <<memory, outside>>,
         call[c].step # "idle", call[c].step \notin NewSteps,
         binary' \in [Users -> Versions \cup {0}], row' \in [Users -> RowType],
         \A w \in Users : row'[w] # row[w] => w = call[c].user,
         row'[call[c].user].ver = row[call[c].user].ver \/ active[call[c].user] = 0,
         row'[call[c].user].status = "active" => row'[call[c].user].enabled
  PROVE  PluginIInv'
<1>1. call[c].user \in Users /\ toBoot = {}
  BY CallTyped
<1>2. PICK next \in PluginCalls : next = Idle
  BY IdleTyped
<1>3. /\ call' = [call EXCEPT ![c] = next] /\ CallFits(next)' /\ next.step = "idle"
      /\ "idle" \notin NewSteps
  BY <1>2, IdleTyped DEF Done, NewSteps
<1> QED  BY <1>1, <1>3, CallMoves

\* A request moves on without a child of its own.
LEMMA CallGoesOn ==
  ASSUME PluginIInv, OnePerPlugin, NEW c \in PluginCallers, NEW next \in PluginCalls,
         call' = [call EXCEPT ![c] = next], UNCHANGED <<memory, outside>>,
         call[c].step # "idle", call[c].step \notin NewSteps, next.step \notin NewSteps,
         binary' \in [Users -> Versions \cup {0}], row' \in [Users -> RowType],
         \A w \in Users : row'[w] # row[w] => w = call[c].user,
         row'[call[c].user].ver = row[call[c].user].ver \/ active[call[c].user] = 0,
         row'[call[c].user].status = "active" => row'[call[c].user].enabled,
         CallFits(next)'
  PROVE  PluginIInv'
<1>1. call[c].user \in Users /\ toBoot = {}
  BY CallTyped
<1> QED  BY <1>1, CallMoves

\* An account's row with another status and switch.
LEMMA StatusTyped ==
  ASSUME row \in [Users -> RowType], NEW u \in Users, row[u] # NoRow, NEW enabled \in BOOLEAN,
         NEW status \in {"stopped", "active", "error", "disabled"},
         row' = [row EXCEPT ![u].enabled = enabled, ![u].status = status]
  PROVE  /\ row' \in [Users -> RowType]
         /\ \A w \in Users : w # u => row'[w] = row[w]
         /\ row'[u].ver = row[u].ver /\ row'[u].status = status /\ row'[u].enabled = enabled
<1>1. PICK x \in [enabled : BOOLEAN, status : {"stopped", "active", "error", "disabled"}, ver : Versions] :
        x = row[u]
  BY DEF RowType
<1>2. PICK y \in [enabled : BOOLEAN, status : {"stopped", "active", "error", "disabled"}, ver : Versions] :
        y = [x EXCEPT !.enabled = enabled, !.status = status]
  OBVIOUS
<1>3. y.ver = x.ver /\ y.status = status /\ y.enabled = enabled /\ y \in RowType
  BY <1>2 DEF RowType
<1>4. row' = [row EXCEPT ![u] = y]
  BY <1>1, <1>2
<1>5. row' \in [Users -> RowType] /\ row'[u] = y /\ \A w \in Users : w # u => row'[w] = row[w]
  BY <1>3, <1>4, ZenonT(60)
<1> QED  BY <1>1, <1>3, <1>5

\* UpdatePluginState, or its error.
LEMMA StateFits ==
  ASSUME PluginIInv, NEW c \in PluginCallers, call[c].step # "idle", NEW enabled \in BOOLEAN,
         NEW status \in {"stopped", "active", "error", "disabled"}, status = "active" => enabled,
         StateUpdated(c, enabled, status) \/ StateError(c)
  PROVE  /\ row' \in [Users -> RowType]
         /\ \A w \in Users : row'[w] # row[w] => w = call[c].user
         /\ row'[call[c].user].ver = row[call[c].user].ver
         /\ row'[call[c].user].status = "active" => row'[call[c].user].enabled
<1>1. PICK u \in Users : u = call[c].user
  BY CallTyped
<1>2. row \in [Users -> RowType] /\ (row[u].status = "active" => row[u].enabled)
  BY CallTyped
<1>3. CASE StateError(c)
  BY <1>1, <1>2, <1>3 DEF StateError
<1>4. CASE StateUpdated(c, enabled, status)
  <2>1. row[u] # NoRow /\ row' = [row EXCEPT ![u].enabled = enabled, ![u].status = status]
    BY <1>1, <1>4 DEF StateUpdated, Installed
  <2>2. /\ row' \in [Users -> RowType]
        /\ \A w \in Users : w # u => row'[w] = row[w]
        /\ row'[u].ver = row[u].ver /\ row'[u].status = status /\ row'[u].enabled = enabled
    BY <1>2, <2>1, StatusTyped
  <2> QED  BY <1>1, <2>2
<1> QED  BY <1>3, <1>4

\* The browser of a request goes away.
LEMMA HangUpHolds ==
  ASSUME PluginIInv, OnePerPlugin, NEW c \in PluginCallers, HangUp(c)
  PROVE  PluginIInv'
<1>1. call[c] \in PluginCalls /\ CallFits(call[c]) /\ call[c].step # "idle"
  BY CallTyped DEF HangUp, At
<1>2. PICK next \in PluginCalls : next = [call[c] EXCEPT !.hung = TRUE]
  BY <1>1 DEF PluginCalls
<1>3. /\ call' = [call EXCEPT ![c] = next] /\ UNCHANGED <<row, binary, memory, outside>>
      /\ UNCHANGED <<active, entries, recovery, toBoot>>
  BY <1>2 DEF HangUp, disk, memory, outside
<1>4. /\ next.step = call[c].step /\ next.user = call[c].user /\ next.ver = call[c].ver
      /\ next.rec = call[c].rec /\ next.new = call[c].new /\ next.meta = call[c].meta /\ next.hung
  BY <1>1, <1>2 DEF PluginCalls
<1>5. CallFits(next)'
  BY <1>1, <1>3, <1>4 DEF CallFits
<1>6. /\ call[c].user \in Users /\ toBoot = {} /\ row \in [Users -> RowType]
      /\ binary \in [Users -> Versions \cup {0}]
      /\ row[call[c].user].status = "active" => row[call[c].user].enabled
  BY <1>1, CallTyped
<1> QED  BY <1>3, <1>4, <1>5, <1>6, CallMoves

\* Install gives up before it has changed anything.
LEMMA InstallFailsHolds ==
  ASSUME PluginIInv, OnePerPlugin, NEW c \in PluginCallers, InstallFails(c)
  PROVE  PluginIInv'
<1>1. /\ call[c].step = "i_take" /\ call[c].user \in Users /\ row \in [Users -> RowType]
      /\ binary \in [Users -> Versions \cup {0}]
      /\ row[call[c].user].status = "active" => row[call[c].user].enabled
  BY CallTyped DEF InstallFails, At
<1> QED  BY <1>1, CallEnds DEF InstallFails, disk, NewSteps

\* The executable in place is moved aside, and the download takes its name.
LEMMA InstallSwapHolds ==
  ASSUME PluginIInv, OnePerPlugin, NEW c \in PluginCallers, InstallSwap(c)
  PROVE  PluginIInv'
<1>1. /\ call[c] \in PluginCalls /\ CallFits(call[c]) /\ call[c].step = "i_swap"
      /\ call[c].user \in Users /\ toBoot = {} /\ row \in [Users -> RowType]
      /\ binary \in [Users -> Versions \cup {0}]
      /\ row[call[c].user].status = "active" => row[call[c].user].enabled
  BY CallTyped DEF InstallSwap, At
<1>2. UNCHANGED <<row, memory, outside, active, toBoot>>
  BY DEF InstallSwap, memory, outside
<1>3. /\ binary' \in [Users -> Versions \cup {0}]
      /\ \E next \in PluginCalls :
           /\ call' = [call EXCEPT ![c] = next] /\ next.step \in {"i_row", "restore"}
           /\ next.user = call[c].user /\ next.ver = call[c].ver /\ next.rec = call[c].rec
  <2>1. CASE Then(c, "restore") /\ UNCHANGED binary
    <3>1. PICK next \in PluginCalls : next = [call[c] EXCEPT !.step = "restore"]
      BY <1>1 DEF PluginCalls, CallSteps, TakenSteps
    <3>2. /\ next.step = "restore" /\ next.user = call[c].user /\ next.ver = call[c].ver
          /\ next.rec = call[c].rec /\ call' = [call EXCEPT ![c] = next]
      BY <1>1, <2>1, <3>1 DEF PluginCalls, Then
    <3> QED  BY <1>1, <2>1, <3>2
  <2>2. CASE /\ binary' = [binary EXCEPT ![call[c].user] = call[c].ver]
             /\ call' = [call EXCEPT ![c].step = "i_row", ![c].aside = binary[call[c].user]]
    <3>1. call[c].ver \in Versions \cup {0} /\ binary[call[c].user] \in Versions \cup {0}
      BY <1>1 DEF PluginCalls
    <3>2. PICK next \in PluginCalls :
            next = [call[c] EXCEPT !.step = "i_row", !.aside = binary[call[c].user]]
      BY <1>1, <3>1 DEF PluginCalls, CallSteps, TakenSteps
    <3>3. /\ next.step = "i_row" /\ next.user = call[c].user /\ next.ver = call[c].ver
          /\ next.rec = call[c].rec /\ call' = [call EXCEPT ![c] = next]
      BY <1>1, <2>2, <3>2 DEF PluginCalls
    <3> QED  BY <1>1, <2>2, <3>1, <3>3
  <2> QED  BY <2>1, <2>2 DEF InstallSwap
<1>4. PICK next \in PluginCalls :
        /\ call' = [call EXCEPT ![c] = next] /\ next.step \in {"i_row", "restore"}
        /\ next.user = call[c].user /\ next.ver = call[c].ver /\ next.rec = call[c].rec
  BY <1>3
<1>5. CallFits(next)'
  BY <1>1, <1>2, <1>4 DEF CallFits, TakenSteps, NewSteps
<1> QED  BY <1>1, <1>2, <1>3, <1>4, <1>5, CallGoesOn DEF NewSteps

\* SavePlugin of the new release, or the way back.
LEMMA InstallRowHolds ==
  ASSUME PluginIInv, OnePerPlugin, NEW c \in PluginCallers, InstallRow(c)
  PROVE  PluginIInv'
<1>1. /\ call[c] \in PluginCalls /\ CallFits(call[c]) /\ call[c].step = "i_row"
      /\ call[c].user \in Users /\ toBoot = {} /\ row \in [Users -> RowType]
      /\ binary \in [Users -> Versions \cup {0}]
      /\ row[call[c].user].status = "active" => row[call[c].user].enabled
  BY CallTyped DEF InstallRow, At
<1>2. UNCHANGED <<binary, memory, outside, active, toBoot>>
  BY DEF InstallRow, memory, outside
<1>3. active[call[c].user] = 0 /\ call[c].ver \in Versions
  BY <1>1 DEF CallFits, TakenSteps, PluginCalls
<1>4. CASE call[c].hung
  <2>1. PICK next \in PluginCalls : next = [call[c] EXCEPT !.step = "u_binary"]
    BY <1>1 DEF PluginCalls, CallSteps, TakenSteps
  <2>2. /\ next.step = "u_binary" /\ next.user = call[c].user /\ next.ver = call[c].ver
        /\ next.rec = call[c].rec /\ call' = [call EXCEPT ![c] = next] /\ row' = row
    BY <1>1, <1>4, <2>1 DEF PluginCalls, Then, InstallRow
  <2>3. CallFits(next)'
    BY <1>1, <1>2, <2>2 DEF CallFits, TakenSteps, NewSteps
  <2> QED  BY <1>1, <1>2, <2>2, <2>3, CallGoesOn DEF NewSteps
<1>5. CASE ~call[c].hung
  <2>1. PICK next \in PluginCalls : next = [call[c] EXCEPT !.step = "i_start", !.meta = TRUE]
    BY <1>1 DEF PluginCalls, CallSteps, TakenSteps
  <2>2. /\ next.step = "i_start" /\ next.user = call[c].user /\ next.ver = call[c].ver
        /\ next.rec = call[c].rec /\ next.meta /\ call' = [call EXCEPT ![c] = next]
    BY <1>1, <1>5, <2>1 DEF PluginCalls, InstallRow
  <2>3. PICK r \in RowType : r = Row(TRUE, "stopped", call[c].ver)
    BY <1>3 DEF Row, RowType
  <2>4. r.ver = call[c].ver /\ r.status = "stopped" /\ r.enabled
    BY <2>3 DEF Row
  <2>5. row' = [row EXCEPT ![call[c].user] = r]
    BY <1>5, <2>3 DEF InstallRow
  <2>6. /\ row' \in [Users -> RowType] /\ row'[call[c].user] = r
        /\ \A w \in Users : row'[w] # row[w] => w = call[c].user
    BY <1>1, <2>5
  <2>7. CallFits(next)'
    BY <1>1, <1>2, <1>3, <2>2, <2>4, <2>6 DEF CallFits, TakenSteps, NewSteps
  <2> QED  BY <1>1, <1>2, <1>3, <2>2, <2>4, <2>6, <2>7, CallGoesOn DEF NewSteps
<1> QED  BY <1>4, <1>5

\* The executable moved aside comes back.
LEMMA UndoBinaryHolds ==
  ASSUME PluginIInv, OnePerPlugin, NEW c \in PluginCallers, UndoBinary(c)
  PROVE  PluginIInv'
<1>1. /\ call[c] \in PluginCalls /\ CallFits(call[c]) /\ call[c].step = "u_binary"
      /\ call[c].user \in Users /\ toBoot = {} /\ row \in [Users -> RowType]
      /\ binary \in [Users -> Versions \cup {0}]
      /\ row[call[c].user].status = "active" => row[call[c].user].enabled
  BY CallTyped DEF UndoBinary, At
<1>2. UNCHANGED <<row, memory, outside, active, toBoot>>
  BY DEF UndoBinary, memory, outside
<1>3. binary' \in [Users -> Versions \cup {0}]
  BY <1>1 DEF UndoBinary, PluginCalls
<1>4. PICK next \in PluginCalls : next = [call[c] EXCEPT !.step = IF call[c].meta THEN "u_row" ELSE "restore"]
  BY <1>1 DEF PluginCalls, CallSteps, TakenSteps
<1>5. /\ next.step = (IF call[c].meta THEN "u_row" ELSE "restore") /\ next.user = call[c].user
      /\ next.ver = call[c].ver /\ next.rec = call[c].rec /\ call' = [call EXCEPT ![c] = next]
  BY <1>1, <1>4 DEF PluginCalls, UndoBinary, Then
<1>6. CallFits(next)'
  BY <1>1, <1>2, <1>5 DEF CallFits, TakenSteps, NewSteps
<1> QED  BY <1>1, <1>2, <1>3, <1>5, <1>6, CallGoesOn DEF NewSteps

\* The row as it was before the installation, unless the context is done.
LEMMA UndoRowHolds ==
  ASSUME PluginIInv, OnePerPlugin, NEW c \in PluginCallers, UndoRow(c)
  PROVE  PluginIInv'
<1>1. /\ call[c] \in PluginCalls /\ CallFits(call[c]) /\ call[c].step = "u_row"
      /\ call[c].user \in Users /\ toBoot = {} /\ row \in [Users -> RowType]
      /\ binary \in [Users -> Versions \cup {0}]
      /\ row[call[c].user].status = "active" => row[call[c].user].enabled
  BY CallTyped DEF UndoRow, At
<1>2. UNCHANGED <<binary, memory, outside, active, toBoot>>
  BY DEF UndoRow, memory, outside
<1>3. /\ active[call[c].user] = 0 /\ call[c].rec \in RowType
      /\ call[c].rec.status = "active" => call[c].rec.enabled
  BY <1>1 DEF CallFits, TakenSteps
<1>4. PICK next \in PluginCalls : next = [call[c] EXCEPT !.step = "restore"]
  BY <1>1 DEF PluginCalls, CallSteps, TakenSteps
<1>5. /\ next.step = "restore" /\ next.user = call[c].user /\ next.hung = call[c].hung
      /\ next.ver = call[c].ver /\ next.rec = call[c].rec /\ call' = [call EXCEPT ![c] = next]
  BY <1>1, <1>4 DEF PluginCalls, UndoRow, Then
<1>6. /\ row' \in [Users -> RowType] /\ \A w \in Users : row'[w] # row[w] => w = call[c].user
      /\ row'[call[c].user] = IF call[c].hung THEN row[call[c].user] ELSE call[c].rec
  BY <1>1, <1>3 DEF UndoRow
<1>7. CallFits(next)'
  BY <1>1, <1>2, <1>5, <1>6 DEF CallFits, TakenSteps, NewSteps
<1> QED  BY <1>1, <1>2, <1>3, <1>5, <1>6, <1>7, CallGoesOn DEF NewSteps

\* SetEnabled(false) writes the state of a plugin whose child it has stopped.
LEMMA DisableStateHolds ==
  ASSUME PluginIInv, OnePerPlugin, NEW c \in PluginCallers, DisableState(c)
  PROVE  PluginIInv'
<1>1. /\ call[c].step = "d_state" /\ binary \in [Users -> Versions \cup {0}]
  BY CallTyped DEF DisableState, At
<1>2. /\ row' \in [Users -> RowType]
      /\ \A w \in Users : row'[w] # row[w] => w = call[c].user
      /\ row'[call[c].user].ver = row[call[c].user].ver
      /\ row'[call[c].user].status = "active" => row'[call[c].user].enabled
  BY <1>1, StateFits DEF DisableState
<1> QED  BY <1>1, <1>2, CallEnds DEF DisableState, NewSteps

\* getActive.
LEMMA EnableLookHolds ==
  ASSUME PluginIInv, OnePerPlugin, NEW c \in PluginCallers, EnableLook(c)
  PROVE  PluginIInv'
<1>1. /\ call[c] \in PluginCalls /\ CallFits(call[c]) /\ call[c].step = "e_look"
      /\ call[c].user \in Users /\ toBoot = {} /\ row \in [Users -> RowType]
      /\ binary \in [Users -> Versions \cup {0}]
      /\ row[call[c].user].status = "active" => row[call[c].user].enabled
  BY CallTyped DEF EnableLook, At
<1>2. UNCHANGED <<row, binary, memory, outside, active, toBoot>>
  BY DEF EnableLook, disk, memory, outside
<1>3. CASE Done(c)
  BY <1>1, <1>2, <1>3, CallEnds DEF NewSteps
<1>4. CASE active[call[c].user] = 0 /\ Then(c, "e_start")
  <2>1. PICK next \in PluginCalls : next = [call[c] EXCEPT !.step = "e_start"]
    BY <1>1 DEF PluginCalls, CallSteps, TakenSteps
  <2>2. /\ next.step = "e_start" /\ next.user = call[c].user
        /\ next.rec = call[c].rec /\ call' = [call EXCEPT ![c] = next]
    BY <1>1, <1>4, <2>1 DEF PluginCalls, Then
  <2>3. CallFits(next)'
    BY <1>1, <1>2, <1>4, <2>2 DEF CallFits, TakenSteps, NewSteps
  <2> QED  BY <1>1, <1>2, <2>2, <2>3, CallGoesOn DEF NewSteps
<1>5. CASE /\ active[call[c].user] # 0
           /\ call' = [call EXCEPT ![c].step = "e_mark", ![c].new = active[call[c].user]]
  <2>1. active[call[c].user] \in Refs
    BY <1>1 DEF PluginIInv, ManagerTypeOK, PluginTypeOK
  <2>2. PICK next \in PluginCalls : next = [call[c] EXCEPT !.step = "e_mark", !.new = active[call[c].user]]
    BY <1>1, <2>1 DEF PluginCalls, CallSteps
  <2>3. /\ next.step = "e_mark" /\ next.user = call[c].user /\ next.new = active[call[c].user]
        /\ next.rec = call[c].rec /\ call' = [call EXCEPT ![c] = next]
    BY <1>1, <1>5, <2>2 DEF PluginCalls
  <2>4. CallFits(next)'
    BY <1>1, <1>2, <1>5, <2>3 DEF CallFits, TakenSteps, NewSteps
  <2> QED  BY <1>1, <1>2, <2>3, <2>4, CallGoesOn DEF NewSteps
<1> QED  BY <1>3, <1>4, <1>5 DEF EnableLook

\* The executable is moved aside before the row goes.
LEMMA UninstallAsideHolds ==
  ASSUME PluginIInv, OnePerPlugin, NEW c \in PluginCallers, UninstallAside(c)
  PROVE  PluginIInv'
<1>1. /\ call[c] \in PluginCalls /\ CallFits(call[c]) /\ call[c].step = "x_aside"
      /\ call[c].user \in Users /\ toBoot = {} /\ row \in [Users -> RowType]
      /\ binary \in [Users -> Versions \cup {0}]
      /\ row[call[c].user].status = "active" => row[call[c].user].enabled
  BY CallTyped DEF UninstallAside, At
<1>2. UNCHANGED <<row, memory, outside, active, toBoot>>
  BY DEF UninstallAside, memory, outside
<1>3. CASE Then(c, "restore") /\ UNCHANGED binary
  <2>1. PICK next \in PluginCalls : next = [call[c] EXCEPT !.step = "restore"]
    BY <1>1 DEF PluginCalls, CallSteps, TakenSteps
  <2>2. /\ next.step = "restore" /\ next.user = call[c].user
        /\ next.rec = call[c].rec /\ call' = [call EXCEPT ![c] = next]
    BY <1>1, <1>3, <2>1 DEF PluginCalls, Then
  <2>3. CallFits(next)'
    BY <1>1, <1>2, <2>2 DEF CallFits, TakenSteps, NewSteps
  <2> QED  BY <1>1, <1>2, <1>3, <2>2, <2>3, CallGoesOn DEF NewSteps
<1>4. CASE /\ binary' = [binary EXCEPT ![call[c].user] = 0]
           /\ call' = [call EXCEPT ![c].step = "x_row", ![c].aside = binary[call[c].user]]
  <2>1. binary[call[c].user] \in Versions \cup {0} /\ binary' \in [Users -> Versions \cup {0}]
    BY <1>1, <1>4
  <2>2. PICK next \in PluginCalls :
          next = [call[c] EXCEPT !.step = "x_row", !.aside = binary[call[c].user]]
    BY <1>1, <2>1 DEF PluginCalls, CallSteps, TakenSteps
  <2>3. /\ next.step = "x_row" /\ next.user = call[c].user
        /\ next.rec = call[c].rec /\ call' = [call EXCEPT ![c] = next]
    BY <1>1, <1>4, <2>2 DEF PluginCalls
  <2>4. CallFits(next)'
    BY <1>1, <1>2, <2>3 DEF CallFits, TakenSteps, NewSteps
  <2> QED  BY <1>1, <1>2, <2>1, <2>3, <2>4, CallGoesOn DEF NewSteps
<1> QED  BY <1>3, <1>4 DEF UninstallAside

\* A row that goes while there is no entry.
LEMMA RowGone ==
  ASSUME row \in [Users -> RowType], NEW u \in Users, row' = [row EXCEPT ![u] = NoRow]
  PROVE  /\ row' \in [Users -> RowType] /\ row'[u] = NoRow
         /\ \A w \in Users : row'[w] # row[w] => w = u
         /\ row'[u].status # "active"
BY DEF RowType, NoRow

\* DeletePlugin, or the executable comes back.
LEMMA UninstallRowHolds ==
  ASSUME PluginIInv, OnePerPlugin, NEW c \in PluginCallers, UninstallRow(c)
  PROVE  PluginIInv'
<1>1. /\ call[c] \in PluginCalls /\ CallFits(call[c]) /\ call[c].step = "x_row"
      /\ call[c].user \in Users /\ toBoot = {} /\ row \in [Users -> RowType]
      /\ binary \in [Users -> Versions \cup {0}]
      /\ row[call[c].user].status = "active" => row[call[c].user].enabled
  BY CallTyped DEF UninstallRow, At
<1>2. UNCHANGED <<memory, outside, active, toBoot>> /\ active[call[c].user] = 0
  BY <1>1 DEF UninstallRow, memory, outside, CallFits, TakenSteps
<1>3. CASE call[c].hung \/ ~Installed(call[c].user)
  <2>1. /\ binary' = [binary EXCEPT ![call[c].user] = call[c].aside]
        /\ Then(c, "restore") /\ UNCHANGED row
    BY <1>3 DEF UninstallRow
  <2>2. binary' \in [Users -> Versions \cup {0}]
    BY <1>1, <2>1 DEF PluginCalls
  <2>3. PICK next \in PluginCalls : next = [call[c] EXCEPT !.step = "restore"]
    BY <1>1 DEF PluginCalls, CallSteps, TakenSteps
  <2>4. /\ next.step = "restore" /\ next.user = call[c].user
        /\ next.rec = call[c].rec /\ call' = [call EXCEPT ![c] = next]
    BY <1>1, <2>1, <2>3 DEF PluginCalls, Then
  <2>5. CallFits(next)'
    BY <1>1, <1>2, <2>1, <2>4 DEF CallFits, TakenSteps, NewSteps
  <2> QED  BY <1>1, <1>2, <2>1, <2>2, <2>4, <2>5, CallGoesOn DEF NewSteps
<1>4. CASE ~(call[c].hung \/ ~Installed(call[c].user))
  <2>1. row' = [row EXCEPT ![call[c].user] = NoRow] /\ Done(c) /\ UNCHANGED binary
    BY <1>4 DEF UninstallRow
  <2> QED  BY <1>1, <1>2, <2>1, RowGone, CallEnds DEF NewSteps
<1> QED  BY <1>3, <1>4

\* What RemoveAllForUser does once the entry is gone.
LEMMA RemoveAllHolds ==
  ASSUME PluginIInv, OnePerPlugin, NEW c \in PluginCallers, RemoveAll(c)
  PROVE  PluginIInv'
<1>1. /\ call[c] \in PluginCalls /\ CallFits(call[c]) /\ call[c].step = "a_row"
      /\ call[c].user \in Users /\ toBoot = {} /\ row \in [Users -> RowType]
      /\ binary \in [Users -> Versions \cup {0}]
      /\ row[call[c].user].status = "active" => row[call[c].user].enabled
  BY CallTyped DEF RemoveAll, At
<1>2. /\ UNCHANGED <<memory, outside>> /\ active[call[c].user] = 0 /\ Done(c)
  BY <1>1 DEF RemoveAll, CallFits, TakenSteps
<1>3. CASE call[c].hung
  <2>1. UNCHANGED <<row, binary>>
    BY <1>3 DEF RemoveAll, disk
  <2> QED  BY <1>1, <1>2, <2>1, CallEnds DEF NewSteps
<1>4. CASE ~call[c].hung
  <2>1. /\ row' = [row EXCEPT ![call[c].user] = NoRow] /\ binary' = [binary EXCEPT ![call[c].user] = 0]
    BY <1>4 DEF RemoveAll
  <2>2. binary' \in [Users -> Versions \cup {0}]
    BY <1>1, <2>1
  <2> QED  BY <1>1, <1>2, <2>1, <2>2, RowGone, CallEnds DEF NewSteps
<1> QED  BY <1>3, <1>4

\* The child of a request is no entry of a map.
LEMMA NewApart ==
  ASSUME PluginIInv, NEW c \in PluginCallers, call[c].step \in NewSteps
  PROVE  /\ call[c].new \in Entries /\ call[c].user \in Users /\ call[c].step # "idle"
         /\ entries[call[c].new].user = call[c].user
         /\ recovery[call[c].new].step = "none"
         /\ \A d \in Entries : recovery[d].new # call[c].new
         /\ entries[call[c].new].proc = "up" => entries[call[c].new].ver = row[call[c].user].ver
         /\ \A u \in Users : active[u] # call[c].new
<1>1. /\ call[c] \in PluginCalls /\ CallFits(call[c]) /\ call[c].step # "idle"
      /\ call[c].step \in TakenSteps
  BY CallTyped DEF NewSteps, TakenSteps
<1>2. call[c].new \in Entries /\ call[c].user \in Users
  BY <1>1, EntriesPositive DEF CallFits, PluginCalls
<1>3. \A u \in Users : active[u] # call[c].new
  BY <1>1, <1>2, EntriesPositive DEF CallFits, PluginIInv, ActiveFits
<1> QED  BY <1>1, <1>2, <1>3 DEF CallFits

\* takeActive and stopRuntime.
LEMMA TakeHolds ==
  ASSUME PluginIInv, OnePerPlugin, NEW c \in PluginCallers,
         NEW from \in {"i_take", "d_take", "x_take", "a_take", "s_take"},
         NEW to \in {"i_swap", "d_state", "x_aside", "a_row", "idle"},
         to = "i_swap" => from = "i_take", to = "x_aside" => from = "x_take",
         TakeAndStop(c, from, to)
  PROVE  PluginIInv'
<1>1. /\ call[c] \in PluginCalls /\ CallFits(call[c]) /\ call[c].step = from
      /\ call[c].user \in Users /\ toBoot = {} /\ row \in [Users -> RowType]
      /\ binary \in [Users -> Versions \cup {0}]
  BY CallTyped DEF TakeAndStop, At
<1>2. PICK u \in Users : u = call[c].user
  BY <1>1
<1>3. /\ active' = [active EXCEPT ![u] = 0] /\ Discard(active[u])
      /\ UNCHANGED <<row, binary, recovering, recovery, closed, toBoot>>
  BY <1>2 DEF TakeAndStop, disk, outside
<1>4. PICK a \in Refs : a = active[u]
  BY DEF PluginIInv, ManagerTypeOK, PluginTypeOK
<1>5. /\ active' \in [Users -> Refs] /\ active'[u] = 0 /\ \A w \in Users : w # u => active'[w] = active[w]
  BY <1>3, EntriesPositive DEF PluginIInv, ManagerTypeOK, PluginTypeOK
<1>6. a # 0 => a \in Entries /\ entries[a].user = u
  BY <1>4, EntriesPositive DEF PluginIInv, ActiveFits
<1>7. /\ entries' \in [Entries -> Plugged]
      /\ \A e \in Entries : e # a => entries'[e] = entries[e]
      /\ a # 0 => /\ entries'[a].proc = "down"
                  /\ recovery[a].step = "none" => ~entries'[a].failed
                  /\ recovery[a].step # "none" => entries'[a].user = u
  <2>1. entries \in [Entries -> Plugged]
    BY DEF PluginIInv, ManagerTypeOK, PluginTypeOK, Plugged
  <2>2. CASE a = 0
    BY <1>3, <1>4, <2>1, <2>2, EntriesPositive DEF Discard
  <2>3. CASE a # 0
    <3>1. PICK v \in Plugged : v = IF recovery[a] = Resting THEN NoEntry ELSE Stopped(entries[a])
      BY <1>6, <2>1, <2>3 DEF Plugged, NoEntry, Stopped
    <3>2. entries' = [entries EXCEPT ![a] = v]
      BY <1>3, <1>4, <2>3, <3>1 DEF Discard
    <3>3. v.proc = "down" /\ (recovery[a] = Resting => ~v.failed) /\ (recovery[a] # Resting => v.user = u)
      BY <1>6, <2>1, <2>3, <3>1 DEF Plugged, NoEntry, Stopped
    <3>4. recovery[a].step = "none" <=> recovery[a] = Resting
      BY <1>6, <2>3 DEF PluginIInv, RecoveryFits, Resting
    <3> QED  BY <1>6, <2>1, <2>3, <3>2, <3>3, <3>4
  <2> QED  BY <2>2, <2>3
<1>8. \E next \in PluginCalls :
        /\ call' = [call EXCEPT ![c] = next] /\ next.step = to
        /\ next.rec.status = "active" => next.rec.enabled
        /\ to # "idle" => next.user = u /\ next.rec = call[c].rec /\ next.ver = call[c].ver
  <2>1. CASE to = "idle"
    BY <2>1, IdleTyped DEF TakeAndStop, Done
  <2>2. CASE to # "idle"
    <3>1. PICK next \in PluginCalls : next = [call[c] EXCEPT !.step = to, !.old = active[u] # 0]
      BY <1>1 DEF PluginCalls, CallSteps, TakenSteps
    <3>2. /\ next.step = to /\ next.user = u /\ next.rec = call[c].rec /\ next.ver = call[c].ver
          /\ call' = [call EXCEPT ![c] = next]
      BY <1>1, <1>2, <2>2, <3>1 DEF PluginCalls, TakeAndStop
    <3> QED  BY <1>1, <3>2 DEF CallFits
  <2> QED  BY <2>1, <2>2
<1>9. PICK next \in PluginCalls :
        /\ call' = [call EXCEPT ![c] = next] /\ next.step = to
        /\ next.rec.status = "active" => next.rec.enabled
        /\ to # "idle" => next.user = u /\ next.rec = call[c].rec /\ next.ver = call[c].ver
  BY <1>8
<1>10. /\ call' \in [PluginCallers -> PluginCalls] /\ call'[c] = next
       /\ \A d \in PluginCallers : d # c => call'[d] = call[d]
       /\ next.rec.ver \in Versions \cup {0} /\ next.new \in Refs
  BY <1>9 DEF PluginIInv, ManagerTypeOK, PluginCalls, Known, RowType, NoRow
<1>11. ManagerTypeOK'
  BY <1>3, <1>5, <1>7, <1>10 DEF PluginIInv, ManagerTypeOK, PluginTypeOK, Plugged
<1>12. EntriesFit'
  BY <1>6, <1>7, EntriesPositive DEF PluginIInv, EntriesFit
<1>13. ActiveFits'
  BY <1>3, <1>5, <1>6, <1>7, EntriesPositive DEF PluginIInv, ActiveFits, ManagerTypeOK, PluginTypeOK
<1>14. RecoveryFits'
  <2>1. \A e \in Entries : recovery[e].new # 0 => recovery[e].new \in Entries /\ recovery[e].new # a
    BY <1>4, EntriesPositive DEF PluginIInv, RecoveryFits, ManagerTypeOK, PluginTypeOK
  <2>2. \A e \in Entries : recovery[e].step # "none" => entries'[e].user = entries[e].user
    BY <1>6, <1>7, EntriesPositive
  <2>3. \A e \in Entries : recovery[e].new # 0 => recovery[e].step # "none" /\ entries[e].user \in Users
    BY DEF PluginIInv, RecoveryFits
  <2>4. \A e \in Entries : \A w \in Users : active'[w] = e => active[w] = e
    BY <1>5, EntriesPositive
  <2> QED  BY <1>3, <1>5, <1>7, <2>1, <2>2, <2>3, <2>4 DEF PluginIInv, RecoveryFits, Working
<1>15. RecoveriesApart'
  BY <1>3, <1>6, <1>7, EntriesPositive DEF PluginIInv, RecoveriesApart, RecoveryFits, Working
<1>16. \A d \in PluginCallers : call[d].step \in NewSteps => d # c /\ call[d].new # a /\ call[d].new \in Entries
  BY <1>1, <1>4, NewApart DEF NewSteps
<1>17. ChildrenOwned'
  <2>1. ASSUME NEW e \in Entries, entries'[e].proc = "up" PROVE Owned(e)'
    <3>1. e # a /\ entries[e].proc = "up"
      BY <1>6, <1>7, <2>1, EntriesPositive
    <3>2. Owned(e)
      BY <3>1 DEF PluginIInv, ChildrenOwned
    <3> QED  BY <1>3, <1>4, <1>5, <1>10, <1>16, <3>1, <3>2 DEF Owned
  <2> QED  BY <2>1 DEF ChildrenOwned
<1>18. CallsFit'
  <2>1. ASSUME NEW d \in PluginCallers, d # c PROVE \A o : o = call'[d] => CallFits(o)'
    <3>1. call[d].step \in NewSteps =>
            /\ entries'[call[d].new] = entries[call[d].new]
            /\ recovery'[call[d].new].step = "none"
            /\ \A x \in Entries : recovery'[x].new # call[d].new
      BY <1>3, <1>7, <1>16, <2>1, NewApart
    <3>2. active[call[d].user] = 0 => active'[call[d].user] = 0
      BY <1>3
    <3> QED  BY <1>1, <1>3, <1>10, <2>1, <3>1, <3>2, CallStays
  <2>2. CallFits(next)'
    BY <1>1, <1>2, <1>3, <1>5, <1>9 DEF CallFits, TakenSteps, NewSteps
  <2>3. \A d \in PluginCallers : \A o : o = call'[d] => CallFits(o)'
    BY <1>10, <2>1, <2>2
  <2> QED  BY <2>3 DEF CallsFit
<1>19. BootFits' /\ ActiveIsEnabled'
  BY <1>1, <1>3 DEF PluginIInv, BootFits, ActiveIsEnabled
<1> QED  BY <1>11, <1>12, <1>13, <1>14, <1>15, <1>17, <1>18, <1>19 DEF PluginIInv

\* A new entry is on its own.
LEMMA CreateFits ==
  ASSUME PluginIInv, NEW u \in Users, NEW v \in Versions \cup {0}, NEW proc \in {"up", "down"},
         Create(u, v, proc)
  PROVE  \E n \in Entries :
           /\ n = Fresh
           /\ entries' \in [Entries -> Plugged]
           /\ entries'[n].user = u /\ entries'[n].ver = v /\ entries'[n].proc = proc
           /\ \A e \in Entries : e # n => entries'[e] = entries[e]
           /\ \A w \in Users : active[w] # n
           /\ \A c \in PluginCallers : call[c].new # n
           /\ \A e \in Entries : recovery[e].new # n
           /\ recovery[n] = Resting /\ entries[n].proc = "down"
<1>1. PICK n \in Entries : n = Fresh
  BY FreshFits DEF Create
<1> DEFINE x == [user |-> u, ver |-> v, proc |-> proc, failed |-> proc = "down"]
<1>2. x \in Plugged
  <2>1. CASE proc = "up"
    <3>1. x = [user |-> u, ver |-> v, proc |-> "up", failed |-> FALSE]
      BY <2>1
    <3> QED  BY <3>1 DEF Plugged
  <2>2. CASE proc = "down"
    <3>1. x = [user |-> u, ver |-> v, proc |-> "down", failed |-> TRUE]
      BY <2>2
    <3> QED  BY <3>1 DEF Plugged
  <2> QED  BY <2>1, <2>2
<1>3. entries' = [entries EXCEPT ![n] = x] /\ entries \in [Entries -> Plugged]
  BY <1>1 DEF Create, PluginIInv, ManagerTypeOK, PluginTypeOK, Plugged
<1>4. x.user = u /\ x.ver = v /\ x.proc = proc
  OBVIOUS
<1> HIDE DEF x
<1>5. /\ entries' \in [Entries -> Plugged] /\ entries'[n] = x
      /\ \A e \in Entries : e # n => entries'[e] = entries[e]
  BY <1>2, <1>3
<1> QED  BY <1>1, <1>4, <1>5, FreshFits DEF Create

\* Requests other than the one that activates entry n of account u are about
\* other accounts, and that one has let go of it.
ApartFrom(u, n) ==
  \A d \in PluginCallers :
    \/ /\ call'[d] = call[d] /\ (call[d].step # "idle" => call[d].user # u)
       /\ call[d].step \in NewSteps => call[d].new # n
    \/ /\ \A o : o = call'[d] => CallFits(o)'
       /\ call[d].step \in NewSteps => call[d].new = n

\* Entry n takes its place in the map.
LEMMA Activates ==
  ASSUME PluginIInv, NEW u \in Users, NEW n \in Entries, active[u] = 0,
         active' = [active EXCEPT ![u] = n],
         entries' \in [Entries -> Plugged], entries'[n].user = u,
         entries'[n].proc = "up" => entries'[n].ver = row'[u].ver,
         \A e \in Entries : e # n => entries'[e] = entries[e],
         recovery[n].step = "none", \A e \in Entries : recovery[e].new # n,
         \A w \in Users : active[w] # n,
         \/ UNCHANGED <<recovering, recovery>>
         \/ /\ u \notin recovering /\ recovering' = recovering \cup {u}
            /\ recovery' = [recovery EXCEPT ![n] = [Resting EXCEPT !.step = "record"]],
         row' \in [Users -> RowType], \A w \in Users : row'[w].ver = row[w].ver,
         \A w \in Users : row'[w].status = "active" => row'[w].enabled,
         \A w \in toBoot : w # u => row'[w].enabled,
         binary' = binary, closed' = closed, toBoot' = toBoot \ {u},
         call' \in [PluginCallers -> PluginCalls],
         ApartFrom(u, n)
  PROVE  PluginIInv'
<1>1. active' \in [Users -> Refs] /\ active'[u] = n /\ \A w \in Users : w # u => active'[w] = active[w]
  BY EntriesPositive DEF PluginIInv, ManagerTypeOK, PluginTypeOK
<1>2. /\ recovering \subseteq recovering' /\ recovering' \subseteq Users
      /\ recovery' \in [Entries -> [step : {"none", "record", "read", "start", "off", "swap", "status"},
                                    ver : Versions \cup {0}, new : Refs]]
      /\ \A e \in Entries : e # n => recovery'[e] = recovery[e]
      /\ \/ recovery'[n] = Resting
         \/ /\ recovery'[n].step = "record" /\ recovery'[n].new = 0
            /\ u \notin recovering /\ u \in recovering'
  <2>1. recovery[n] = Resting
    BY DEF PluginIInv, RecoveryFits
  <2>2. PICK x \in [step : {"none", "record", "read", "start", "off", "swap", "status"},
                    ver : Versions \cup {0}, new : Refs] : x = [Resting EXCEPT !.step = "record"]
    BY EntriesPositive DEF Resting
  <2>3. x.step = "record" /\ x.new = 0
    BY <2>2 DEF Resting
  <2>4. /\ recovering \subseteq Users
        /\ recovery \in [Entries -> [step : {"none", "record", "read", "start", "off", "swap", "status"},
                                     ver : Versions \cup {0}, new : Refs]]
    BY DEF PluginIInv, ManagerTypeOK, PluginTypeOK
  <2>5. CASE UNCHANGED <<recovering, recovery>>
    BY <2>1, <2>4, <2>5
  <2>6. CASE /\ u \notin recovering /\ recovering' = recovering \cup {u}
             /\ recovery' = [recovery EXCEPT ![n] = [Resting EXCEPT !.step = "record"]]
    BY <2>2, <2>3, <2>4, <2>6
  <2> QED  BY <2>5, <2>6
<1>3. ManagerTypeOK'
  <2>1. \A d \in PluginCallers : call'[d].rec.ver \in Versions \cup {0} /\ call'[d].new \in Refs
    BY DEF PluginCalls, Known, RowType, NoRow
  <2> QED  BY <1>1, <1>2, <2>1 DEF PluginIInv, ManagerTypeOK, PluginTypeOK, Plugged
<1>4. EntriesFit'
  BY DEF PluginIInv, EntriesFit
<1>5. ActiveFits'
  BY <1>1, EntriesPositive DEF PluginIInv, ActiveFits, ManagerTypeOK, PluginTypeOK
<1>6. /\ Resting.step = "none" /\ Resting.new = 0
      /\ \A e \in Entries : recovery[e].new # 0 => recovery[e].new \in Entries
  BY EntriesPositive DEF Resting, PluginIInv, ManagerTypeOK, PluginTypeOK
<1>7. RecoveryFits'
  <2>1. ASSUME NEW e \in Entries, e # n
        PROVE  /\ recovery'[e].step = "none" => recovery'[e] = Resting
               /\ recovery'[e].step # "none" => entries'[e].user \in Users
               /\ Working(e)' => entries'[e].user \in recovering'
               /\ recovery'[e].step = "status" => \A w \in Users : active'[w] # e
               /\ recovery'[e].step # "swap" => recovery'[e].new = 0
               /\ recovery'[e].step = "start" /\ active'[entries'[e].user] = e =>
                    recovery'[e].ver = row'[entries'[e].user].ver
               /\ recovery'[e].new # 0 =>
                    /\ entries'[recovery'[e].new].user = entries'[e].user
                    /\ recovery'[recovery'[e].new].step = "none"
                    /\ \A w \in Users : active'[w] # recovery'[e].new
                    /\ entries'[recovery'[e].new].proc = "up" /\ active'[entries'[e].user] = e =>
                         entries'[recovery'[e].new].ver = row'[entries'[e].user].ver
    BY <1>1, <1>2, <1>6, <2>1 DEF PluginIInv, RecoveryFits, Working
  <2>2. /\ recovery'[n].step = "none" => recovery'[n] = Resting
        /\ recovery'[n].step \in {"none", "record"} /\ recovery'[n].new = 0
        /\ entries'[n].user \in Users
        /\ recovery'[n].step = "record" => entries'[n].user \in recovering'
    BY <1>2, <1>6
  <2> QED  BY <2>1, <2>2 DEF RecoveryFits, Working
<1>8. RecoveriesApart'
  BY <1>2, <1>6 DEF PluginIInv, RecoveriesApart, RecoveryFits, Working
<1>9. ChildrenOwned'
  <2>1. ASSUME NEW e \in Entries, e # n, entries'[e].proc = "up" PROVE Owned(e)'
    <3>1. Owned(e)
      BY <2>1 DEF PluginIInv, ChildrenOwned
    <3>2. ASSUME NEW w \in Users, active[w] = e PROVE active'[w] = e
      BY <1>1, <3>2, EntriesPositive
    <3>3. ASSUME NEW d \in PluginCallers, call[d].step \in NewSteps, call[d].new = e PROVE call'[d] = call[d]
      BY <2>1, <3>3 DEF ApartFrom
    <3>4. ASSUME NEW d \in Entries, recovery[d].new = e PROVE recovery'[d].new = e
      BY <1>2, <1>6, <3>4, EntriesPositive DEF PluginIInv, RecoveryFits
    <3> QED  BY <1>2, <2>1, <3>1, <3>2, <3>3, <3>4 DEF Owned
  <2>2. Owned(n)'
    BY <1>1 DEF Owned
  <2> QED  BY <2>1, <2>2 DEF ChildrenOwned
<1>10. CallsFit'
  <2>1. ASSUME NEW d \in PluginCallers, call'[d] = call[d], call[d].step # "idle" => call[d].user # u,
               call[d].step \in NewSteps => call[d].new # n
        PROVE  \A o : o = call'[d] => CallFits(o)'
    <3>1. call[d].step # "idle" => call[d].user \in Users /\ toBoot = {}
      BY CallTyped
    <3>2. call[d].step # "idle" => active'[call[d].user] = active[call[d].user]
      BY <1>1, <2>1, <3>1
    <3>3. call[d].step \in NewSteps =>
            /\ entries'[call[d].new] = entries[call[d].new]
            /\ recovery'[call[d].new].step = "none"
            /\ \A x \in Entries : recovery'[x].new # call[d].new
      BY <1>2, <1>6, <2>1, NewApart, EntriesPositive
    <3> QED  BY <2>1, <3>1, <3>2, <3>3, CallStays
  <2>2. \A d \in PluginCallers : \A o : o = call'[d] => CallFits(o)'
    BY <2>1 DEF ApartFrom
  <2> QED  BY <2>2 DEF CallsFit
<1>11. BootFits' /\ ActiveIsEnabled'
  BY <1>1 DEF PluginIInv, BootFits, ActiveIsEnabled, ManagerTypeOK, PluginTypeOK
<1> QED  BY <1>3, <1>4, <1>5, <1>7, <1>8, <1>9, <1>10, <1>11 DEF PluginIInv

\* A request starts a child of its own.
LEMMA StartChildHolds ==
  ASSUME PluginIInv, OnePerPlugin, NEW c \in PluginCallers, NEW v,
         \/ call[c].step = "i_start" /\ v = call[c].ver /\ StartChild(c, v, "i_state")
         \/ call[c].step = "e_start" /\ v = call[c].rec.ver /\ StartChild(c, v, "e_active"),
         UNCHANGED <<disk, active, recovering, recovery, outside>>
  PROVE  PluginIInv'
<1>1. /\ call[c] \in PluginCalls /\ CallFits(call[c]) /\ call[c].step \notin NewSteps
      /\ call[c].step # "idle" /\ call[c].step \in TakenSteps
      /\ call[c].user \in Users /\ toBoot = {} /\ row \in [Users -> RowType]
      /\ binary \in [Users -> Versions \cup {0}]
  BY CallTyped DEF NewSteps, TakenSteps
<1>2. PICK u \in Users : u = call[c].user
  BY <1>1
<1>3. /\ binary[u] = v /\ binary[u] \in Versions \cup {0} /\ Create(u, binary[u], "up")
      /\ \/ call[c].step = "i_start" /\ call' = [call EXCEPT ![c].step = "i_state", ![c].new = Fresh]
         \/ call[c].step = "e_start" /\ call' = [call EXCEPT ![c].step = "e_active", ![c].new = Fresh]
      /\ UNCHANGED <<row, binary, active, recovering, recovery, closed, toBoot>>
  BY <1>1, <1>2 DEF StartChild, Startable, disk, outside
<1>4. v = row[u].ver /\ active[u] = 0
  BY <1>1, <1>2 DEF CallFits
<1>5. PICK n \in Entries :
        /\ n = Fresh
        /\ entries' \in [Entries -> Plugged]
        /\ entries'[n].user = u /\ entries'[n].ver = v /\ entries'[n].proc = "up"
        /\ \A e \in Entries : e # n => entries'[e] = entries[e]
        /\ \A w \in Users : active[w] # n
        /\ \A d \in PluginCallers : call[d].new # n
        /\ \A e \in Entries : recovery[e].new # n
        /\ recovery[n] = Resting /\ entries[n].proc = "down"
  BY <1>3, CreateFits
<1>6. \E next \in PluginCalls :
        /\ call' = [call EXCEPT ![c] = next] /\ next.user = u /\ next.new = n /\ next.rec = call[c].rec
        /\ next.ver = call[c].ver /\ next.meta = call[c].meta
        /\ \/ call[c].step = "i_start" /\ next.step = "i_state"
           \/ call[c].step = "e_start" /\ next.step = "e_active"
  <2>1. CASE call[c].step = "i_start" /\ call' = [call EXCEPT ![c].step = "i_state", ![c].new = Fresh]
    <3>1. PICK next \in PluginCalls : next = [call[c] EXCEPT !.step = "i_state", !.new = n]
      BY <1>1, EntriesPositive DEF PluginCalls, CallSteps, TakenSteps
    <3>2. /\ next.step = "i_state" /\ next.user = u /\ next.new = n /\ next.rec = call[c].rec
          /\ next.ver = call[c].ver /\ next.meta = call[c].meta /\ call' = [call EXCEPT ![c] = next]
      BY <1>1, <1>2, <1>5, <2>1, <3>1 DEF PluginCalls
    <3> QED  BY <2>1, <3>2
  <2>2. CASE call[c].step = "e_start" /\ call' = [call EXCEPT ![c].step = "e_active", ![c].new = Fresh]
    <3>1. PICK next \in PluginCalls : next = [call[c] EXCEPT !.step = "e_active", !.new = n]
      BY <1>1, EntriesPositive DEF PluginCalls, CallSteps, TakenSteps
    <3>2. /\ next.step = "e_active" /\ next.user = u /\ next.new = n /\ next.rec = call[c].rec
          /\ next.ver = call[c].ver /\ next.meta = call[c].meta /\ call' = [call EXCEPT ![c] = next]
      BY <1>1, <1>2, <1>5, <2>2, <3>1 DEF PluginCalls
    <3> QED  BY <2>2, <3>2
  <2> QED  BY <1>3, <2>1, <2>2
<1>7. PICK next \in PluginCalls :
        /\ call' = [call EXCEPT ![c] = next] /\ next.user = u /\ next.new = n /\ next.rec = call[c].rec
        /\ next.ver = call[c].ver /\ next.meta = call[c].meta
        /\ \/ call[c].step = "i_start" /\ next.step = "i_state"
           \/ call[c].step = "e_start" /\ next.step = "e_active"
  BY <1>6
<1>8. /\ call' \in [PluginCallers -> PluginCalls] /\ call'[c] = next
      /\ \A d \in PluginCallers : d # c => call'[d] = call[d]
      /\ \A d \in PluginCallers : call'[d].rec.ver \in Versions \cup {0} /\ call'[d].new \in Refs
  BY <1>7 DEF PluginIInv, ManagerTypeOK, PluginCalls, Known, RowType, NoRow
<1>9. ManagerTypeOK'
  BY <1>3, <1>5, <1>8 DEF PluginIInv, ManagerTypeOK, PluginTypeOK, Plugged
<1>10. Resting.step = "none"
  BY DEF Resting
<1>11. EntriesFit' /\ ActiveFits' /\ RecoveriesApart'
  <2>1. EntriesFit'
    BY <1>5 DEF PluginIInv, EntriesFit
  <2>2. ActiveFits'
    BY <1>3, <1>5, EntriesPositive DEF PluginIInv, ActiveFits, ManagerTypeOK, PluginTypeOK
  <2>3. RecoveriesApart'
    BY <1>3, <1>5, <1>10 DEF PluginIInv, RecoveriesApart, Working
  <2> QED  BY <2>1, <2>2, <2>3
<1>12. RecoveryFits'
  <2>1. \A e \in Entries : recovery[e].step # "none" => entries'[e] = entries[e]
    BY <1>5, <1>10
  <2>2. \A e \in Entries : recovery[e].new # 0 =>
          /\ entries'[recovery[e].new] = entries[recovery[e].new]
          /\ entries'[e] = entries[e]
    BY <1>5, <1>10, <2>1, EntriesPositive DEF PluginIInv, RecoveryFits, ManagerTypeOK, PluginTypeOK
  <2>3. \A e \in Entries : recovery[e].step = "start" => entries'[e] = entries[e]
    BY <2>1
  <2> QED  BY <1>3, <2>1, <2>2, <2>3 DEF PluginIInv, RecoveryFits, Working
<1>13. ChildrenOwned'
  <2>1. ASSUME NEW e \in Entries, e # n, entries'[e].proc = "up" PROVE Owned(e)'
    <3>1. Owned(e)
      BY <1>5, <2>1 DEF PluginIInv, ChildrenOwned
    <3> QED  BY <1>1, <1>3, <1>8, <3>1 DEF Owned
  <2>2. Owned(n)'
    BY <1>7, <1>8 DEF Owned, NewSteps
  <2> QED  BY <2>1, <2>2 DEF ChildrenOwned
<1>14. CallsFit'
  <2>1. ASSUME NEW d \in PluginCallers, d # c PROVE \A o : o = call'[d] => CallFits(o)'
    <3>1. call[d].step \in NewSteps =>
            /\ entries'[call[d].new] = entries[call[d].new]
            /\ recovery'[call[d].new].step = "none"
            /\ \A x \in Entries : recovery'[x].new # call[d].new
      BY <1>3, <1>5, NewApart
    <3> QED  BY <1>1, <1>3, <1>8, <2>1, <3>1, CallStays
  <2>2. CallFits(next)'
    BY <1>1, <1>3, <1>4, <1>5, <1>7, <1>10, EntriesPositive DEF CallFits, TakenSteps, NewSteps
  <2>3. \A d \in PluginCallers : \A o : o = call'[d] => CallFits(o)'
    BY <1>8, <2>1, <2>2
  <2> QED  BY <2>3 DEF CallsFit
<1>15. BootFits' /\ ActiveIsEnabled'
  BY <1>1, <1>3 DEF PluginIInv, BootFits, ActiveIsEnabled
<1> QED  BY <1>9, <1>11, <1>12, <1>13, <1>14, <1>15 DEF PluginIInv

\* A request goes on to a step, and leaves memory alone.
LEMMA GoesToHolds ==
  ASSUME PluginIInv, OnePerPlugin, NEW c \in PluginCallers, UNCHANGED <<binary, memory, outside>>,
         NEW to, Then(c, to),
         \/ call[c].step = "i_start" /\ to = "u_binary" /\ UNCHANGED row
         \/ call[c].step = "e_start" /\ to = "e_error" /\ UNCHANGED row
         \/ call[c].step = "e_error" /\ to = "e_place",
         row' \in [Users -> RowType],
         \A w \in Users : row'[w] # row[w] => w = call[c].user,
         row'[call[c].user].ver = row[call[c].user].ver,
         row'[call[c].user].status = "active" => row'[call[c].user].enabled
  PROVE  PluginIInv'
<1>1. /\ call[c] \in PluginCalls /\ CallFits(call[c]) /\ call[c].step \notin NewSteps
      /\ call[c].step # "idle" /\ binary \in [Users -> Versions \cup {0}]
      /\ to \in {"u_binary", "e_error", "e_place"}
  BY CallTyped DEF NewSteps
<1>2. PICK next \in PluginCalls : next = [call[c] EXCEPT !.step = to]
  BY <1>1 DEF PluginCalls, CallSteps, TakenSteps
<1>3. /\ next.step = to /\ next.user = call[c].user /\ next.rec = call[c].rec
      /\ next.meta = call[c].meta /\ next.ver = call[c].ver /\ call' = [call EXCEPT ![c] = next]
  BY <1>1, <1>2 DEF PluginCalls, Then
<1>4. UNCHANGED <<active, toBoot>>
  BY DEF memory, outside
<1>5. CallFits(next)'
  BY <1>1, <1>3, <1>4 DEF CallFits, TakenSteps, NewSteps
<1> QED  BY <1>1, <1>3, <1>5, CallGoesOn DEF NewSteps

\* Install and SetEnabled(true) start the child, or fail to.
LEMMA StartsHold ==
  ASSUME PluginIInv, OnePerPlugin, NEW c \in PluginCallers, InstallStart(c) \/ EnableStart(c)
  PROVE  PluginIInv'
<1>1. \/ call[c].step = "i_start" /\ InstallStart(c)
      \/ call[c].step = "e_start" /\ EnableStart(c)
  BY DEF InstallStart, EnableStart, At
<1>2. UNCHANGED <<disk, active, recovering, recovery, outside, row, binary>>
  BY DEF InstallStart, EnableStart, disk
<1>3. CASE \/ call[c].step = "i_start" /\ StartChild(c, call[c].ver, "i_state")
           \/ call[c].step = "e_start" /\ StartChild(c, call[c].rec.ver, "e_active")
  BY <1>2, <1>3, StartChildHolds
<1>4. CASE /\ \/ call[c].step = "i_start" /\ Then(c, "u_binary")
              \/ call[c].step = "e_start" /\ Then(c, "e_error")
           /\ UNCHANGED entries
  <2>1. /\ row \in [Users -> RowType]
        /\ row[call[c].user].status = "active" => row[call[c].user].enabled
    BY <1>4, CallTyped
  <2>2. UNCHANGED memory
    BY <1>2, <1>4 DEF memory
  <2> QED  BY <1>2, <1>4, <2>1, <2>2, GoesToHolds
<1> QED  BY <1>1, <1>3, <1>4 DEF InstallStart, EnableStart

\* SetEnabled(true) records that the child did not start.
LEMMA EnableErrorHolds ==
  ASSUME PluginIInv, OnePerPlugin, NEW c \in PluginCallers, EnableError(c)
  PROVE  PluginIInv'
<1>1. call[c].step = "e_error" /\ UNCHANGED <<binary, memory, outside>> /\ Then(c, "e_place")
  BY DEF EnableError, At
<1>2. /\ row' \in [Users -> RowType]
      /\ \A w \in Users : row'[w] # row[w] => w = call[c].user
      /\ row'[call[c].user].ver = row[call[c].user].ver
      /\ row'[call[c].user].status = "active" => row'[call[c].user].enabled
  BY <1>1, StateFits DEF EnableError
<1> QED  BY <1>1, <1>2, GoesToHolds

\* A state that could not be recorded stops the child of the installation.
LEMMA InstallStateHolds ==
  ASSUME PluginIInv, OnePerPlugin, NEW c \in PluginCallers, InstallState(c)
  PROVE  PluginIInv'
<1>1. /\ call[c] \in PluginCalls /\ CallFits(call[c]) /\ call[c].step = "i_state"
      /\ call[c].user \in Users /\ toBoot = {} /\ row \in [Users -> RowType]
      /\ binary \in [Users -> Versions \cup {0}]
  BY CallTyped DEF InstallState, At
<1>2. UNCHANGED <<binary, active, recovering, recovery, closed, toBoot>>
  BY DEF InstallState, outside
<1>3. PICK n \in Entries : n = call[c].new
  BY <1>1, NewApart DEF NewSteps
<1>4. /\ entries[n].user = call[c].user /\ recovery[n].step = "none"
      /\ \A d \in Entries : recovery[d].new # n
      /\ \A u \in Users : active[u] # n
  BY <1>1, <1>3, NewApart DEF NewSteps
<1>5. CASE StateUpdated(c, TRUE, "active") /\ Then(c, "i_active") /\ UNCHANGED entries
  <2>1. /\ row' \in [Users -> RowType]
        /\ \A w \in Users : row'[w] # row[w] => w = call[c].user
        /\ row'[call[c].user].ver = row[call[c].user].ver
        /\ row'[call[c].user].status = "active" => row'[call[c].user].enabled
    BY <1>1, <1>5, StateFits
  <2>2. PICK next \in PluginCalls : next = [call[c] EXCEPT !.step = "i_active"]
    BY <1>1 DEF PluginCalls, CallSteps, TakenSteps
  <2>3. /\ next.step = "i_active" /\ next.user = call[c].user /\ next.new = n /\ next.rec = call[c].rec
        /\ next.ver = call[c].ver /\ next.meta = call[c].meta /\ call' = [call EXCEPT ![c] = next]
    BY <1>1, <1>3, <1>5, <2>2 DEF PluginCalls, Then
  <2>4. CallFits(next)'
    BY <1>1, <1>2, <1>3, <1>5, <2>1, <2>3 DEF CallFits, TakenSteps, NewSteps
  <2>5. UNCHANGED <<memory, outside>>
    BY <1>2, <1>5 DEF memory, outside
  <2> QED  BY <1>1, <1>2, <1>3, <2>1, <2>3, <2>4, <2>5, CallMoves DEF NewSteps
<1>6. CASE StateError(c) /\ Discard(call[c].new) /\ Then(c, "u_binary")
  <2>1. row' = row
    BY <1>6 DEF StateError
  <2>2. entries \in [Entries -> Plugged] /\ NoEntry \in Plugged
    BY DEF PluginIInv, ManagerTypeOK, PluginTypeOK, Plugged, NoEntry
  <2>3. recovery[n] = Resting /\ Resting.step = "none"
    BY <1>4 DEF PluginIInv, RecoveryFits, Resting
  <2>4. entries' = [entries EXCEPT ![n] = NoEntry]
    BY <1>3, <1>6, <2>3, EntriesPositive DEF Discard
  <2>5. /\ entries' \in [Entries -> Plugged] /\ entries'[n].proc = "down" /\ ~entries'[n].failed
        /\ \A e \in Entries : e # n => entries'[e] = entries[e]
    BY <2>2, <2>4 DEF NoEntry
  <2>6. PICK next \in PluginCalls : next = [call[c] EXCEPT !.step = "u_binary"]
    BY <1>1 DEF PluginCalls, CallSteps, TakenSteps
  <2>7. /\ next.step = "u_binary" /\ next.user = call[c].user /\ next.new = n /\ next.rec = call[c].rec
        /\ next.ver = call[c].ver /\ next.meta = call[c].meta /\ call' = [call EXCEPT ![c] = next]
    BY <1>1, <1>3, <1>6, <2>6 DEF PluginCalls, Then
  <2>8. /\ call' \in [PluginCallers -> PluginCalls] /\ call'[c] = next
        /\ \A d \in PluginCallers : d # c => call'[d] = call[d]
        /\ \A d \in PluginCallers : call'[d].rec.ver \in Versions \cup {0} /\ call'[d].new \in Refs
    BY <2>7 DEF PluginIInv, ManagerTypeOK, PluginCalls, Known, RowType, NoRow
  <2>9. ManagerTypeOK'
    BY <1>2, <2>1, <2>5, <2>8 DEF PluginIInv, ManagerTypeOK, PluginTypeOK, Plugged
  <2>10. EntriesFit'
    BY <2>5 DEF PluginIInv, EntriesFit
  <2>11. ActiveFits'
    BY <1>2, <1>4, <2>1, <2>5, EntriesPositive DEF PluginIInv, ActiveFits, ManagerTypeOK, PluginTypeOK
  <2>12. RecoveryFits'
    <3>1. \A e \in Entries : recovery[e].step # "none" => entries'[e] = entries[e]
      BY <1>4, <2>5
    <3>2. \A e \in Entries : recovery[e].new # 0 =>
            entries'[recovery[e].new] = entries[recovery[e].new] /\ entries'[e] = entries[e]
      BY <1>4, <2>3, <2>5, <3>1, EntriesPositive DEF PluginIInv, RecoveryFits, ManagerTypeOK, PluginTypeOK
    <3> QED  BY <1>2, <2>1, <3>1, <3>2 DEF PluginIInv, RecoveryFits, Working
  <2>13. RecoveriesApart'
    BY <1>2, <1>4, <2>5 DEF PluginIInv, RecoveriesApart, Working
  <2>14. ChildrenOwned'
    <3>1. ASSUME NEW e \in Entries, entries'[e].proc = "up" PROVE Owned(e)'
      <4>1. Owned(e) /\ e # n
        BY <2>5, <3>1 DEF PluginIInv, ChildrenOwned
      <4> QED  BY <1>2, <1>3, <2>8, <4>1 DEF Owned
    <3> QED  BY <3>1 DEF ChildrenOwned
  <2>15. CallsFit'
    <3>1. ASSUME NEW d \in PluginCallers, d # c PROVE \A o : o = call'[d] => CallFits(o)'
      <4>1. call[d].step \in NewSteps =>
              /\ entries'[call[d].new] = entries[call[d].new]
              /\ recovery'[call[d].new].step = "none"
              /\ \A x \in Entries : recovery'[x].new # call[d].new
        BY <1>1, <1>2, <1>4, <2>5, <3>1, NewApart DEF OnePerPlugin
      <4> QED  BY <1>1, <1>2, <2>1, <2>8, <3>1, <4>1, CallStays
    <3>2. CallFits(next)'
      BY <1>1, <1>2, <2>1, <2>7 DEF CallFits, TakenSteps, NewSteps
    <3>3. \A d \in PluginCallers : \A o : o = call'[d] => CallFits(o)'
      BY <2>8, <3>1, <3>2
    <3> QED  BY <3>3 DEF CallsFit
  <2>16. BootFits' /\ ActiveIsEnabled'
    BY <1>1, <1>2, <2>1 DEF PluginIInv, BootFits, ActiveIsEnabled
  <2> QED  BY <2>9, <2>10, <2>11, <2>12, <2>13, <2>14, <2>15, <2>16 DEF PluginIInv
<1> QED  BY <1>5, <1>6 DEF InstallState

\* The requests of other plugins while a request of account u moves.
LEMMA OthersElsewhere ==
  ASSUME PluginIInv, OnePerPlugin, NEW c \in PluginCallers, call[c].step # "idle",
         NEW u, u = call[c].user,
         NEW next \in PluginCalls, call' = [call EXCEPT ![c] = next], CallFits(next)', NEW n,
         call[c].step \in NewSteps => call[c].new = n,
         \A d \in PluginCallers : d # c => (call[d].step \in NewSteps => call[d].new # n)
  PROVE  call' \in [PluginCallers -> PluginCalls] /\ ApartFrom(u, n)
<1>1. /\ call' \in [PluginCallers -> PluginCalls] /\ call'[c] = next
      /\ \A d \in PluginCallers : d # c => call'[d] = call[d]
  BY DEF PluginIInv, ManagerTypeOK
<1>2. \A o : o = call'[c] => CallFits(o)'
  BY <1>1
<1>3. \A d \in PluginCallers : d # c => (call[d].step # "idle" => call[d].user # u)
  BY DEF OnePerPlugin
<1> QED  BY <1>1, <1>2, <1>3 DEF ApartFrom

\* setActive, at the end of an installation and of an enabling.
LEMMA SetActiveHolds ==
  ASSUME PluginIInv, OnePerPlugin, NEW c \in PluginCallers, InstallActive(c) \/ EnableActive(c)
  PROVE  PluginIInv'
<1>1. /\ call[c] \in PluginCalls /\ CallFits(call[c]) /\ call[c].step \in {"i_active", "e_active"}
      /\ call[c].user \in Users /\ toBoot = {} /\ row \in [Users -> RowType]
      /\ call[c].step \in NewSteps /\ call[c].step # "idle"
      /\ \A w \in Users : row[w].status = "active" => row[w].enabled
  BY CallTyped DEF InstallActive, EnableActive, At, NewSteps
<1>2. PICK u \in Users : u = call[c].user
  BY <1>1
<1>3. PICK n \in Entries : n = call[c].new
  BY <1>1, NewApart
<1>4. /\ entries[n].user = u /\ recovery[n].step = "none"
      /\ \A d \in Entries : recovery[d].new # n
      /\ \A w \in Users : active[w] # n
      /\ entries[n].proc = "up" => entries[n].ver = row[u].ver
  BY <1>1, <1>2, <1>3, NewApart
<1>5. active[u] = 0
  BY <1>1, <1>2 DEF CallFits, TakenSteps
<1>6. /\ active' = [active EXCEPT ![u] = n]
      /\ UNCHANGED <<row, binary, entries, recovering, recovery, closed, toBoot>>
  BY <1>2, <1>3 DEF InstallActive, EnableActive, disk, outside
<1>7. PICK next \in PluginCalls : call' = [call EXCEPT ![c] = next] /\ CallFits(next)'
  <2>1. CASE InstallActive(c)
    BY <2>1, IdleTyped DEF InstallActive, Done
  <2>2. CASE EnableActive(c)
    <3>1. PICK next \in PluginCalls : next = [call[c] EXCEPT !.step = "e_state", !.new = 0]
      BY <1>1, EntriesPositive DEF PluginCalls, CallSteps
    <3>2. /\ next.step = "e_state" /\ next.user = u /\ next.rec = call[c].rec
          /\ call' = [call EXCEPT ![c] = next]
      BY <1>1, <1>2, <2>2, <3>1 DEF PluginCalls, EnableActive
    <3>3. CallFits(next)'
      BY <1>1, <1>2, <1>6, <3>2 DEF CallFits, TakenSteps, NewSteps
    <3> QED  BY <3>2, <3>3
  <2> QED  BY <2>1, <2>2
<1>8. \A d \in PluginCallers : d # c => (call[d].step \in NewSteps => call[d].new # n)
  BY <1>1, <1>2, <1>4, NewApart DEF OnePerPlugin
<1>9. call' \in [PluginCallers -> PluginCalls] /\ ApartFrom(u, n)
  BY <1>1, <1>2, <1>3, <1>7, <1>8, OthersElsewhere, ZenonT(60)
<1>10. entries' \in [Entries -> Plugged] /\ entries'[n].user = u /\ toBoot' = toBoot \ {u}
  BY <1>1, <1>4, <1>6 DEF PluginIInv, ManagerTypeOK, PluginTypeOK, Plugged
<1> QED  BY <1>1, <1>4, <1>5, <1>6, <1>9, <1>10, Activates

\* restoreRuntime, which may bring the old release back.
LEMMA RestoreHolds ==
  ASSUME PluginIInv, OnePerPlugin, NEW c \in PluginCallers, Restore(c)
  PROVE  PluginIInv'
<1>1. /\ call[c] \in PluginCalls /\ CallFits(call[c]) /\ call[c].step = "restore"
      /\ call[c].user \in Users /\ toBoot = {} /\ row \in [Users -> RowType]
      /\ call[c].step \notin NewSteps /\ call[c].step # "idle" /\ binary \in [Users -> Versions \cup {0}]
      /\ \A w \in Users : row[w].status = "active" => row[w].enabled
  BY CallTyped DEF Restore, At, NewSteps
<1>2. PICK u \in Users : u = call[c].user
  BY <1>1
<1>3. UNCHANGED <<row, binary, recovering, recovery, closed, toBoot>> /\ Done(c)
  BY DEF Restore, disk, outside
<1>4. CASE UNCHANGED <<active, entries>>
  <2>1. UNCHANGED <<memory, outside>>
    BY <1>3, <1>4 DEF memory, outside
  <2> QED  BY <1>1, <1>3, <2>1, CallEnds
<1>5. CASE /\ ~call[c].hung /\ Startable(u, call[c].rec.ver)
           /\ Create(u, binary[u], "up") /\ active' = [active EXCEPT ![u] = Fresh]
  <2>1. /\ active[u] = 0 /\ binary[u] = row[u].ver /\ binary[u] \in Versions \cup {0}
    BY <1>1, <1>2, <1>5 DEF CallFits, TakenSteps, Startable
  <2>2. PICK n \in Entries :
          /\ n = Fresh
          /\ entries' \in [Entries -> Plugged]
          /\ entries'[n].user = u /\ entries'[n].ver = binary[u] /\ entries'[n].proc = "up"
          /\ \A e \in Entries : e # n => entries'[e] = entries[e]
          /\ \A w \in Users : active[w] # n
          /\ \A d \in PluginCallers : call[d].new # n
          /\ \A e \in Entries : recovery[e].new # n
          /\ recovery[n] = Resting /\ entries[n].proc = "down"
    BY <1>5, <2>1, CreateFits
  <2>3. recovery[n].step = "none"
    BY <2>2 DEF Resting
  <2>4. PICK next \in PluginCalls : call' = [call EXCEPT ![c] = next] /\ CallFits(next)'
    BY <1>3, IdleTyped DEF Done
  <2>5. call' \in [PluginCallers -> PluginCalls] /\ ApartFrom(u, n)
    <3>1. \A d \in PluginCallers : d # c => (call[d].step \in NewSteps => call[d].new # n)
      BY <2>2
    <3> QED  BY <1>1, <1>2, <2>4, <3>1, OthersElsewhere
  <2>6. toBoot' = toBoot \ {u} /\ active' = [active EXCEPT ![u] = n]
    BY <1>1, <1>3, <1>5, <2>2
  <2> QED  BY <1>1, <1>3, <2>1, <2>2, <2>3, <2>5, <2>6, Activates, ZenonT(60)
<1> QED  BY <1>2, <1>4, <1>5 DEF Restore

\* A plugin that did not start has a placeholder, which recovers.
LEMMA PlaceholderMoves ==
  ASSUME PluginIInv, NEW u \in Users, active[u] = 0, Placeholder(u),
         row' \in [Users -> RowType], \A w \in Users : row'[w].ver = row[w].ver,
         \A w \in Users : row'[w].status = "active" => row'[w].enabled,
         \A w \in toBoot : w # u => row'[w].enabled,
         binary' = binary, closed' = closed, toBoot' = toBoot \ {u},
         call' \in [PluginCallers -> PluginCalls],
         \A n \in Entries : (\A d \in PluginCallers : call[d].new # n) => ApartFrom(u, n)
  PROVE  PluginIInv'
<1>1. PICK n \in Entries :
        /\ n = Fresh
        /\ entries' \in [Entries -> Plugged]
        /\ entries'[n].user = u /\ entries'[n].ver = 0 /\ entries'[n].proc = "down"
        /\ \A e \in Entries : e # n => entries'[e] = entries[e]
        /\ \A w \in Users : active[w] # n
        /\ \A d \in PluginCallers : call[d].new # n
        /\ \A e \in Entries : recovery[e].new # n
        /\ recovery[n] = Resting /\ entries[n].proc = "down"
  BY CreateFits DEF Placeholder
<1>2. recovery[n].step = "none"
  BY <1>1 DEF Resting
<1>3. /\ active' = [active EXCEPT ![u] = n]
      /\ \/ UNCHANGED <<recovering, recovery>>
         \/ /\ u \notin recovering /\ recovering' = recovering \cup {u}
            /\ recovery' = [recovery EXCEPT ![n] = [Resting EXCEPT !.step = "record"]]
  BY <1>1 DEF Placeholder
<1>4. ApartFrom(u, n)
  BY <1>1
<1> QED  BY <1>1, <1>2, <1>3, <1>4, Activates

\* SetEnabled(true) puts a placeholder in the map.
LEMMA EnablePlaceHolds ==
  ASSUME PluginIInv, OnePerPlugin, NEW c \in PluginCallers, EnablePlace(c)
  PROVE  PluginIInv'
<1>1. /\ call[c] \in PluginCalls /\ CallFits(call[c]) /\ call[c].step = "e_place"
      /\ call[c].user \in Users /\ toBoot = {} /\ row \in [Users -> RowType]
      /\ call[c].step \notin NewSteps /\ call[c].step # "idle"
      /\ \A w \in Users : row[w].status = "active" => row[w].enabled
  BY CallTyped DEF EnablePlace, At, NewSteps
<1>2. PICK u \in Users : u = call[c].user
  BY <1>1
<1>3. active[u] = 0 /\ Placeholder(u) /\ UNCHANGED <<row, binary, closed, toBoot>> /\ Done(c)
  BY <1>1, <1>2 DEF EnablePlace, CallFits, TakenSteps, disk, outside
<1>4. PICK next \in PluginCalls : call' = [call EXCEPT ![c] = next] /\ CallFits(next)'
  BY <1>3, IdleTyped DEF Done
<1>5. ASSUME NEW n \in Entries, \A d \in PluginCallers : call[d].new # n
      PROVE  call' \in [PluginCallers -> PluginCalls] /\ ApartFrom(u, n)
  <2>1. \A d \in PluginCallers : d # c => (call[d].step \in NewSteps => call[d].new # n)
    BY <1>5
  <2> QED  BY <1>1, <1>2, <1>4, <2>1, OthersElsewhere
<1>6. call' \in [PluginCallers -> PluginCalls] /\ toBoot' = toBoot \ {u}
  BY <1>1, <1>3, <1>4 DEF PluginIInv, ManagerTypeOK
<1> QED  BY <1>1, <1>3, <1>5, <1>6, PlaceholderMoves

\* A row whose status alone changes, where there is one.
LEMMA StatusKept ==
  ASSUME PluginIInv, NEW u \in Users, NEW status \in {"error", "active"},
         status = "active" => row[u].enabled,
         \/ UpdateStatus(u, status)
         \/ row' = IF row[u].enabled THEN [row EXCEPT ![u].status = status] ELSE row
  PROVE  /\ row' \in [Users -> RowType]
         /\ \A w \in Users : row'[w].ver = row[w].ver /\ row'[w].enabled = row[w].enabled
         /\ \A w \in Users : row'[w].status = "active" => row'[w].enabled
<1>1. row \in [Users -> RowType] /\ \A w \in Users : row[w].status = "active" => row[w].enabled
  BY DEF PluginIInv, ManagerTypeOK, PluginTypeOK, ActiveIsEnabled
<1>2. CASE row' = row
  BY <1>1, <1>2
<1>3. CASE row[u] # NoRow /\ row' = [row EXCEPT ![u].status = status]
  <2>1. PICK x \in [enabled : BOOLEAN, status : {"stopped", "active", "error", "disabled"}, ver : Versions] :
          x = row[u]
    BY <1>1, <1>3 DEF RowType
  <2>2. PICK y \in [enabled : BOOLEAN, status : {"stopped", "active", "error", "disabled"}, ver : Versions] :
          y = [x EXCEPT !.status = status]
    OBVIOUS
  <2>3. y.ver = x.ver /\ y.status = status /\ y.enabled = x.enabled /\ y \in RowType
    BY <2>2 DEF RowType
  <2>4. row' = [row EXCEPT ![u] = y]
    BY <1>3, <2>1, <2>2
  <2>5. row' \in [Users -> RowType] /\ row'[u] = y /\ \A w \in Users : w # u => row'[w] = row[w]
    BY <1>1, <2>3, <2>4
  <2> QED  BY <1>1, <2>1, <2>3, <2>5
<1>4. row[u].enabled => row[u] # NoRow
  BY DEF NoRow
<1> QED  BY <1>2, <1>3, <1>4 DEF UpdateStatus, Installed

\* While the plugins of the rows are started no request is under way.
LEMMA NobodyBoots ==
  ASSUME PluginIInv, toBoot # {}
  PROVE  \A c \in PluginCallers : call[c].step = "idle" /\ call[c].step \notin NewSteps
BY CallTyped DEF NewSteps

\* Start deals with an enabled plugin: held back, started, or replaced by a placeholder.
LEMMA BootHolds ==
  ASSUME PluginIInv, NEW u \in Users, Boot(u)
  PROVE  PluginIInv'
<1>1. u \in toBoot /\ active[u] = 0 /\ row[u].enabled
  BY DEF Boot, BootHeld, BootStarts, BootFails, PluginIInv, BootFits
<1>2. \A c \in PluginCallers : call[c].step = "idle" /\ call[c].step \notin NewSteps
  BY <1>1, NobodyBoots
<1>3. /\ row' \in [Users -> RowType]
      /\ \A w \in Users : row'[w].ver = row[w].ver /\ row'[w].enabled = row[w].enabled
      /\ \A w \in Users : row'[w].status = "active" => row'[w].enabled
  BY <1>1, StatusKept DEF Boot, BootHeld, BootStarts, BootFails
<1>4. /\ binary' = binary /\ call' = call /\ closed' = closed /\ toBoot' = toBoot \ {u}
      /\ toBoot \subseteq Users
      /\ call' \in [PluginCallers -> PluginCalls] /\ binary \in [Users -> Versions \cup {0}]
  BY DEF Boot, BootHeld, BootStarts, BootFails, PluginIInv, ManagerTypeOK, PluginTypeOK
<1>5. \A w \in toBoot : w # u => row'[w].enabled
  BY <1>3, <1>4 DEF PluginIInv, BootFits
<1>6. \A n \in Entries : ApartFrom(u, n)
  BY <1>2, <1>4 DEF ApartFrom
<1>7. CASE BootFails(u)
  BY <1>1, <1>3, <1>4, <1>5, <1>6, <1>7, PlaceholderMoves DEF BootFails
<1>8. CASE BootStarts(u)
  <2>1. /\ binary[u] = row[u].ver /\ Create(u, binary[u], "up") /\ active' = [active EXCEPT ![u] = Fresh]
        /\ UNCHANGED <<recovering, recovery>>
    BY <1>8 DEF BootStarts, Startable
  <2>2. binary[u] \in Versions \cup {0}
    BY <1>4
  <2>3. PICK n \in Entries :
          /\ n = Fresh
          /\ entries' \in [Entries -> Plugged]
          /\ entries'[n].user = u /\ entries'[n].ver = binary[u] /\ entries'[n].proc = "up"
          /\ \A e \in Entries : e # n => entries'[e] = entries[e]
          /\ \A w \in Users : active[w] # n
          /\ \A d \in PluginCallers : call[d].new # n
          /\ \A e \in Entries : recovery[e].new # n
          /\ recovery[n] = Resting /\ entries[n].proc = "down"
    BY <2>1, <2>2, CreateFits
  <2>4. recovery[n].step = "none" /\ ApartFrom(u, n) /\ active' = [active EXCEPT ![u] = n]
    BY <1>6, <2>1, <2>3 DEF Resting
  <2>5. entries'[n].ver = row'[u].ver
    BY <1>3, <2>1, <2>3
  <2> QED  BY <1>1, <1>3, <1>4, <1>5, <2>1, <2>3, <2>4, <2>5, Activates, ZenonT(60)
<1>9. CASE BootHeld(u)
  <2>1. UNCHANGED <<active, entries, recovering, recovery>>
    BY <1>9 DEF BootHeld, memory
  <2>2. ManagerTypeOK'
    BY <1>3, <1>4, <2>1 DEF PluginIInv, ManagerTypeOK, PluginTypeOK
  <2>3. EntriesFit' /\ ActiveFits' /\ RecoveriesApart'
    BY <1>3, <2>1 DEF PluginIInv, EntriesFit, ActiveFits, RecoveriesApart, Working
  <2>4. RecoveryFits'
    BY <1>3, <2>1 DEF PluginIInv, RecoveryFits, Working
  <2>5. ChildrenOwned'
    BY <1>4, <2>1 DEF PluginIInv, ChildrenOwned, Owned
  <2>6. CallsFit'
    <3>1. ASSUME NEW d \in PluginCallers PROVE \A o : o = call'[d] => CallFits(o)'
      BY <1>2, <1>4, CallStays
    <3> QED  BY <3>1 DEF CallsFit
  <2>7. BootFits' /\ ActiveIsEnabled'
    BY <1>3, <1>4, <1>5, <2>1 DEF PluginIInv, BootFits, ActiveIsEnabled
  <2> QED  BY <2>2, <2>3, <2>4, <2>5, <2>6, <2>7 DEF PluginIInv
<1> QED  BY <1>7, <1>8, <1>9 DEF Boot

\* scheduleRestart of the entry of account u, beside a change of a status.
LEMMA Schedules ==
  ASSUME PluginIInv, NEW u \in Users, active[u] # 0, u \notin recovering,
         LET e == active[u] IN
         /\ entries' = [entries EXCEPT ![e].failed = TRUE]
         /\ recovering' = recovering \cup {u}
         /\ recovery' = [recovery EXCEPT ![e] = [Resting EXCEPT !.step = "record"]],
         row' \in [Users -> RowType], \A w \in Users : row'[w].ver = row[w].ver,
         \A w \in Users : row'[w].status = "active" => row'[w].enabled,
         toBoot = {} \/ row' = row, UNCHANGED <<binary, active, closed, toBoot>>,
         call' \in [PluginCallers -> PluginCalls],
         \A d \in PluginCallers :
           \/ call'[d] = call[d]
           \/ (\A o : o = call'[d] => CallFits(o)') /\ call[d].step \notin NewSteps
  PROVE  PluginIInv'
<1>1. PICK e \in Entries : e = active[u] /\ entries[e].user = u
  BY EntriesPositive DEF PluginIInv, ManagerTypeOK, PluginTypeOK, ActiveFits
<1>2. recovery[e].step = "none" /\ recovery[e] = Resting /\ Resting.step = "none"
  BY <1>1 DEF PluginIInv, RecoveryFits, Working, Resting
<1>3. PICK begun \in [step : {"none", "record", "read", "start", "off", "swap", "status"},
                  ver : Versions \cup {0}, new : Refs] 
                   : begun = [Resting EXCEPT !.step = "record"]
  BY EntriesPositive DEF Resting
<1>4. begun.step = "record" /\ begun.new = 0
  BY <1>3 DEF Resting
<1>5. /\ recovery' \in [Entries -> [step : {"none", "record", "read", "start", "off", "swap", "status"},
                                    ver : Versions \cup {0}, new : Refs]]
      /\ recovery'[e].step = "record" /\ recovery'[e].new = 0
      /\ \A d \in Entries : d # e => recovery'[d] = recovery[d]
      /\ recovering' = recovering \cup {u}
  BY <1>1, <1>3, <1>4 DEF PluginIInv, ManagerTypeOK, PluginTypeOK
<1>6. PICK y \in Plugged : y = [entries[e] EXCEPT !.failed = TRUE]
  <2>1. entries[e] \in Plugged
    BY <1>1 DEF PluginIInv, ManagerTypeOK, PluginTypeOK, Plugged
  <2> QED  BY <2>1 DEF Plugged
<1>7. y.user = u /\ y.proc = entries[e].proc /\ y.ver = entries[e].ver
  BY <1>1, <1>6 DEF PluginIInv, ManagerTypeOK, PluginTypeOK
<1>8. /\ entries' \in [Entries -> Plugged] /\ entries'[e] = y
      /\ \A d \in Entries : d # e => entries'[d] = entries[d]
  BY <1>1, <1>6 DEF PluginIInv, ManagerTypeOK, PluginTypeOK, Plugged
<1>9. \A d \in Entries : /\ entries'[d].user = entries[d].user /\ entries'[d].proc = entries[d].proc
                         /\ entries'[d].ver = entries[d].ver
  BY <1>1, <1>7, <1>8
<1>10. ManagerTypeOK'
  <2>1. \A d \in PluginCallers : call'[d].rec.ver \in Versions \cup {0} /\ call'[d].new \in Refs
    BY DEF PluginCalls, Known, RowType, NoRow
  <2>2. recovering' \subseteq Users
    BY <1>5 DEF PluginIInv, ManagerTypeOK, PluginTypeOK
  <2> QED  BY <1>5, <1>8, <2>1, <2>2 DEF PluginIInv, ManagerTypeOK, PluginTypeOK, Plugged
<1>11. EntriesFit'
  BY <1>1, <1>7, <1>8 DEF PluginIInv, EntriesFit
<1>12. ActiveFits'
  BY <1>9, EntriesPositive DEF PluginIInv, ActiveFits, ManagerTypeOK, PluginTypeOK
<1>13. /\ \A d \in Entries : recovery[d].new # 0 => recovery[d].new \in Entries
       /\ \A d \in Entries : recovery[d].new # e
  BY <1>1, EntriesPositive DEF PluginIInv, RecoveryFits, ManagerTypeOK, PluginTypeOK
<1>14. RecoveryFits'
  <2>1. ASSUME NEW d \in Entries, d # e
        PROVE  /\ recovery'[d].step = "none" => recovery'[d] = Resting
               /\ recovery'[d].step # "none" => entries'[d].user \in Users
               /\ Working(d)' => entries'[d].user \in recovering'
               /\ recovery'[d].step = "status" => \A w \in Users : active'[w] # d
               /\ recovery'[d].step # "swap" => recovery'[d].new = 0
               /\ recovery'[d].step = "start" /\ active'[entries'[d].user] = d =>
                    recovery'[d].ver = row'[entries'[d].user].ver
               /\ recovery'[d].new # 0 =>
                    /\ entries'[recovery'[d].new].user = entries'[d].user
                    /\ recovery'[recovery'[d].new].step = "none"
                    /\ \A w \in Users : active'[w] # recovery'[d].new
                    /\ entries'[recovery'[d].new].proc = "up" /\ active'[entries'[d].user] = d =>
                         entries'[recovery'[d].new].ver = row'[entries'[d].user].ver
    BY <1>5, <1>9, <1>13, <2>1 DEF PluginIInv, RecoveryFits, Working
  <2>2. /\ recovery'[e].step = "record" /\ recovery'[e].new = 0 /\ entries'[e].user = u /\ u \in recovering'
    BY <1>1, <1>5, <1>9
  <2> QED  BY <2>1, <2>2 DEF RecoveryFits, Working
<1>15. RecoveriesApart'
  BY <1>1, <1>5, <1>9 DEF PluginIInv, RecoveriesApart, RecoveryFits, Working
<1>16. ChildrenOwned'
  <2>1. ASSUME NEW d \in Entries, entries'[d].proc = "up" PROVE Owned(d)'
    <3>1. Owned(d)
      BY <1>9, <2>1 DEF PluginIInv, ChildrenOwned
    <3>2. ASSUME NEW x \in Entries, recovery[x].new = d PROVE recovery'[x].new = d
      <4>1. x # e
        BY <1>2, <3>2, EntriesPositive DEF Resting
      <4> QED  BY <1>5, <3>2, <4>1
    <3>3. recovery[d].step # "none" => recovery'[d].step # "none"
      BY <1>5
    <3> QED  BY <3>1, <3>2, <3>3 DEF Owned
  <2> QED  BY <2>1 DEF ChildrenOwned
<1>17. CallsFit'
  <2>1. ASSUME NEW d \in PluginCallers, call'[d] = call[d] PROVE \A o : o = call'[d] => CallFits(o)'
    <3>1. call[d].step # "idle" => call[d].user \in Users /\ toBoot = {}
      BY CallTyped
    <3>2. call[d].step \in NewSteps => call[d].new \in Entries /\ call[d].new # e
      BY <1>1, NewApart
    <3>3. call[d].step \in NewSteps =>
            /\ entries'[call[d].new] = entries[call[d].new]
            /\ recovery'[call[d].new].step = "none"
            /\ \A x \in Entries : recovery'[x].new # call[d].new
      <4> SUFFICES ASSUME call[d].step \in NewSteps
                   PROVE  /\ entries'[call[d].new] = entries[call[d].new]
                          /\ recovery'[call[d].new].step = "none"
                          /\ \A x \in Entries : recovery'[x].new # call[d].new
        OBVIOUS
      <4>1. /\ recovery[call[d].new].step = "none" /\ \A x \in Entries : recovery[x].new # call[d].new
        BY NewApart
      <4> QED  BY <1>5, <1>8, <3>2, <4>1, EntriesPositive
    <3> QED  BY <2>1, <3>1, <3>3, CallStays
  <2>2. \A d \in PluginCallers : \A o : o = call'[d] => CallFits(o)'
    BY <2>1
  <2> QED  BY <2>2 DEF CallsFit
<1>18. BootFits' /\ ActiveIsEnabled'
  BY DEF PluginIInv, BootFits, ActiveIsEnabled
<1> QED  BY <1>10, <1>11, <1>12, <1>14, <1>15, <1>16, <1>17, <1>18 DEF PluginIInv

\* scheduleRestart of an entry that failed or is active does nothing, or begins
\* the recovery of the active entry of an account.
LEMMA ScheduleRestartIs ==
  ASSUME PluginIInv, NEW e \in Entries, entries[e].user \in Users, ScheduleRestart(e)
  PROVE  \/ UNCHANGED <<entries, recovering, recovery>>
         \/ \E u \in Users :
              /\ active[u] # 0 /\ u \notin recovering
              /\ entries' = [entries EXCEPT ![active[u]].failed = TRUE]
              /\ recovering' = recovering \cup {u}
              /\ recovery' = [recovery EXCEPT ![active[u]] = [Resting EXCEPT !.step = "record"]]
<1>1. PICK u \in Users : u = entries[e].user
  OBVIOUS
<1>2. CASE closed \/ active[u] # e \/ u \in recovering
  BY <1>1, <1>2 DEF ScheduleRestart
<1>3. CASE ~(closed \/ active[u] # e \/ u \in recovering)
  BY <1>1, <1>3, EntriesPositive DEF ScheduleRestart
<1> QED  BY <1>2, <1>3

\* A request that ends with a restart, or with none.
LEMMA EndsWithRestart ==
  ASSUME PluginIInv, OnePerPlugin, NEW c \in PluginCallers, call[c].step # "idle",
         call[c].step \notin NewSteps, Done(c), UNCHANGED <<binary, active, outside>>,
         \/ UNCHANGED <<entries, recovering, recovery>>
         \/ \E u \in Users :
              /\ active[u] # 0 /\ u \notin recovering
              /\ entries' = [entries EXCEPT ![active[u]].failed = TRUE]
              /\ recovering' = recovering \cup {u}
              /\ recovery' = [recovery EXCEPT ![active[u]] = [Resting EXCEPT !.step = "record"]],
         row' \in [Users -> RowType],
         \A w \in Users : row'[w] # row[w] => w = call[c].user,
         row'[call[c].user].ver = row[call[c].user].ver,
         row'[call[c].user].status = "active" => row'[call[c].user].enabled
  PROVE  PluginIInv'
<1>1. /\ toBoot = {} /\ binary \in [Users -> Versions \cup {0}] /\ call[c].user \in Users
      /\ \A w \in Users : row[w].status = "active" => row[w].enabled
  BY CallTyped
<1>2. CASE UNCHANGED <<entries, recovering, recovery>>
  <2>1. UNCHANGED <<memory, outside>>
    BY <1>2 DEF memory
  <2> QED  BY <1>1, <2>1, CallEnds
<1>3. ASSUME NEW u \in Users,
             /\ active[u] # 0 /\ u \notin recovering
             /\ entries' = [entries EXCEPT ![active[u]].failed = TRUE]
             /\ recovering' = recovering \cup {u}
             /\ recovery' = [recovery EXCEPT ![active[u]] = [Resting EXCEPT !.step = "record"]]
      PROVE  PluginIInv'
  <2>1. PICK next \in PluginCalls : call' = [call EXCEPT ![c] = next] /\ CallFits(next)'
    BY IdleTyped DEF Done
  <2>2. /\ call' \in [PluginCallers -> PluginCalls] /\ call'[c] = next
        /\ \A d \in PluginCallers : d # c => call'[d] = call[d]
    BY <2>1 DEF PluginIInv, ManagerTypeOK
  <2>3. \A d \in PluginCallers :
          \/ call'[d] = call[d]
          \/ (\A o : o = call'[d] => CallFits(o)') /\ call[d].step \notin NewSteps
    BY <2>1, <2>2
  <2>4. /\ \A w \in Users : row'[w].ver = row[w].ver
        /\ \A w \in Users : row'[w].status = "active" => row'[w].enabled
    BY <1>1
  <2>5. UNCHANGED <<closed, toBoot>>
    BY DEF outside
  <2> QED  BY <1>1, <1>3, <2>2, <2>3, <2>4, <2>5, Schedules
<1> QED  BY <1>2, <1>3

\* SetEnabled(true) finds an entry, which it restarts if it had failed.
LEMMA EnableMarkHolds ==
  ASSUME PluginIInv, OnePerPlugin, NEW c \in PluginCallers, EnableMark(c)
  PROVE  PluginIInv'
<1>1. /\ call[c] \in PluginCalls /\ CallFits(call[c]) /\ call[c].step = "e_mark"
      /\ call[c].step # "idle" /\ call[c].step \notin NewSteps
  BY CallTyped DEF EnableMark, At, NewSteps
<1>2. /\ Done(c) /\ UNCHANGED <<binary, active, outside>>
  BY DEF EnableMark
<1>3. PICK n \in Entries : n = call[c].new
  BY <1>1, EntriesPositive DEF CallFits, PluginCalls
<1>4. /\ row' \in [Users -> RowType]
      /\ \A w \in Users : row'[w] # row[w] => w = call[c].user
      /\ row'[call[c].user].ver = row[call[c].user].ver
      /\ row'[call[c].user].status = "active" => row'[call[c].user].enabled
  BY <1>1, StateFits DEF EnableMark
<1>5. CASE UNCHANGED <<entries, recovering, recovery>>
  BY <1>1, <1>2, <1>4, <1>5, EndsWithRestart
<1>6. CASE entries[n].failed /\ ScheduleRestart(n)
  <2>1. entries[n].user \in Users
    BY <1>6 DEF PluginIInv, EntriesFit
  <2>2. \/ UNCHANGED <<entries, recovering, recovery>>
        \/ \E u \in Users :
             /\ active[u] # 0 /\ u \notin recovering
             /\ entries' = [entries EXCEPT ![active[u]].failed = TRUE]
             /\ recovering' = recovering \cup {u}
             /\ recovery' = [recovery EXCEPT ![active[u]] = [Resting EXCEPT !.step = "record"]]
    BY <1>6, <2>1, ScheduleRestartIs
  <2> QED  BY <1>1, <1>2, <1>4, <2>2, EndsWithRestart
<1> QED  BY <1>3, <1>5, <1>6 DEF EnableMark

\* handlePluginFailure.
LEMMA HandleFailureIs ==
  ASSUME PluginIInv, NEW w \in Users, HandleFailure(w)
  PROVE  \/ UNCHANGED <<entries, recovering, recovery>>
         \/ \E u \in Users :
              /\ active[u] # 0 /\ u \notin recovering
              /\ entries' = [entries EXCEPT ![active[u]].failed = TRUE]
              /\ recovering' = recovering \cup {u}
              /\ recovery' = [recovery EXCEPT ![active[u]] = [Resting EXCEPT !.step = "record"]]
<1>1. CASE active[w] = 0
  BY <1>1 DEF HandleFailure
<1>2. CASE active[w] # 0
  <2>1. active[w] \in Entries /\ entries[active[w]].user \in Users /\ ScheduleRestart(active[w])
    BY <1>2, EntriesPositive DEF HandleFailure, PluginIInv, ManagerTypeOK, PluginTypeOK, ActiveFits
  <2> QED  BY <2>1, ScheduleRestartIs
<1> QED  BY <1>1, <1>2

\* SetEnabled(true) writes the state of what it started; an error counts as a failure.
LEMMA EnableStateHolds ==
  ASSUME PluginIInv, OnePerPlugin, NEW c \in PluginCallers, EnableState(c)
  PROVE  PluginIInv'
<1>1. /\ call[c].step = "e_state" /\ call[c].user \in Users
      /\ call[c].step # "idle" /\ call[c].step \notin NewSteps
  BY CallTyped DEF EnableState, At, NewSteps
<1>2. /\ Done(c) /\ UNCHANGED <<binary, active, outside>>
  BY DEF EnableState
<1>3. /\ row' \in [Users -> RowType]
      /\ \A w \in Users : row'[w] # row[w] => w = call[c].user
      /\ row'[call[c].user].ver = row[call[c].user].ver
      /\ row'[call[c].user].status = "active" => row'[call[c].user].enabled
  BY <1>1, StateFits DEF EnableState
<1>4. \/ UNCHANGED <<entries, recovering, recovery>>
      \/ \E u \in Users :
           /\ active[u] # 0 /\ u \notin recovering
           /\ entries' = [entries EXCEPT ![active[u]].failed = TRUE]
           /\ recovering' = recovering \cup {u}
           /\ recovery' = [recovery EXCEPT ![active[u]] = [Resting EXCEPT !.step = "record"]]
  BY <1>1, HandleFailureIs DEF EnableState
<1> QED  BY <1>1, <1>2, <1>3, <1>4, EndsWithRestart

\* A hook, an event or a route had an error from the plugin.
LEMMA CallFailsHolds ==
  ASSUME PluginIInv, NEW w \in Users, CallFails(w)
  PROVE  PluginIInv'
<1>1. /\ UNCHANGED <<row, binary, active, closed, toBoot>> /\ call' = call
      /\ row' \in [Users -> RowType] /\ call' \in [PluginCallers -> PluginCalls]
      /\ \A u \in Users : row'[u].status = "active" => row'[u].enabled
  BY DEF CallFails, disk, outside, PluginIInv, ManagerTypeOK, PluginTypeOK, ActiveIsEnabled
<1>2. CASE UNCHANGED <<entries, recovering, recovery>>
  BY <1>1, <1>2 DEF PluginIInv, ManagerTypeOK, PluginTypeOK, EntriesFit, ActiveFits, ChildrenOwned, Owned,
     RecoveryFits, RecoveriesApart, Working, CallsFit, CallFits, BootFits, ActiveIsEnabled
<1>3. ASSUME NEW u \in Users,
             /\ active[u] # 0 /\ u \notin recovering
             /\ entries' = [entries EXCEPT ![active[u]].failed = TRUE]
             /\ recovering' = recovering \cup {u}
             /\ recovery' = [recovery EXCEPT ![active[u]] = [Resting EXCEPT !.step = "record"]]
      PROVE  PluginIInv'
  BY <1>1, <1>3, Schedules
<1>4. HandleFailure(w)
  BY DEF CallFails
<1> QED  BY <1>2, <1>3, <1>4, HandleFailureIs

\* A child is gone or a status changes, and a recovery that has no replacement
\* yet may take a step.
LEMMA WearsOn ==
  ASSUME PluginIInv, UNCHANGED <<binary, active, recovering, call, outside>>,
         row' \in [Users -> RowType],
         \A w \in Users : row'[w].ver = row[w].ver /\ row'[w].enabled = row[w].enabled,
         \A w \in Users : row'[w].status = "active" => row'[w].enabled,
         entries' \in [Entries -> Plugged],
         \A d \in Entries : /\ entries'[d].user = entries[d].user /\ entries'[d].failed = entries[d].failed
                            /\ entries'[d].proc = "up" => entries[d].proc = "up" /\ entries'[d].ver = entries[d].ver,
         \/ UNCHANGED recovery
         \/ \E e \in Entries, next \in [step : {"read", "start", "off", "swap"}, ver : Versions \cup {0}, new : {0}] :
              /\ recovery' = [recovery EXCEPT ![e] = next]
              /\ recovery[e].step \in {"record", "read", "start"}
              /\ next.step = "start" => next.ver = row[entries[e].user].ver
  PROVE  PluginIInv'
<1>1. /\ recovery' \in [Entries -> [step : {"none", "record", "read", "start", "off", "swap", "status"},
                                    ver : Versions \cup {0}, new : Refs]]
      /\ \A d \in Entries :
           /\ recovery'[d].new = recovery[d].new
           /\ recovery'[d].step = "none" <=> recovery[d].step = "none"
           /\ recovery'[d].step = "status" <=> recovery[d].step = "status"
           /\ recovery'[d].step # "swap" => recovery'[d].new = 0
           /\ recovery'[d].step = "none" => recovery'[d] = recovery[d]
           /\ \/ recovery'[d] = recovery[d]
              \/ recovery'[d].step = "start" => recovery'[d].ver = row[entries[d].user].ver
  <2>1. CASE UNCHANGED recovery
    BY <2>1 DEF PluginIInv, ManagerTypeOK, PluginTypeOK, RecoveryFits
  <2>2. ASSUME NEW e \in Entries,
               NEW next \in [step : {"read", "start", "off", "swap"}, ver : Versions \cup {0}, new : {0}],
               recovery' = [recovery EXCEPT ![e] = next],
               recovery[e].step \in {"record", "read", "start"},
               next.step = "start" => next.ver = row[entries[e].user].ver
        PROVE  <1>1!1 /\ <1>1!2
    <3>1. recovery[e].new = 0 /\ next.new = 0
      BY <2>2 DEF PluginIInv, RecoveryFits
    <3>2. next \in [step : {"none", "record", "read", "start", "off", "swap", "status"},
                    ver : Versions \cup {0}, new : Refs]
      BY EntriesPositive
    <3>3. /\ recovery'[e] = next /\ \A d \in Entries : d # e => recovery'[d] = recovery[d]
          /\ recovery' \in [Entries -> [step : {"none", "record", "read", "start", "off", "swap", "status"},
                                        ver : Versions \cup {0}, new : Refs]]
      BY <2>2, <3>2 DEF PluginIInv, ManagerTypeOK, PluginTypeOK
    <3>4. next.step \in {"read", "start", "off", "swap"}
      OBVIOUS
    <3> QED  BY <2>2, <3>1, <3>3, <3>4 DEF PluginIInv, RecoveryFits
  <2> QED  BY <2>1, <2>2
<1>2. /\ UNCHANGED <<closed, toBoot>>
      /\ \A d \in Entries : recovery[d].new # 0 => recovery[d].new \in Entries
      /\ \A u \in Users : active[u] # 0 => active[u] \in Entries
  BY EntriesPositive DEF outside, PluginIInv, ManagerTypeOK, PluginTypeOK
<1>3. ManagerTypeOK'
  BY <1>1, <1>2 DEF PluginIInv, ManagerTypeOK, PluginTypeOK, Plugged
<1>4. EntriesFit' /\ ActiveFits' /\ RecoveriesApart'
  BY <1>1, <1>2 DEF PluginIInv, EntriesFit, ActiveFits, RecoveriesApart, Working
<1>5. RecoveryFits'
  <2>1. ASSUME NEW d \in Entries
        PROVE  /\ recovery'[d].step = "none" => recovery'[d] = Resting
               /\ recovery'[d].step # "none" => entries'[d].user \in Users
               /\ Working(d)' => entries'[d].user \in recovering'
               /\ recovery'[d].step = "status" => \A w \in Users : active'[w] # d
               /\ recovery'[d].step # "swap" => recovery'[d].new = 0
    BY <1>1, <1>2 DEF PluginIInv, RecoveryFits, Working
  <2>2. ASSUME NEW d \in Entries, recovery'[d].step = "start", active'[entries'[d].user] = d
        PROVE  recovery'[d].ver = row'[entries'[d].user].ver
    <3>1. entries'[d].user = entries[d].user /\ entries[d].user \in Users
      BY <1>1, <2>1, <2>2
    <3> QED  BY <1>1, <2>2, <3>1 DEF PluginIInv, RecoveryFits
  <2>3. ASSUME NEW d \in Entries, recovery'[d].new # 0
        PROVE  /\ entries'[recovery'[d].new].user = entries'[d].user
               /\ recovery'[recovery'[d].new].step = "none"
               /\ \A w \in Users : active'[w] # recovery'[d].new
               /\ entries'[recovery'[d].new].proc = "up" /\ active'[entries'[d].user] = d =>
                    entries'[recovery'[d].new].ver = row'[entries'[d].user].ver
    <3>1. /\ recovery'[d].new = recovery[d].new /\ recovery[d].new \in Entries
          /\ entries'[d].user = entries[d].user /\ recovery[d].step # "none" /\ entries[d].user \in Users
      BY <1>1, <1>2, <2>3 DEF PluginIInv, RecoveryFits, Resting
    <3> QED  BY <1>1, <2>3, <3>1 DEF PluginIInv, RecoveryFits
  <2> QED  BY <2>1, <2>2, <2>3 DEF RecoveryFits
<1>6. ChildrenOwned'
  BY <1>1 DEF PluginIInv, ChildrenOwned, Owned
<1>7. CallsFit'
  <2>1. ASSUME NEW d \in PluginCallers PROVE \A o : o = call'[d] => CallFits(o)'
    <3>1. call[d].step \in NewSteps =>
            /\ call[d].new \in Entries /\ recovery[call[d].new].step = "none"
            /\ \A x \in Entries : recovery[x].new # call[d].new
      BY NewApart
    <3>2. call[d].step # "idle" => call[d].user \in Users /\ toBoot = {}
      BY CallTyped
    <3> QED  BY <1>1, <1>2, <3>1, <3>2, CallStays
  <2> QED  BY <2>1 DEF CallsFit
<1>8. BootFits' /\ ActiveIsEnabled'
  <2>1. toBoot \subseteq Users
    BY DEF PluginIInv, ManagerTypeOK, PluginTypeOK
  <2> QED  BY <1>2, <2>1 DEF PluginIInv, BootFits, ActiveIsEnabled
<1> QED  BY <1>3, <1>4, <1>5, <1>6, <1>7, <1>8 DEF PluginIInv

\* A child that is stopped or exits keeps its entry.
LEMMA KillFits ==
  ASSUME PluginIInv, NEW e \in Entries, Kill(e)
  PROVE  /\ entries' \in [Entries -> Plugged]
         /\ \A d \in Entries :
              /\ entries'[d].user = entries[d].user /\ entries'[d].failed = entries[d].failed
              /\ entries'[d].proc = "up" => entries[d].proc = "up" /\ entries'[d].ver = entries[d].ver
<1>1. entries \in [Entries -> Plugged] /\ entries[e] \in Plugged
  BY DEF PluginIInv, ManagerTypeOK, PluginTypeOK, Plugged
<1>2. PICK x \in Plugged : x = Stopped(entries[e])
  BY <1>1 DEF Plugged, Stopped
<1>3. x.user = entries[e].user /\ x.failed = entries[e].failed /\ x.proc = "down"
  BY <1>1, <1>2 DEF Plugged, Stopped
<1>4. entries' = [entries EXCEPT ![e] = x]
  BY <1>2 DEF Kill
<1>5. entries' \in [Entries -> Plugged] /\ entries'[e] = x /\ \A d \in Entries : d # e => entries'[d] = entries[d]
  BY <1>1, <1>4
<1> QED  BY <1>3, <1>5

\* The rows and the entries as they are.
LEMMA AsItIs ==
  ASSUME PluginIInv
  PROVE  /\ row \in [Users -> RowType] /\ entries \in [Entries -> Plugged]
         /\ \A w \in Users : row[w].status = "active" => row[w].enabled
BY DEF PluginIInv, ManagerTypeOK, PluginTypeOK, Plugged, ActiveIsEnabled

\* A child exits by itself.
LEMMA ChildDiesHolds ==
  ASSUME PluginIInv, NEW e \in Entries, ChildDies(e)
  PROVE  PluginIInv'
BY AsItIs, KillFits, WearsOn DEF ChildDies, disk

\* A slow route is recorded on the row.
LEMMA RouteTimesOutHolds ==
  ASSUME PluginIInv, NEW e \in Entries, RouteTimesOut(e)
  PROVE  PluginIInv'
<1>1. entries[e].user \in Users
  BY DEF RouteTimesOut, PluginIInv, EntriesFit
<1>2. /\ row' \in [Users -> RowType]
      /\ \A w \in Users : row'[w].ver = row[w].ver /\ row'[w].enabled = row[w].enabled
      /\ \A w \in Users : row'[w].status = "active" => row'[w].enabled
  BY <1>1, StatusKept DEF RouteTimesOut
<1> QED  BY <1>2, AsItIs, WearsOn DEF RouteTimesOut, memory

\* A recovery that goes on has an account and no replacement.
LEMMA RecoversNext ==
  ASSUME PluginIInv, NEW e \in Entries, recovery[e].step \in {"record", "read", "start"},
         NEW to \in {"read", "off", "swap"}, OnTo(e, to)
  PROVE  \E d \in Entries, next \in [step : {"read", "start", "off", "swap"}, ver : Versions \cup {0}, new : {0}] :
           /\ recovery' = [recovery EXCEPT ![d] = next]
           /\ recovery[d].step \in {"record", "read", "start"}
           /\ next.step = "start" => next.ver = row[entries[d].user].ver
<1>1. /\ recovery[e] \in [step : {"none", "record", "read", "start", "off", "swap", "status"},
                          ver : Versions \cup {0}, new : Refs]
      /\ recovery[e].new = 0
  BY DEF PluginIInv, ManagerTypeOK, PluginTypeOK, RecoveryFits
<1>2. PICK next \in [step : {"read", "start", "off", "swap"}, ver : Versions \cup {0}, new : {0}] :
        next = [recovery[e] EXCEPT !.step = to]
  BY <1>1
<1>3. next.step = to /\ recovery' = [recovery EXCEPT ![e] = next]
  BY <1>1, <1>2 DEF OnTo
<1> QED  BY <1>3

\* A recovery begins with the failure on the row.
LEMMA RestartRecordHolds ==
  ASSUME PluginIInv, NEW e \in Entries, RestartRecord(e)
  PROVE  PluginIInv'
<1>1. recovery[e].step = "record" /\ entries[e].user \in Users /\ OnTo(e, "read")
  BY DEF RestartRecord, Recovering, PluginIInv, RecoveryFits
<1>2. /\ row' \in [Users -> RowType]
      /\ \A w \in Users : row'[w].ver = row[w].ver /\ row'[w].enabled = row[w].enabled
      /\ \A w \in Users : row'[w].status = "active" => row'[w].enabled
  BY <1>1, StatusKept DEF RestartRecord
<1> QED  BY <1>1, <1>2, AsItIs, RecoversNext, WearsOn DEF RestartRecord

\* A recovery stops the failed child and reads the row.
LEMMA RestartReadHolds ==
  ASSUME PluginIInv, NEW e \in Entries, RestartRead(e)
  PROVE  PluginIInv'
<1>1. recovery[e].step = "read" /\ entries[e].user \in Users /\ Kill(e)
      /\ UNCHANGED <<row, binary, active, recovering, call, outside>>
  BY DEF RestartRead, Recovering, PluginIInv, RecoveryFits, disk
<1>2. CASE OnTo(e, "off") \/ OnTo(e, "swap")
  BY <1>1, <1>2, AsItIs, KillFits, RecoversNext, WearsOn
<1>3. CASE recovery' = [recovery EXCEPT ![e].step = "start", ![e].ver = row[entries[e].user].ver]
  <2>1. /\ recovery[e] \in [step : {"none", "record", "read", "start", "off", "swap", "status"},
                            ver : Versions \cup {0}, new : Refs]
        /\ recovery[e].new = 0
    BY <1>1 DEF PluginIInv, ManagerTypeOK, PluginTypeOK, RecoveryFits
  <2>2. row[entries[e].user].ver \in Versions \cup {0}
    BY <1>1, RowsTyped DEF PluginIInv
  <2>3. PICK next \in [step : {"read", "start", "off", "swap"}, ver : Versions \cup {0}, new : {0}] :
          next = [recovery[e] EXCEPT !.step = "start", !.ver = row[entries[e].user].ver]
    BY <2>1, <2>2
  <2>4. next.ver = row[entries[e].user].ver /\ recovery' = [recovery EXCEPT ![e] = next]
    BY <1>3, <2>1, <2>3
  <2> QED  BY <1>1, <2>4, AsItIs, KillFits, WearsOn
<1> QED  BY <1>2, <1>3 DEF RestartRead

\* Another recovery's replacement is not that of entry e, nor e itself.
LEMMA ReplacementsApart ==
  ASSUME PluginIInv, NEW e \in Entries, Working(e)
  PROVE  /\ recovery[e].step \notin {"none", "status"}
         /\ \A d \in Entries : recovery[d].new # e
         /\ \A d \in Entries : d # e /\ recovery[d].new # 0 => recovery[d].new # recovery[e].new
         /\ \A d \in Entries : d # e /\ recovery[d].step # "none" /\ recovery[d].step # "status" =>
              entries[d].user # entries[e].user
         /\ \A d \in PluginCallers : call[d].step \in NewSteps =>
              call[d].new \in Entries /\ call[d].new # e /\ call[d].new # recovery[e].new
         /\ recovery[e].new # 0 => recovery[e].new \in Entries /\ recovery[e].new # e
<1>1. recovery[e].step \notin {"none", "status"}
  BY DEF Working
<1>2. \A d \in Entries : recovery[d].new # 0 =>
        /\ recovery[d].step \notin {"none", "status"} /\ recovery[d].new \in Entries
        /\ recovery[recovery[d].new].step = "none"
        /\ entries[recovery[d].new].user = entries[d].user
  BY EntriesPositive DEF PluginIInv, RecoveryFits, Resting, ManagerTypeOK, PluginTypeOK
<1>3. \A d \in Entries : d # e /\ recovery[d].step # "none" /\ recovery[d].step # "status" =>
        entries[d].user # entries[e].user
  BY <1>1 DEF PluginIInv, RecoveriesApart, Working
<1>4. \A d \in Entries : recovery[d].new # e
  BY <1>1, <1>2, EntriesPositive
<1>5. \A d \in Entries : d # e /\ recovery[d].new # 0 => recovery[d].new # recovery[e].new
  <2> SUFFICES ASSUME NEW d \in Entries, d # e, recovery[d].new # 0, recovery[d].new = recovery[e].new
               PROVE  FALSE
    OBVIOUS
  <2>1. entries[recovery[d].new].user = entries[d].user /\ entries[recovery[e].new].user = entries[e].user
    BY <1>2
  <2> QED  BY <1>2, <1>3, <2>1
<1>6. \A d \in PluginCallers : call[d].step \in NewSteps =>
        call[d].new \in Entries /\ call[d].new # e /\ call[d].new # recovery[e].new
  BY <1>1, NewApart
<1> QED  BY <1>1, <1>2, <1>3, <1>4, <1>5, <1>6

\* The replacement of a failed child is started.
LEMMA RestartStartHolds ==
  ASSUME PluginIInv, NEW e \in Entries, RestartStart(e)
  PROVE  PluginIInv'
<1>1. /\ recovery[e].step = "start" /\ Working(e) /\ recovery[e].new = 0
      /\ UNCHANGED <<row, binary, active, recovering, call, outside, closed, toBoot>>
      /\ recovery[e] \in [step : {"none", "record", "read", "start", "off", "swap", "status"},
                          ver : Versions \cup {0}, new : Refs]
  BY DEF RestartStart, Recovering, Working, PluginIInv, RecoveryFits, ManagerTypeOK, PluginTypeOK, disk, outside
<1>2. CASE OnTo(e, "swap") /\ UNCHANGED entries
  BY <1>1, <1>2, AsItIs, RecoversNext, WearsOn
<1>3. ASSUME Startable(entries[e].user, recovery[e].ver), Create(entries[e].user, binary[entries[e].user], "up"),
             recovery' = [recovery EXCEPT ![e].step = "swap", ![e].new = Fresh]
      PROVE  PluginIInv'
  <2>1. PICK u \in Users : u = entries[e].user
    BY <1>1 DEF PluginIInv, RecoveryFits
  <2>2. binary[u] = recovery[e].ver /\ binary[u] \in Versions \cup {0}
    BY <1>3, <2>1 DEF Startable, PluginIInv, ManagerTypeOK, PluginTypeOK
  <2>3. PICK n \in Entries :
          /\ n = Fresh
          /\ entries' \in [Entries -> Plugged]
          /\ entries'[n].user = u /\ entries'[n].ver = binary[u] /\ entries'[n].proc = "up"
          /\ \A d \in Entries : d # n => entries'[d] = entries[d]
          /\ \A w \in Users : active[w] # n
          /\ \A d \in PluginCallers : call[d].new # n
          /\ \A d \in Entries : recovery[d].new # n
          /\ recovery[n] = Resting /\ entries[n].proc = "down"
    BY <1>3, <2>1, <2>2, CreateFits
  <2>4. recovery[n].step = "none" /\ n # e /\ n # 0
    BY <1>1, <2>3, EntriesPositive DEF Resting
  <2>5. PICK next \in [step : {"swap"}, ver : Versions \cup {0}, new : Entries] :
          next = [recovery[e] EXCEPT !.step = "swap", !.new = n]
    BY <1>1
  <2>6. next.step = "swap" /\ next.new = n
    BY <1>1, <2>5
  <2>7. /\ recovery' \in [Entries -> [step : {"none", "record", "read", "start", "off", "swap", "status"},
                                      ver : Versions \cup {0}, new : Refs]]
        /\ recovery'[e].step = "swap" /\ recovery'[e].new = n
        /\ \A d \in Entries : d # e => recovery'[d] = recovery[d]
    <3>1. recovery' = [recovery EXCEPT ![e] = next]
      BY <1>1, <1>3, <2>3, <2>5
    <3>2. next \in [step : {"none", "record", "read", "start", "off", "swap", "status"},
                    ver : Versions \cup {0}, new : Refs]
      BY EntriesPositive
    <3> QED  BY <2>6, <3>1, <3>2 DEF PluginIInv, ManagerTypeOK, PluginTypeOK
  <2>8. \A d \in Entries : recovery[d].step # "none" => entries'[d] = entries[d]
    BY <2>3, <2>4
  <2>9. ManagerTypeOK'
    BY <1>1, <2>3, <2>7 DEF PluginIInv, ManagerTypeOK, PluginTypeOK, Plugged
  <2>10. EntriesFit'
    BY <2>3 DEF PluginIInv, EntriesFit
  <2>11. ActiveFits'
    BY <1>1, <2>3, EntriesPositive DEF PluginIInv, ActiveFits, ManagerTypeOK, PluginTypeOK
  <2>12. RecoveriesApart'
    BY <1>1, <2>7, <2>8 DEF PluginIInv, RecoveriesApart, Working
  <2>13. RecoveryFits'
    <3>1. ASSUME NEW d \in Entries, d # e
          PROVE  /\ recovery'[d].step = "none" => recovery'[d] = Resting
                 /\ recovery'[d].step # "none" => entries'[d].user \in Users
                 /\ Working(d)' => entries'[d].user \in recovering'
                 /\ recovery'[d].step = "status" => \A w \in Users : active'[w] # d
                 /\ recovery'[d].step # "swap" => recovery'[d].new = 0
                 /\ recovery'[d].step = "start" /\ active'[entries'[d].user] = d =>
                      recovery'[d].ver = row'[entries'[d].user].ver
      BY <1>1, <2>7, <2>8, <3>1 DEF PluginIInv, RecoveryFits, Working
    <3>2. ASSUME NEW d \in Entries, d # e, recovery'[d].new # 0
          PROVE  /\ entries'[recovery'[d].new].user = entries'[d].user
                 /\ recovery'[recovery'[d].new].step = "none"
                 /\ \A w \in Users : active'[w] # recovery'[d].new
                 /\ entries'[recovery'[d].new].proc = "up" /\ active'[entries'[d].user] = d =>
                      entries'[recovery'[d].new].ver = row'[entries'[d].user].ver
      <4>1. /\ recovery'[d] = recovery[d] /\ recovery[d].new \in Entries /\ recovery[d].new # n
            /\ recovery[d].step # "none" /\ recovery[d].new # e
        BY <1>1, <2>3, <2>7, <3>2, ReplacementsApart, EntriesPositive
           DEF PluginIInv, RecoveryFits, Resting, ManagerTypeOK, PluginTypeOK
      <4>2. /\ entries'[d] = entries[d] /\ entries'[recovery[d].new] = entries[recovery[d].new]
            /\ recovery'[recovery[d].new] = recovery[recovery[d].new]
        BY <2>3, <2>7, <2>8, <4>1
      <4> QED  BY <1>1, <3>2, <4>1, <4>2 DEF PluginIInv, RecoveryFits
    <3>3. /\ entries'[e] = entries[e] /\ recovery'[n] = recovery[n]
      BY <2>3, <2>4, <2>7
    <3>4. active[u] = e => binary[u] = row[u].ver
      BY <1>1, <2>1, <2>2 DEF PluginIInv, RecoveryFits
    <3>5. /\ entries'[e].user \in recovering'
          /\ entries'[recovery'[e].new].user = entries'[e].user
          /\ recovery'[recovery'[e].new].step = "none"
          /\ \A w \in Users : active'[w] # recovery'[e].new
          /\ active'[entries'[e].user] = e => entries'[recovery'[e].new].ver = row'[entries'[e].user].ver
      BY <1>1, <2>1, <2>3, <2>4, <2>7, <3>3, <3>4 DEF PluginIInv, RecoveryFits
    <3> QED  BY <2>1, <2>7, <3>1, <3>2, <3>3, <3>5 DEF RecoveryFits, Working
  <2>14. ChildrenOwned'
    <3>1. ASSUME NEW d \in Entries, d # n, entries'[d].proc = "up" PROVE Owned(d)'
      <4>1. Owned(d)
        BY <2>3, <3>1 DEF PluginIInv, ChildrenOwned
      <4>2. \A x \in Entries : recovery[x].new = d => recovery'[x].new = d
        BY <1>1, <2>7, EntriesPositive
      <4>3. recovery[d].step # "none" => recovery'[d].step # "none"
        BY <2>7
      <4> QED  BY <1>1, <4>1, <4>2, <4>3 DEF Owned
    <3>2. Owned(n)'
      BY <2>7 DEF Owned
    <3> QED  BY <3>1, <3>2 DEF ChildrenOwned
  <2>15. CallsFit'
    <3>1. ASSUME NEW d \in PluginCallers PROVE \A o : o = call'[d] => CallFits(o)'
      <4>1. call[d].step # "idle" => toBoot = {}
        BY CallTyped
      <4>2. call[d].step \in NewSteps =>
              /\ entries'[call[d].new] = entries[call[d].new]
              /\ recovery'[call[d].new].step = "none"
              /\ \A x \in Entries : recovery'[x].new # call[d].new
        BY <1>1, <2>3, <2>7, NewApart, ReplacementsApart
      <4> QED  BY <1>1, <4>1, <4>2, CallStays
    <3> QED  BY <3>1 DEF CallsFit
  <2>16. BootFits' /\ ActiveIsEnabled'
    BY <1>1 DEF PluginIInv, BootFits, ActiveIsEnabled
  <2> QED  BY <2>9, <2>10, <2>11, <2>12, <2>13, <2>14, <2>15, <2>16 DEF PluginIInv
<1> QED  BY <1>2, <1>3 DEF RestartStart

\* The replacement takes the place of the entry.
LEMMA ReplaceHolds ==
  ASSUME PluginIInv, NEW e \in Entries, RestartSwap(e), recovery[e].new # 0, active[entries[e].user] = e, ~closed
  PROVE  PluginIInv'
<1>1. Working(e) /\ recovery[e].step \notin {"none", "status"}
  BY DEF RestartSwap, Working
<1>2. PICK u \in Users : u = entries[e].user
  BY <1>1 DEF PluginIInv, RecoveryFits
<1>3. PICK n \in Entries : n = recovery[e].new /\ n # e
  BY <1>1, ReplacementsApart
<1>4. /\ entries[n].user = u /\ recovery[n].step = "none" /\ \A w \in Users : active[w] # n
      /\ entries[n].proc = "up" => entries[n].ver = row[u].ver
  BY <1>2, <1>3, EntriesPositive DEF PluginIInv, RecoveryFits
<1>5. UNCHANGED <<row, binary, call, closed, toBoot>>
  BY DEF RestartSwap, disk, outside
<1>6. /\ active' = [active EXCEPT ![u] = n]
      /\ recovering' = recovering \ {u}
      /\ recovery' = [recovery EXCEPT ![e] = [Resting EXCEPT !.step = "status"]]
      /\ entries' = [d \in Entries |-> entries[d]]
  BY <1>2, <1>3 DEF RestartSwap
<1>7. /\ active' \in [Users -> Refs] /\ active'[u] = n /\ \A w \in Users : w # u => active'[w] = active[w]
      /\ entries' = entries
  BY <1>6, EntriesPositive DEF PluginIInv, ManagerTypeOK, PluginTypeOK
<1>8. PICK next \in [step : {"status"}, ver : Versions \cup {0}, new : {0}] :
        next = [Resting EXCEPT !.step = "status"]
  BY DEF Resting
<1>9. /\ recovery' \in [Entries -> [step : {"none", "record", "read", "start", "off", "swap", "status"},
                                    ver : Versions \cup {0}, new : Refs]]
      /\ recovery'[e].step = "status" /\ recovery'[e].new = 0
      /\ \A d \in Entries : d # e => recovery'[d] = recovery[d]
  <2>1. next \in [step : {"none", "record", "read", "start", "off", "swap", "status"},
                  ver : Versions \cup {0}, new : Refs]
    BY EntriesPositive
  <2>2. recovery' = [recovery EXCEPT ![e] = next]
    BY <1>6, <1>8
  <2> QED  BY <2>1, <2>2 DEF PluginIInv, ManagerTypeOK, PluginTypeOK
<1>10. \A w \in Users : active[w] = e => w = u
  BY <1>2, EntriesPositive DEF PluginIInv, ActiveFits
<1>11. ManagerTypeOK'
  BY <1>5, <1>6, <1>7, <1>9 DEF PluginIInv, ManagerTypeOK, PluginTypeOK
<1>12. EntriesFit' /\ ActiveFits'
  BY <1>4, <1>5, <1>7 DEF PluginIInv, EntriesFit, ActiveFits
<1>13. RecoveriesApart'
  BY <1>7, <1>9 DEF PluginIInv, RecoveriesApart, Working
<1>14. \A d \in Entries : d # e /\ Working(d) => entries[d].user # u
  BY <1>1, <1>2, ReplacementsApart DEF Working
<1>15. RecoveryFits'
  <2>1. ASSUME NEW d \in Entries, d # e
        PROVE  /\ recovery'[d].step = "none" => recovery'[d] = Resting
               /\ recovery'[d].step # "none" => entries'[d].user \in Users
               /\ Working(d)' => entries'[d].user \in recovering'
               /\ recovery'[d].step # "swap" => recovery'[d].new = 0
    BY <1>6, <1>7, <1>9, <1>14, <2>1 DEF PluginIInv, RecoveryFits, Working
  <2>2. \A d \in Entries : recovery'[d].step = "status" => \A w \in Users : active'[w] # d
    BY <1>2, <1>3, <1>4, <1>7, <1>9, <1>10 DEF PluginIInv, RecoveryFits
  <2>3. ASSUME NEW d \in Entries, d # e, recovery'[d].step = "start", active'[entries'[d].user] = d
        PROVE  recovery'[d].ver = row'[entries'[d].user].ver
    <3>1. Working(d) /\ entries[d].user # u /\ entries[d].user \in Users /\ recovery[d].step = "start"
      BY <1>9, <1>14, <2>3 DEF PluginIInv, RecoveryFits, Working
    <3> QED  BY <1>5, <1>7, <1>9, <2>3, <3>1 DEF PluginIInv, RecoveryFits
  <2>4. ASSUME NEW d \in Entries, d # e, recovery'[d].new # 0
        PROVE  /\ entries'[recovery'[d].new].user = entries'[d].user
               /\ recovery'[recovery'[d].new].step = "none"
               /\ \A w \in Users : active'[w] # recovery'[d].new
               /\ entries'[recovery'[d].new].proc = "up" /\ active'[entries'[d].user] = d =>
                    entries'[recovery'[d].new].ver = row'[entries'[d].user].ver
    <3>1. /\ recovery'[d] = recovery[d] /\ recovery[d].new \in Entries /\ recovery[d].new # n
          /\ Working(d) /\ recovery[d].new # e /\ entries[d].user \in Users
      BY <1>1, <1>3, <1>9, <2>4, ReplacementsApart, EntriesPositive
         DEF PluginIInv, RecoveryFits, Resting, Working, ManagerTypeOK, PluginTypeOK
    <3>2. entries[d].user # u /\ active'[entries[d].user] = active[entries[d].user]
      BY <1>7, <1>14, <2>4, <3>1
    <3>3. \A w \in Users : active'[w] # recovery[d].new
      BY <1>7, <2>4, <3>1 DEF PluginIInv, RecoveryFits
    <3> QED  BY <1>5, <1>7, <1>9, <2>4, <3>1, <3>2, <3>3 DEF PluginIInv, RecoveryFits
  <2>5. entries'[e].user \in Users
    BY <1>2, <1>7
  <2> QED  BY <1>9, <2>1, <2>2, <2>3, <2>4, <2>5 DEF RecoveryFits, Working
<1>16. ChildrenOwned'
  <2>1. ASSUME NEW d \in Entries, d # e, d # n, entries'[d].proc = "up" PROVE Owned(d)'
    <3>1. Owned(d)
      BY <1>7, <2>1 DEF PluginIInv, ChildrenOwned
    <3>2. \A x \in Entries : recovery[x].new = d => recovery'[x].new = d
      BY <1>3, <1>9, <2>1
    <3>3. \A w \in Users : active[w] = d => active'[w] = d
      BY <1>2, <1>7, <2>1
    <3>4. recovery'[d] = recovery[d]
      BY <1>9, <2>1
    <3> QED  BY <1>5, <3>1, <3>2, <3>3, <3>4 DEF Owned
  <2>2. Owned(e)' /\ Owned(n)'
    BY <1>7, <1>9 DEF Owned
  <2> QED  BY <2>1, <2>2 DEF ChildrenOwned
<1>17. CallsFit'
  <2>1. ASSUME NEW d \in PluginCallers PROVE \A o : o = call'[d] => CallFits(o)'
    <3>1. call[d].step # "idle" => call[d].user \in Users /\ toBoot = {}
      BY CallTyped
    <3>2. call[d].step \in NewSteps =>
            /\ recovery'[call[d].new].step = "none"
            /\ \A x \in Entries : recovery'[x].new # call[d].new
      <4> SUFFICES ASSUME call[d].step \in NewSteps
                   PROVE  /\ recovery'[call[d].new].step = "none"
                          /\ \A x \in Entries : recovery'[x].new # call[d].new
        OBVIOUS
      <4>1. call[d].new \in Entries /\ call[d].new # e /\ recovery[call[d].new].step = "none"
            /\ \A x \in Entries : recovery[x].new # call[d].new
        BY <1>1, NewApart, ReplacementsApart
      <4> QED  BY <1>9, <4>1, EntriesPositive
    <3>3. call[d].step # "idle" /\ active[call[d].user] = 0 => active'[call[d].user] = 0
      BY <1>2, <1>7, <3>1, EntriesPositive
    <3> QED  BY <1>5, <1>7, <3>1, <3>2, <3>3, CallStays
  <2> QED  BY <2>1 DEF CallsFit
<1>18. BootFits' /\ ActiveIsEnabled'
  <2>1. toBoot \subseteq Users /\ active[u] # 0
    BY <1>2, EntriesPositive DEF PluginIInv, ManagerTypeOK, PluginTypeOK
  <2> QED  BY <1>5, <1>7, <2>1 DEF PluginIInv, BootFits, ActiveIsEnabled
<1> QED  BY <1>11, <1>12, <1>13, <1>15, <1>16, <1>17, <1>18 DEF PluginIInv

\* Entries that nothing else holds are forgotten, as a recovery that works on
\* one of them ends.
LEMMA Forgets ==
  ASSUME PluginIInv, NEW e \in Entries, recovery[e].step # "none",
         NEW u \in Users, u = entries[e].user, UNCHANGED <<binary, call, outside>>,
         row' \in [Users -> RowType],
         \A w \in Users : row'[w].ver = row[w].ver /\ row'[w].enabled = row[w].enabled,
         \A w \in Users : row'[w].status = "active" => row'[w].enabled,
         active' \in [Users -> Refs],
         \A w \in Users : active'[w] = active[w] \/ (w = u /\ active[w] = e /\ active'[w] = 0),
         recovering' \subseteq recovering, recovering \ {u} \subseteq recovering',
         Working(e) \/ recovering' = recovering,
         recovery' = [recovery EXCEPT ![e] = Resting],
         entries' \in [Entries -> Plugged],
         \A d \in Entries : entries'[d] = entries[d] \/ (entries'[d] = NoEntry /\ (d = e \/ d = recovery[e].new)),
         recovery[e].new # 0 => entries'[recovery[e].new] = NoEntry,
         entries'[e] = entries[e] => \E w \in Users : active'[w] = e,
         \A w \in Users : active'[w] = e => entries'[e] = entries[e]
  PROVE  PluginIInv'
<1>1. /\ NoEntry.user = "none" /\ NoEntry.proc = "down" /\ NoEntry.failed = FALSE
      /\ Resting.step = "none" /\ Resting.new = 0
      /\ UNCHANGED <<closed, toBoot>>
  BY DEF NoEntry, Resting, outside
<1>2. /\ recovery' \in [Entries -> [step : {"none", "record", "read", "start", "off", "swap", "status"},
                                    ver : Versions \cup {0}, new : Refs]]
      /\ recovery'[e] = Resting
      /\ \A d \in Entries : d # e => recovery'[d] = recovery[d]
  <2>1. Resting \in [step : {"none", "record", "read", "start", "off", "swap", "status"},
                     ver : Versions \cup {0}, new : Refs]
    BY EntriesPositive DEF Resting
  <2> QED  BY <2>1 DEF PluginIInv, ManagerTypeOK, PluginTypeOK
<1>3. recovery[e].new # 0 => Working(e)
  BY DEF PluginIInv, RecoveryFits, Working
<1>4. \A d \in Entries : recovery[d].new # 0 =>
        /\ recovery[d].step \notin {"none", "status"} /\ recovery[d].new \in Entries
        /\ recovery[recovery[d].new].step = "none"
        /\ entries[recovery[d].new].user = entries[d].user
        /\ \A w \in Users : active[w] # recovery[d].new
  BY EntriesPositive DEF PluginIInv, RecoveryFits, Resting, ManagerTypeOK, PluginTypeOK
<1>5. \A d \in Entries : d # e /\ recovery[d].step # "none" => d # recovery[e].new /\ entries'[d] = entries[d]
  BY <1>4, EntriesPositive
<1>6. \A d \in Entries : d # e /\ recovery[d].new # 0 =>
        recovery[d].new # e /\ recovery[d].new # recovery[e].new /\ entries'[recovery[d].new] = entries[recovery[d].new]
  BY <1>3, <1>4, ReplacementsApart
<1>7. \A d \in Entries : d # e /\ Working(d) => entries[d].user # u \/ u \in recovering'
  BY ReplacementsApart DEF Working, PluginIInv, RecoveryFits
<1>8. \A w \in Users : active'[w] # 0 =>
        /\ active'[w] = active[w] /\ active[w] \in Entries /\ active[w] # recovery[e].new
        /\ entries'[active[w]] = entries[active[w]]
  BY <1>4, EntriesPositive DEF PluginIInv, ManagerTypeOK, PluginTypeOK
<1>9. ManagerTypeOK'
  BY <1>1, <1>2 DEF PluginIInv, ManagerTypeOK, PluginTypeOK, Plugged
<1>10. EntriesFit'
  BY <1>1 DEF PluginIInv, EntriesFit
<1>11. ActiveFits'
  BY <1>8 DEF PluginIInv, ActiveFits
<1>12. RecoveriesApart'
  BY <1>1, <1>2, <1>5 DEF PluginIInv, RecoveriesApart, Working
<1>13. RecoveryFits'
  <2>1. ASSUME NEW d \in Entries, d # e
        PROVE  /\ recovery'[d].step = "none" => recovery'[d] = Resting
               /\ recovery'[d].step # "none" => entries'[d].user \in Users
               /\ Working(d)' => entries'[d].user \in recovering'
               /\ recovery'[d].step # "swap" => recovery'[d].new = 0
    BY <1>2, <1>5, <1>7, <2>1 DEF PluginIInv, RecoveryFits, Working
  <2>2. \A d \in Entries : recovery'[d].step = "status" => \A w \in Users : active'[w] # d
    BY <1>1, <1>2, <1>8, EntriesPositive DEF PluginIInv, RecoveryFits
  <2>3. ASSUME NEW d \in Entries, recovery'[d].step = "start", active'[entries'[d].user] = d
        PROVE  recovery'[d].ver = row'[entries'[d].user].ver
    <3>1. /\ d # e /\ recovery'[d] = recovery[d] /\ entries'[d] = entries[d] /\ entries[d].user \in Users
      BY <1>1, <1>2, <1>5, <2>3 DEF PluginIInv, RecoveryFits
    <3>2. active[entries[d].user] = d
      BY <1>8, <2>3, <3>1, EntriesPositive
    <3> QED  BY <2>3, <3>1, <3>2 DEF PluginIInv, RecoveryFits
  <2>4. ASSUME NEW d \in Entries, recovery'[d].new # 0
        PROVE  /\ entries'[recovery'[d].new].user = entries'[d].user
               /\ recovery'[recovery'[d].new].step = "none"
               /\ \A w \in Users : active'[w] # recovery'[d].new
               /\ entries'[recovery'[d].new].proc = "up" /\ active'[entries'[d].user] = d =>
                    entries'[recovery'[d].new].ver = row'[entries'[d].user].ver
    <3>1. /\ d # e /\ recovery'[d] = recovery[d] /\ recovery[d].new \in Entries /\ recovery[d].new # e
          /\ entries'[recovery[d].new] = entries[recovery[d].new]
          /\ recovery'[recovery[d].new] = recovery[recovery[d].new]
          /\ recovery[d].step # "none" /\ entries'[d] = entries[d] /\ entries[d].user \in Users
      BY <1>1, <1>2, <1>4, <1>5, <1>6, <2>4 DEF PluginIInv, RecoveryFits
    <3>2. \A w \in Users : active'[w] # recovery[d].new
      BY <1>4, <1>8, <2>4, <3>1
    <3>3. active'[entries[d].user] = d => active[entries[d].user] = d
      BY <1>8, <3>1, EntriesPositive
    <3> QED  BY <2>4, <3>1, <3>2, <3>3 DEF PluginIInv, RecoveryFits
  <2> QED  BY <1>1, <1>2, <2>1, <2>2, <2>3, <2>4 DEF RecoveryFits, Working
<1>14. ChildrenOwned'
  <2>1. ASSUME NEW d \in Entries, d # e, entries'[d].proc = "up" PROVE Owned(d)'
    <3>1. entries'[d] = entries[d] /\ d # recovery[e].new
      BY <1>1, <2>1, EntriesPositive
    <3>2. Owned(d)
      BY <2>1, <3>1 DEF PluginIInv, ChildrenOwned
    <3>3. \A x \in Entries : recovery[x].new = d => recovery'[x].new = d
      BY <1>2, <3>1
    <3>4. \A w \in Users : active[w] = d => active'[w] = d
      BY <2>1
    <3>5. recovery'[d] = recovery[d]
      BY <1>2, <2>1
    <3> QED  BY <3>2, <3>3, <3>4, <3>5 DEF Owned
  <2>2. ASSUME entries'[e].proc = "up" PROVE Owned(e)'
    BY <1>1, <2>2 DEF Owned
  <2> QED  BY <2>1, <2>2 DEF ChildrenOwned
<1>15. CallsFit'
  <2>1. ASSUME NEW d \in PluginCallers PROVE \A o : o = call'[d] => CallFits(o)'
    <3>1. call[d].step # "idle" => call[d].user \in Users /\ toBoot = {}
      BY CallTyped
    <3>2. call[d].step \in NewSteps =>
            /\ entries'[call[d].new] = entries[call[d].new]
            /\ recovery'[call[d].new].step = "none"
            /\ \A x \in Entries : recovery'[x].new # call[d].new
      <4> SUFFICES ASSUME call[d].step \in NewSteps
                   PROVE  /\ entries'[call[d].new] = entries[call[d].new]
                          /\ recovery'[call[d].new].step = "none"
                          /\ \A x \in Entries : recovery'[x].new # call[d].new
        OBVIOUS
      <4>1. call[d].new \in Entries /\ call[d].new # e /\ recovery[call[d].new].step = "none"
            /\ \A x \in Entries : recovery[x].new # call[d].new
        BY NewApart
      <4> QED  BY <1>1, <1>2, <4>1, EntriesPositive
    <3>3. call[d].step # "idle" /\ active[call[d].user] = 0 => active'[call[d].user] = 0
      BY <3>1
    <3> QED  BY <1>1, <3>1, <3>2, <3>3, CallStays
  <2> QED  BY <2>1 DEF CallsFit
<1>16. BootFits' /\ ActiveIsEnabled'
  <2>1. toBoot \subseteq Users
    BY DEF PluginIInv, ManagerTypeOK, PluginTypeOK
  <2> QED  BY <1>1, <2>1 DEF PluginIInv, BootFits, ActiveIsEnabled
<1> QED  BY <1>9, <1>10, <1>11, <1>12, <1>13, <1>14, <1>15, <1>16 DEF PluginIInv

\* An entry that is forgotten is of the type of entries.
LEMMA NoEntryFits == NoEntry \in Plugged
BY DEF NoEntry, Plugged

\* The replacement is not wanted, or there is none.
LEMMA KeepHolds ==
  ASSUME PluginIInv, NEW e \in Entries, RestartSwap(e),
         ~(recovery[e].new # 0 /\ active[entries[e].user] = e /\ ~closed)
  PROVE  PluginIInv'
<1>1. Working(e) /\ recovery[e].step \notin {"none", "status"}
  BY DEF RestartSwap, Working
<1>2. PICK u \in Users : u = entries[e].user
  BY <1>1 DEF PluginIInv, RecoveryFits
<1>3. /\ UNCHANGED <<row, binary, call, outside>>
      /\ recovering' = recovering \ {u}
      /\ recovery' = [recovery EXCEPT ![e] = Resting]
      /\ active' = [active EXCEPT ![u] = IF recovery[e].step = "off" /\ @ = e THEN 0 ELSE @]
      /\ entries' = [d \in Entries |-> IF d = recovery[e].new \/ (d = e /\ active'[u] # e)
                                         THEN NoEntry ELSE entries[d]]
  BY <1>2 DEF RestartSwap, disk
<1>4. /\ active' \in [Users -> Refs] /\ \A w \in Users : w # u => active'[w] = active[w]
      /\ active'[u] = active[u] \/ (active[u] = e /\ active'[u] = 0)
      /\ entries \in [Entries -> Plugged]
      /\ \A w \in Users : active[w] = e => w = u
  BY <1>2, <1>3, EntriesPositive DEF PluginIInv, ManagerTypeOK, PluginTypeOK, Plugged, ActiveFits
<1>5. recovery[e].new # 0 => recovery[e].new \in Entries /\ recovery[e].new # e
  BY <1>1, ReplacementsApart
<1>6. /\ entries' \in [Entries -> Plugged]
      /\ \A d \in Entries : entries'[d] = entries[d] \/ (entries'[d] = NoEntry /\ (d = e \/ d = recovery[e].new))
      /\ recovery[e].new # 0 => entries'[recovery[e].new] = NoEntry
      /\ active'[u] = e => entries'[e] = entries[e]
  BY <1>3, <1>4, <1>5, NoEntryFits, EntriesPositive
<1>7. entries[e] # NoEntry /\ (active'[u] # e => entries'[e] = NoEntry)
  BY <1>2, <1>3, NoneAssumption DEF NoEntry
<1>8. \A w \in Users : active'[w] = e => w = u
  BY <1>4
<1>9. /\ Working(e) \/ recovering' = recovering
      /\ recovering' \subseteq recovering /\ recovering \ {u} \subseteq recovering'
  BY <1>1, <1>3
<1>10. /\ \A w \in Users : active'[w] = active[w] \/ (w = u /\ active[w] = e /\ active'[w] = 0)
       /\ entries'[e] = entries[e] => \E w \in Users : active'[w] = e
       /\ \A w \in Users : active'[w] = e => entries'[e] = entries[e]
  BY <1>4, <1>6, <1>7, <1>8
<1>11. /\ row' \in [Users -> RowType]
       /\ \A w \in Users : row'[w].ver = row[w].ver /\ row'[w].enabled = row[w].enabled
       /\ \A w \in Users : row'[w].status = "active" => row'[w].enabled
  BY <1>3, AsItIs
<1>12. /\ UNCHANGED <<binary, call, outside>> /\ recovery' = [recovery EXCEPT ![e] = Resting]
       /\ active' \in [Users -> Refs] /\ u = entries[e].user /\ recovery[e].step # "none"
  BY <1>1, <1>2, <1>3, <1>4
<1>13. /\ entries' \in [Entries -> Plugged]
       /\ \A d \in Entries : entries'[d] = entries[d] \/ (entries'[d] = NoEntry /\ (d = e \/ d = recovery[e].new))
       /\ recovery[e].new # 0 => entries'[recovery[e].new] = NoEntry
  BY <1>6
<1> QED  BY <1>9, <1>10, <1>11, <1>12, <1>13, Forgets, ZenonT(60)

\* A recovery reports that the plugin is active again.
LEMMA RestartStatusHolds ==
  ASSUME PluginIInv, NEW e \in Entries, RestartStatus(e)
  PROVE  PluginIInv'
<1>1. recovery[e].step = "status" /\ recovery[e].new = 0 /\ \A w \in Users : active[w] # e
  BY DEF RestartStatus, Recovering, PluginIInv, RecoveryFits
<1>2. PICK u \in Users : u = entries[e].user
  BY <1>1 DEF PluginIInv, RecoveryFits
<1>3. /\ row' \in [Users -> RowType]
      /\ \A w \in Users : row'[w].ver = row[w].ver /\ row'[w].enabled = row[w].enabled
      /\ \A w \in Users : row'[w].status = "active" => row'[w].enabled
  <2>1. CASE row[u].enabled
    BY <1>2, <2>1, StatusKept DEF RestartStatus, UpdateStatusIfEnabled
  <2>2. CASE ~row[u].enabled
    BY <1>2, <2>2, AsItIs DEF RestartStatus, UpdateStatusIfEnabled
  <2> QED  BY <2>1, <2>2
<1>4. /\ UNCHANGED <<binary, active, recovering, call, outside>>
      /\ recovery' = [recovery EXCEPT ![e] = Resting] /\ entries' = [entries EXCEPT ![e] = NoEntry]
      /\ entries \in [Entries -> Plugged] /\ active \in [Users -> Refs]
  BY DEF RestartStatus, PluginIInv, ManagerTypeOK, PluginTypeOK, Plugged
<1>5. /\ entries' \in [Entries -> Plugged] /\ entries'[e] = NoEntry
      /\ \A d \in Entries : d # e => entries'[d] = entries[d]
  BY <1>4, NoEntryFits
<1>6. entries[e] # NoEntry
  BY <1>2, NoneAssumption DEF NoEntry
<1> QED  BY <1>1, <1>2, <1>3, <1>4, <1>5, <1>6, Forgets

\* A step of a recovery.
LEMMA RestartHolds ==
  ASSUME PluginIInv, NEW e \in Entries, Restart(e)
  PROVE  PluginIInv'
<1>1. CASE RestartSwap(e)
  BY <1>1, ReplaceHolds, KeepHolds
<1> QED  BY <1>1, RestartRecordHolds, RestartReadHolds, RestartStartHolds, RestartStatusHolds DEF Restart

\* Close.
LEMMA CloseHolds ==
  ASSUME PluginIInv, Close
  PROVE  PluginIInv'
<1>1. /\ UNCHANGED <<row, binary, recovering, recovery, call, toBoot>> /\ toBoot = {} /\ closed' = TRUE
      /\ \A c \in PluginCallers : call[c].step = "idle"
      /\ active' = [u \in Users |-> 0]
  BY DEF Close, At, disk
<1>2. active' \in [Users -> Refs] /\ \A u \in Users : active'[u] = 0
  BY <1>1, EntriesPositive
<1>3. NoEntry.proc = "down" /\ NoEntry.user = "none" /\ NoEntry.failed = FALSE
  BY DEF NoEntry
<1>4. \A e \in Entries :
        /\ entries'[e] \in Plugged
        /\ \/ entries'[e] = entries[e] /\ \A u \in Users : active[u] # e
           \/ recovery[e] = Resting /\ entries'[e] = NoEntry
           \/ recovery[e] # Resting /\ entries'[e].proc = "down" /\ entries'[e].user = entries[e].user
              /\ entries'[e].failed = entries[e].failed /\ \E u \in Users : active[u] = e
  <2> SUFFICES ASSUME NEW e \in Entries
               PROVE  /\ entries'[e] \in Plugged
                      /\ \/ entries'[e] = entries[e] /\ \A u \in Users : active[u] # e
                         \/ recovery[e] = Resting /\ entries'[e] = NoEntry
                         \/ recovery[e] # Resting /\ entries'[e].proc = "down" /\ entries'[e].user = entries[e].user
                            /\ entries'[e].failed = entries[e].failed /\ \E u \in Users : active[u] = e
    OBVIOUS
  <2>1. entries[e] \in Plugged
    BY AsItIs
  <2>2. PICK x \in Plugged : x = Stopped(entries[e])
    BY <2>1 DEF Plugged, Stopped
  <2>3. x.user = entries[e].user /\ x.failed = entries[e].failed /\ x.proc = "down"
    BY <2>1, <2>2 DEF Plugged, Stopped
  <2>4. entries'[e] = IF \A u \in Users : active[u] # e THEN entries[e]
                      ELSE IF recovery[e] = Resting THEN NoEntry ELSE x
    BY <2>2 DEF Close
  <2> QED  BY <2>1, <2>2, <2>3, <2>4, NoEntryFits
<1>5. entries' \in [Entries -> Plugged]
  BY <1>4 DEF Close
<1>6. ManagerTypeOK'
  BY <1>1, <1>2, <1>5 DEF PluginIInv, ManagerTypeOK, PluginTypeOK, Plugged
<1>7. EntriesFit' /\ ActiveFits'
  BY <1>2, <1>3, <1>4, <1>5 DEF PluginIInv, EntriesFit, ActiveFits
<1>8. \A e \in Entries : recovery[e].step # "none" => entries'[e].user = entries[e].user
  BY <1>4 DEF Resting
<1>9. RecoveriesApart'
  BY <1>1, <1>8 DEF PluginIInv, RecoveriesApart, Working
<1>10. RecoveryFits'
  <2>1. \A e \in Entries : recovery[e].new # 0 =>
          /\ recovery[e].new \in Entries /\ recovery[e].step # "none"
          /\ entries'[recovery[e].new].user = entries[recovery[e].new].user
    <3> SUFFICES ASSUME NEW e \in Entries, recovery[e].new # 0
                 PROVE  /\ recovery[e].new \in Entries /\ recovery[e].step # "none"
                        /\ entries'[recovery[e].new].user = entries[recovery[e].new].user
      OBVIOUS
    <3>1. /\ recovery[e].new \in Entries /\ recovery[e].step # "none"
          /\ \A u \in Users : active[u] # recovery[e].new
      BY EntriesPositive DEF PluginIInv, RecoveryFits, Resting, ManagerTypeOK, PluginTypeOK
    <3>2. entries'[recovery[e].new] = entries[recovery[e].new]
      BY <3>1 DEF Close
    <3> QED  BY <3>1, <3>2
  <2>2. \A e \in Entries, w \in Users : active'[w] # e
    BY <1>2, EntriesPositive
  <2> QED  BY <1>1, <1>2, <1>8, <2>1, <2>2 DEF PluginIInv, RecoveryFits, Working
<1>11. ChildrenOwned'
  <2>1. ASSUME NEW e \in Entries, entries'[e].proc = "up" PROVE Owned(e)'
    <3>1. entries'[e] = entries[e] /\ \A u \in Users : active[u] # e
      BY <1>3, <1>4, <2>1
    <3>2. Owned(e)
      BY <2>1, <3>1 DEF PluginIInv, ChildrenOwned
    <3> QED  BY <1>1, <3>1, <3>2 DEF Owned
  <2> QED  BY <2>1 DEF ChildrenOwned
<1>12. CallsFit'
  <2>1. ASSUME NEW d \in PluginCallers PROVE \A o : o = call'[d] => CallFits(o)'
    <3>1. call[d].step = "idle" /\ call[d].step \notin NewSteps
      BY <1>1 DEF NewSteps
    <3> QED  BY <1>1, <3>1, CallStays
  <2> QED  BY <2>1 DEF CallsFit
<1>13. BootFits' /\ ActiveIsEnabled'
  BY <1>1 DEF PluginIInv, BootFits, ActiveIsEnabled
<1> QED  BY <1>6, <1>7, <1>9, <1>10, <1>11, <1>12, <1>13 DEF PluginIInv

\* Nothing runs and nothing is asked for.
FreshManager ==
  /\ row \in [Users -> RowType] /\ ActiveIsEnabled
  /\ binary \in [Users -> Versions \cup {0}]
  /\ active = [u \in Users |-> 0] /\ entries = [e \in Entries |-> NoEntry]
  /\ recovering = {} /\ recovery = [e \in Entries |-> Resting]
  /\ call = [c \in PluginCallers |-> Idle] /\ closed = FALSE
  /\ toBoot \subseteq {u \in Users : row[u].enabled}

\* A manager that has just been made satisfies the invariant.
LEMMA FreshManagerFits == FreshManager => PluginIInv
<1> SUFFICES ASSUME FreshManager PROVE PluginIInv
  OBVIOUS
<1>1. /\ NoEntry \in Plugged /\ NoEntry.proc = "down" /\ NoEntry.failed = FALSE
      /\ Resting \in [step : {"none", "record", "read", "start", "off", "swap", "status"},
                      ver : Versions \cup {0}, new : Refs]
      /\ Resting.step = "none" /\ Resting.new = 0
  BY NoEntryFits, EntriesPositive DEF NoEntry, Resting
<1>2. /\ \A u \in Users : active[u] = 0 /\ \A e \in Entries : active[u] # e
      /\ \A e \in Entries : entries[e] = NoEntry /\ recovery[e] = Resting
      /\ active \in [Users -> Refs] /\ entries \in [Entries -> Plugged]
      /\ recovery \in [Entries -> [step : {"none", "record", "read", "start", "off", "swap", "status"},
                                   ver : Versions \cup {0}, new : Refs]]
  BY <1>1, EntriesPositive DEF FreshManager
<1>3. call \in [PluginCallers -> PluginCalls] /\ \A c \in PluginCallers : call[c] = Idle
  BY IdleTyped DEF FreshManager
<1>4. \A c \in PluginCallers : call[c].rec.ver \in Versions \cup {0} /\ call[c].new \in Refs
  BY <1>3, IdleTyped, EntriesPositive DEF NoRow
<1>5. ManagerTypeOK
  BY <1>2, <1>3, <1>4 DEF FreshManager, ManagerTypeOK, PluginTypeOK, Plugged
<1>6. EntriesFit /\ ActiveFits /\ ChildrenOwned /\ RecoveriesApart
  BY <1>1, <1>2 DEF FreshManager, EntriesFit, ActiveFits, ChildrenOwned, RecoveriesApart, Working
<1>7. RecoveryFits
  BY <1>1, <1>2 DEF FreshManager, RecoveryFits, Working
<1>8. CallsFit
  BY <1>3, IdleTyped DEF CallsFit
<1>9. BootFits /\ ActiveIsEnabled
  BY <1>2 DEF FreshManager, BootFits, ActiveIsEnabled
<1> QED  BY <1>5, <1>6, <1>7, <1>8, <1>9 DEF PluginIInv

\* So does the initial state.
LEMMA PluginInitHolds == PluginInit => PluginIInv
<1>1. PluginInit => FreshManager
  <2> SUFFICES ASSUME PluginInit PROVE FreshManager
    OBVIOUS
  <2>1. row \in [Users -> RowType] /\ ActiveIsEnabled /\ binary \in [Users -> Versions \cup {0}]
    BY DEF PluginInit, RowType, NoRow, ActiveIsEnabled
  <2> QED  BY <2>1 DEF PluginInit, FreshManager
<1> QED  BY <1>1, FreshManagerFits

\* So does the manager of a new process, on the rows and executables of the old one.
LEMMA RebootHolds == PluginIInv /\ Reboot => PluginIInv'
<1>1. PluginIInv /\ Reboot => FreshManager'
  <2> SUFFICES ASSUME PluginIInv, Reboot PROVE FreshManager'
    OBVIOUS
  <2>1. /\ UNCHANGED <<row, binary>> /\ row' \in [Users -> RowType] /\ ActiveIsEnabled'
        /\ binary' \in [Users -> Versions \cup {0}]
    BY DEF Reboot, disk, PluginIInv, ManagerTypeOK, PluginTypeOK, ActiveIsEnabled
  <2> QED  BY <2>1 DEF Reboot, FreshManager
<1> QED  BY <1>1, FreshManagerFits, PTL

\* A request takes a step.
LEMMA CallStepHolds ==
  ASSUME PluginIInv, OnePerPlugin, NEW c \in PluginCallers, CallStep(c)
  PROVE  PluginIInv'
<1>1. CASE TakeAndStop(c, "i_take", "i_swap") \/ TakeAndStop(c, "d_take", "d_state")
           \/ TakeAndStop(c, "x_take", "x_aside") \/ TakeAndStop(c, "a_take", "a_row")
           \/ TakeAndStop(c, "s_take", "idle")
  BY <1>1, TakeHolds
<1>2. CASE InstallFails(c) \/ InstallSwap(c) \/ InstallRow(c) \/ InstallStart(c) \/ InstallState(c)
           \/ InstallActive(c) \/ UndoBinary(c) \/ UndoRow(c) \/ Restore(c)
  BY <1>2, InstallFailsHolds, InstallSwapHolds, InstallRowHolds, StartsHold, InstallStateHolds, SetActiveHolds,
     UndoBinaryHolds, UndoRowHolds, RestoreHolds
<1>3. CASE DisableState(c) \/ EnableLook(c) \/ EnableMark(c) \/ EnableStart(c) \/ EnableActive(c)
           \/ EnableState(c) \/ EnableError(c) \/ EnablePlace(c)
  BY <1>3, DisableStateHolds, EnableLookHolds, EnableMarkHolds, StartsHold, SetActiveHolds, EnableStateHolds,
     EnableErrorHolds, EnablePlaceHolds
<1>4. CASE UninstallAside(c) \/ UninstallRow(c) \/ RemoveAll(c) \/ HangUp(c)
  BY <1>4, UninstallAsideHolds, UninstallRowHolds, RemoveAllHolds, HangUpHolds
<1> QED  BY <1>1, <1>2, <1>3, <1>4 DEF CallStep

\* Nothing happens.
LEMMA ManagerStutters ==
  ASSUME PluginIInv, UNCHANGED pluginVars
  PROVE  PluginIInv'
<1>1. /\ UNCHANGED <<binary, active, recovering, recovery, call, outside>> /\ row' = row /\ entries' = entries
  BY DEF pluginVars, outside
<1> QED  BY <1>1, AsItIs, WearsOn

\* Every step keeps the invariant while requests on one plugin do not overlap.
LEMMA PluginStepHolds ==
  ASSUME PluginIInv, OnePerPlugin, [PluginNext]_pluginVars
  PROVE  PluginIInv'
<1>1. ASSUME NEW c \in PluginCallers, NEW u \in Users, CallBegins(c, u) PROVE PluginIInv'
  BY <1>1, CallsBegin
<1>2. ASSUME NEW c \in PluginCallers, CallStep(c) PROVE PluginIInv'
  BY <1>2, CallStepHolds
<1>3. ASSUME NEW e \in Entries, Restart(e) \/ ChildDies(e) \/ RouteTimesOut(e) PROVE PluginIInv'
  BY <1>3, RestartHolds, ChildDiesHolds, RouteTimesOutHolds
<1>4. ASSUME NEW u \in Users, CallFails(u) \/ Boot(u) PROVE PluginIInv'
  BY <1>4, CallFailsHolds, BootHolds
<1>5. CASE Close
  BY <1>5, CloseHolds
<1>6. CASE Reboot
  BY <1>6, RebootHolds
<1>7. CASE UNCHANGED pluginVars
  BY <1>7, ManagerStutters
<1> QED  BY <1>1, <1>2, <1>3, <1>4, <1>5, <1>6, <1>7 DEF PluginNext

\* Every child has somebody who looks after it.
LEMMA NoChildIsLost == PluginIInv => NoOrphanChild
<1> SUFFICES ASSUME PluginIInv, NEW e \in Entries, entries[e].proc = "up"
             PROVE  \/ \E u \in Users : active[u] = e
                    \/ \E c \in PluginCallers : e = call[c].new
                    \/ \E d \in Entries : e = recovery[d].new \/ (d = e /\ recovery[d].step # "none")
  BY DEF NoOrphanChild
<1> QED  BY DEF PluginIInv, ChildrenOwned, Owned

\* What the invariant says is what the run checks.
LEMMA PluginsFit == PluginIInv => PluginSound
<1> SUFFICES ASSUME PluginIInv PROVE PluginSound
  OBVIOUS
<1>1. RunsWhatRowSays
  BY EntriesPositive DEF PluginIInv, ManagerTypeOK, PluginTypeOK, ActiveFits, RunsWhatRowSays, Ready
<1>2. OneRestart
  BY DEF PluginIInv, RecoveriesApart, Working, OneRestart
<1> QED  BY <1>1, <1>2 DEF PluginSound, PluginIInv, ManagerTypeOK

\* While the requests on one plugin do not overlap, and however hooks, events,
\* routes, recoveries, deaths of children, restarts and Close interleave with
\* them: no child runs on behind the manager's back, what is ready runs the
\* release its row names, a row that says active is enabled, and one goroutine
\* restarts a plugin (manager.go: takeActive, startRuntime, scheduleRestart,
\* restart, SetEnabled, Install, Uninstall).
THEOREM PluginsAreSound == PluginSpec /\ []OnePerPlugin => [](PluginSound /\ NoOrphanChild)
<1>1. PluginIInv /\ OnePerPlugin /\ [PluginNext]_pluginVars => PluginIInv'
  BY PluginStepHolds
<1> QED  BY <1>1, PluginInitHolds, NoChildIsLost, PluginsFit, PTL DEF PluginSpec

\* While the requests on one plugin do not overlap, no child of the manager
\* runs on with nothing left that refers to it, wherever a start, a recovery or
\* Close was when the child was started (manager.go: startRuntime, restart,
\* takeActive, Close).
THEOREM NoChildIsOrphaned == PluginSpec /\ []OnePerPlugin => []NoOrphanChild
<1>1. (PluginSound /\ NoOrphanChild) => NoOrphanChild
  OBVIOUS
<1> QED  BY <1>1, PluginsAreSound, PTL

=============================================================================
