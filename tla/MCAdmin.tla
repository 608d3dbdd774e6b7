-------------------------- MODULE MCAdmin --------------------------
(***************************************************************************)
(* Administration: plugins, the Telegram accounts of the drive, settings.  *)
(* A behaviour is a behaviour of one of these parts, chosen at the start;  *)
(* they share no state, and the others stay as they began.                 *)
(***************************************************************************)
EXTENDS Cluster, Membership, Plugins, MCSettings

CONSTANTS k1, k2, t1, t2, v1, v2

MCChannels == {k1, k2}
MCAccountIds == {t1, t2}
MCVersions == {v1, v2}

VARIABLE part

Parts == {"cluster", "membership", "plugins", "settings"}

\* Bound: only one of the accounts has a loop beside its successor, or a session.
OneLingers == authorised' \subseteq {t1} /\ \A n \in Runs \ {1} : loops'[t2][n] = "gone"

\* Bound: polls and transfers take turns, and transfers ask about the lead only.
TakeTurns ==
  \A t \in Transfers :
    /\ job'[t].member \in {Lead, "none"}
    /\ \A w \in Pollers : job'[w] # NoJob => job'[t] = NoJob

\* Bound: over a release nobody installs it again nor, over the second, the first,
\* though an installation that fails puts the first back.
OnlyUpgrades ==
  \A c \in PluginCallers :
    (call[c].step # "i_take" /\ call'[c].step = "i_take")
      => binary[call'[c].user] \notin {call'[c].ver, v2}

\* Bound: three entries while the second release is nowhere, two beside it.
TwoReleases ==
  entries'[3] # NoEntry =>
    /\ \A u \in Users : v2 \notin {binary'[u], row'[u].ver}
    /\ \A c \in PluginCallers : call'[c].ver # v2

AdminInit ==
  /\ part \in Parts
  /\ ClusterInit
  /\ MemberInit
  /\ PluginInit
  /\ SettingsInit

AdminNext ==
  \/ /\ part = "cluster" /\ ClusterNext /\ OneLingers
     /\ UNCHANGED <<part, memberVars, pluginVars, settingsVars>>
  \/ /\ part = "membership" /\ MemberNext /\ TakeTurns
     /\ UNCHANGED <<part, clusterVars, pluginVars, settingsVars>>
  \/ /\ part = "plugins" /\ PluginNext /\ OnlyUpgrades /\ TwoReleases
     /\ UNCHANGED <<part, clusterVars, memberVars, settingsVars>>
  \/ /\ part = "settings" /\ SettingsNext
     /\ UNCHANGED <<part, clusterVars, memberVars, pluginVars>>

AdminVars == <<part, clusterVars, memberVars, pluginVars, settingsVars>>

AdminSpec == AdminInit /\ [][AdminNext]_AdminVars
======================================================================
