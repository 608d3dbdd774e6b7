SPECIFICATION AdminSpec
CONSTANTS
  k1 = k1
  k2 = k2
  t1 = t1
  t2 = t2
  v1 = v1
  v2 = v2
  Users = {u1}
  Versions <- MCVersions
  PluginCallers = {c1}
  MaxEntries = 3
  TgAccounts <- MCAccountIds
  TgCallers = {"h"}
  MaxRuns = 2
  Members = {"p", "q"}
  Lead = "p"
  Channels <- MCChannels
  Requests = {"h"}
  Pollers = {"w"}
  Transfers = {"t"}
  Panels = {"page1", "page2"}
  Wizards = {"wizard"}
  Guests = {"plugin"}
  Logins = {"l1", "l2"}
  Main = "l1"
  NormalizeLocalRoot <- MCNormalize
  Environment <- MCEnvironment
  Patches <- MCPatches
  MaxUpdates = 2
  Overlap = FALSE
INVARIANTS NoOrphanChild PluginSound ClusterSound UsableOnDefault SettingsSound
CHECK_DEADLOCK FALSE
