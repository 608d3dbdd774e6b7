----------------------------- MODULE MCScheduler -----------------------------
(***************************************************************************)
(* Scheduler for TLC, in two scenes.  In "race" transfers race for the     *)
(* budgets of two accounts on one day: every statement succeeds, usage is  *)
(* read right before the first booking on it, and health and limits may    *)
(* change.  In "long" statements of the first day may fail, the server may *)
(* restart and a second day come, for transfers on the primary account     *)
(* that book 1.  The primary has a daily limit at the start, since without *)
(* one nothing is ever refused, and is signed in when the other is.        *)
(***************************************************************************)
EXTENDS Scheduler

VARIABLE scene

SceneVars == <<scene, vars>>

SceneInit ==
  /\ scene \in {"race", "long"}
  /\ Init
  /\ quota[1] > 0
  /\ available # {} => 1 \in available
  /\ scene = "long" => available = {1} /\ quota[2] = 0

\* What transfers are about to book on and nobody has read yet.
ToRead == {<<chosen[t], today>> : t \in {u \in Tasks : pc[u] = "reserve"}} \ loaded

Race ==
  /\ today' = today /\ failed' = failed /\ restarts' = restarts
  /\ ToRead # {} => loaded' # loaded
  /\ \A t \in Tasks : size'[t] \notin {0, size[t]} => used = Nothing

Long ==
  /\ changes' = changes
  /\ failed' # failed => today = 1
  /\ \A t \in Tasks : size'[t] <= 1

SceneNext ==
  /\ Next
  /\ loaded' \subseteq loaded \cup ToRead
  /\ IF scene = "race" THEN Race ELSE Long
  /\ UNCHANGED scene

SceneSpec == SceneInit /\ [][SceneNext]_SceneVars /\ Fairness
==============================================================================
