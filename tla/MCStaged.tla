------------------------------- MODULE MCStaged -------------------------------
(***************************************************************************)
(* StagedDownload with two files of sizes one and two.  A behaviour is one *)
(* of a scene: a set of calls, chosen at the start, that take part in it.  *)
(***************************************************************************)
EXTENDS StagedDownload, TLC

CONSTANTS
  small, large,
  Scenes       \* the sets of calls to check together

\* Requests to stage a file are alike.
StarterSymmetry == Permutations(Starters)

MCSize == small :> 1 @@ large :> 2

Upkeep == Deleters \cup Sweepers \cup Purgers

\* All requests to stage a file with the sweep; or one of them with the
\* cancellations, with the deletion of history and the clearing of the cache, or
\* with all of the upkeep.
UpkeepScenes ==
  {Starters \cup Sweepers}
    \cup {{s} \cup Cancellers : s \in Starters}
    \cup {{s} \cup Deleters \cup Purgers : s \in Starters}
    \cup {{s} \cup Upkeep : s \in Starters}

\* Everybody at once.
OneScene == {Calls}

VARIABLE present   \* the calls of the scene

SceneInit == Init /\ limit = Min(Limits) /\ present \in Scenes

\* Somebody cancels transfers: a request, or a purge before it removes them.
Cancelling == present \cap (Cancellers \cup Purgers) # {}

\* With all of the upkeep one file is staged.  Where somebody cancels, two are, the
\* small one first, under one limit, and nobody asks for another.  Otherwise it is
\* as many as MaxJobs allows, the third under the smallest limit.
SceneNext ==
  /\ NextOf(present)
  /\ (Purgers # {} /\ Upkeep \subseteq present) => created' <= 1
  /\ Cancelling => /\ created' <= 2 /\ limit' = limit
                   /\ created' = 2 => fileOf'[1] = small
                   /\ created = 2 => \A s \in Starters : pc[s] = "idle" => pc'[s] = "idle"
  /\ created' = 3 => limit' = Min(Limits)
  /\ UNCHANGED present

SceneSpec == SceneInit /\ [][SceneNext]_<<vars, present>>

\* ReservationsFit of transfers that nobody cancels.  makeRoomFor reads the usage
\* and the rows to evict in two queries: a cancelled row whose worker stores its
\* path in between is not in the one and is in the other.
RoomKept == [][~Cancelling => StartsFit]_<<vars, present>>

FairSceneSpec == SceneSpec /\ Fairness
==============================================================================
