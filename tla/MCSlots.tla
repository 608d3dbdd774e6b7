------------------------------- MODULE MCSlots -------------------------------
(***************************************************************************)
(* The slots of transfers: the queue for them, and the leases that share   *)
(* one among the segment requests of an upload.                            *)
(* A behaviour is a behaviour of one of these parts, chosen at the start;  *)
(* the other stays as it began, where nothing is enabled that its fairness *)
(* speaks of.                                                              *)
(***************************************************************************)
EXTENDS TaskLimiter, UploadLease

VARIABLE part

Parts == {"limiter", "lease"}

\* Bound: beside a second lease of the job, it is completed and aborted in turns.
ClosersInTurn == created' = 2 => Cardinality({c \in Closers : pc'[c] # "idle"}) < 2

SlotsInit ==
  /\ part \in Parts
  /\ Init
  /\ LeaseInit

SlotsNext ==
  \/ part = "limiter" /\ Next /\ UNCHANGED <<part, leaseVars>>
  \/ part = "lease" /\ LeaseNext /\ ClosersInTurn /\ UNCHANGED <<part, vars>>

SlotsVars == <<part, vars, leaseVars>>

SlotsSpec ==
  /\ SlotsInit /\ [][SlotsNext]_SlotsVars
  /\ Fairness /\ LeaseFairness
==============================================================================
