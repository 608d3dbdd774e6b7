----------------------------- MODULE MCTransfers -----------------------------
(***************************************************************************)
(* Transfers with nobody who waits for them to end: one upload that the    *)
(* server works on, and the requests that share the slot of a download.    *)
(* A behaviour is a behaviour of one of these parts, chosen at the start;  *)
(* the other stays as it began, where nothing is enabled that its fairness *)
(* speaks of.                                                              *)
(***************************************************************************)
EXTENDS UploadJob, DownloadSession

VARIABLE part

TransfersInit ==
  /\ part \in {"upload", "download"}
  /\ Init /\ (part = "download" => source = "remote")
  /\ SessionInit

TransfersNext ==
  \/ part = "upload" /\ Next /\ UNCHANGED <<part, sessionVars>>
  \/ part = "download" /\ SessionNext /\ UNCHANGED <<part, vars>>

TransfersSpec ==
  /\ TransfersInit /\ [][TransfersNext]_<<part, vars, sessionVars>>
  /\ Fairness /\ SessionFairness
==============================================================================
