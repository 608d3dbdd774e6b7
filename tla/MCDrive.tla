------------------------------- MODULE MCDrive -------------------------------
(***************************************************************************)
(* The rows of the drive and its channel: one upload by a browser, and the *)
(* directory tree with its index.                                          *)
(* A behaviour is a behaviour of one of these parts, chosen at the start;  *)
(* they share no state, and the other stays as it began.                   *)
(***************************************************************************)
EXTENDS UploadJob, MCTree

VARIABLE part

DriveInit ==
  /\ part \in {"upload", "tree"}
  /\ Init
  /\ TreeInit /\ (part = "tree" \/ ~drill)

DriveNext ==
  \/ part = "upload" /\ Next /\ UNCHANGED <<part, treeVars>>
  \/ part = "tree" /\ TreeNext /\ FaultsApart /\ UNCHANGED <<part, vars>>

DriveSpec == DriveInit /\ [][DriveNext]_<<part, vars, treeVars>>

\* Browser requests are interchangeable, and so are two names.
DriveSymmetry == Permutations(Requests) \cup Interchangeable
==============================================================================
