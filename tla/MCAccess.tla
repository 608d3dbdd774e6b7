-------------------------- MODULE MCAccess --------------------------
(***************************************************************************)
(* What comments say of accounts and the code does not keep: the race of   *)
(* two administrators, a new account whose profile comes too late, and a   *)
(* refresh that is under way while the password is changed.                *)
(***************************************************************************)
EXTENDS Access

(* Bound: administrators wait for their answers, and no change is made     *)
(* while somebody logs in: what outlives one is a session that was there.  *)
PatientNext ==
  /\ AccessNext
  /\ ~\E a \in Admins : HangsUp(a)
  /\ admin' # admin => \A c \in Clients : client[c].pc # "login"

PatientSpec == AccessInit /\ [][PatientNext]_accessVars
=====================================================================
