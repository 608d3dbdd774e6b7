------------------------------ MODULE Admission ------------------------------
(***************************************************************************)
(* What a task limiter promises its users, whatever the queueing inside:   *)
(* a set of owners that grows only up to the current limit, that a change  *)
(* of the limit never shrinks, and that a task leaves once.                *)
(***************************************************************************)
EXTENDS Integers, FiniteSets

CONSTANTS Tasks, MaxLimit

VARIABLES
  cap,      \* the configured limit
  owners    \* the tasks that own a slot

avars == <<cap, owners>>

Init ==
  /\ cap \in 1..MaxLimit
  /\ owners = {}

\* One or several tasks get a slot at once; the limit bounds them all.
Admit(S) ==
  /\ S # {} /\ S \cap owners = {}
  /\ Cardinality(owners \cup S) <= cap
  /\ owners' = owners \cup S
  /\ UNCHANGED cap

\* A task gives its slot back, and the freed room may be used in the same step.
Leave(t, S) ==
  /\ t \in owners
  /\ S \cap owners = {}
  /\ S # {} => Cardinality((owners \ {t}) \cup S) <= cap
  /\ owners' = (owners \ {t}) \cup S
  /\ UNCHANGED cap

\* The limit changes; owners stay owners even above the new limit.
Resize(n, S) ==
  /\ cap' = n
  /\ S \cap owners = {}
  /\ S # {} => Cardinality(owners \cup S) <= n
  /\ owners' = owners \cup S

Next ==
  \E S \in SUBSET Tasks :
    \/ Admit(S)
    \/ \E t \in Tasks : Leave(t, S)
    \/ \E n \in 1..MaxLimit : Resize(n, S)

Spec == Init /\ [][Next]_avars
==============================================================================
