---------------------------- MODULE BatchRename ----------------------------
(***************************************************************************)
(* handleBatchRename (internal/api/fs.go): several renames in one request. *)
(* Everything is checked first, entries whose name another item wants are  *)
(* parked under temporary names, the items are applied in order, and a     *)
(* rename that fails undoes what was done. Each rename is one drive.Rename *)
(* (module Tree), which may be refused: by a name in the way, by a path    *)
(* that has moved, by a plugin or by the database.                         *)
(***************************************************************************)
EXTENDS Integers, FiniteSets, Sequences

CONSTANTS
  Renamables,   \* directories and files
  Folder,       \* the entry that contains each entry, or "root"
  EntryNames,   \* names in use and asked for
  MaxItems,     \* bound: items of a request
  MaxRefusals   \* bound: renames refused without a cause in the tree

ASSUME FolderAssumption == Folder \in [Renamables -> Renamables \cup {"root"}]

VARIABLES
  called,    \* the name of each entry
  before,    \* its name when the request came
  plans,     \* the items in order: [path, new]
  step,      \* where the handler is
  toPark,    \* items still to be parked, then those still to be put back
  parked,    \* items under their temporary names
  applied,   \* items renamed, in order
  refusals,
  spoiled    \* a rename of the rollback was refused

batchVars == <<called, before, plans, step, toPark, parked, applied, refusals, spoiled>>

PathIn(names, e) ==
  IF Folder[e] = "root" THEN <<names[e]>> ELSE <<names[Folder[e]], names[e]>>
Resolve(path) == {e \in Renamables : PathIn(called, e) = path}
Exists(path) == Resolve(path) # {}

Old(i)      == plans[i].path[Len(plans[i].path)]
Sibling(path, name) == [path EXCEPT ![Len(path)] = name]
Target(i)   == Sibling(plans[i].path, plans[i].new)
Temp == <<"temp1", "temp2", "temp3">>
TempPath(i) == Sibling(plans[i].path, Temp[i])

---------------------------------------------------------------------------

(* drive.Rename of the entry at path: it works when the entry is there and *)
(* nothing else has the new name.                                          *)
Works(path, name) ==
  /\ Exists(path)
  /\ name = path[Len(path)] \/ ~Exists(Sibling(path, name))

Renamed(path, name) == [e \in Renamables |-> IF e \in Resolve(path) THEN name ELSE called[e]]

Refused == refusals < MaxRefusals /\ refusals' = refusals + 1

(* The checks before anything is touched: sources that exist and differ,   *)
(* targets that differ and are free or about to be left.                   *)
Sound(its) ==
  LET sources == {its[i].path : i \in DOMAIN its}
      target(i) == Sibling(its[i].path, its[i].new)
  IN  /\ \A i, j \in DOMAIN its : i # j =>
           its[i].path # its[j].path /\ target(i) # target(j)
      /\ \A i \in DOMAIN its :
           /\ Exists(its[i].path)
           /\ target(i) \in sources \/ ~Exists(target(i))

(* Items whose place another item wants.                                   *)
InTheWay(its) ==
  {j \in DOMAIN its : \E i \in DOMAIN its :
     i # j /\ Sibling(its[i].path, its[i].new) = its[j].path}

Receive(its) ==
  /\ step = "idle"
  /\ plans' = its
  /\ before' = called
  /\ IF Sound(its)
       THEN step' = "park" /\ toPark' = InTheWay(its)
       ELSE step' = "refused" /\ toPark' = {}
  /\ UNCHANGED <<called, parked, applied, refusals, spoiled>>

(* The parked ones are a map: they are taken in no particular order. A     *)
(* refusal puts back the ones already parked.                              *)
Park(i) ==
  /\ step = "park" /\ i \in toPark
  /\ \/ /\ Works(plans[i].path, Temp[i])
        /\ called' = Renamed(plans[i].path, Temp[i])
        /\ parked' = parked \cup {i}
        /\ toPark' = toPark \ {i}
        /\ UNCHANGED <<step, refusals>>
     \/ /\ Refused \/ (~Works(plans[i].path, Temp[i]) /\ UNCHANGED refusals)
        /\ step' = "unpark"
        /\ toPark' = parked
        /\ UNCHANGED <<called, parked>>
  /\ UNCHANGED <<before, plans, applied, spoiled>>

AllParked ==
  /\ step = "park" /\ toPark = {}
  /\ step' = "apply"
  /\ UNCHANGED <<called, before, plans, toPark, parked, applied, refusals, spoiled>>

From(i) == IF i \in parked THEN TempPath(i) ELSE plans[i].path

(* The next item; a refusal starts the rollback.                           *)
Apply ==
  /\ step = "apply" /\ Len(applied) < Len(plans)
  /\ LET i == Len(applied) + 1
     IN  \/ /\ Works(From(i), plans[i].new)
            /\ called' = Renamed(From(i), plans[i].new)
            /\ applied' = Append(applied, i)
            /\ UNCHANGED <<step, toPark, refusals>>
         \/ /\ Refused \/ (~Works(From(i), plans[i].new) /\ UNCHANGED refusals)
            /\ step' = "undo"
            /\ toPark' = {j \in parked : j > Len(applied)}
            /\ UNCHANGED <<called, applied>>
  /\ UNCHANGED <<before, plans, parked, spoiled>>

AllApplied ==
  /\ step = "apply" /\ Len(applied) = Len(plans)
  /\ step' = "done"
  /\ UNCHANGED <<called, before, plans, toPark, parked, applied, refusals, spoiled>>

(* A rename of the rollback: when it is refused the code only logs it.     *)
PutBack(path, name) ==
  \/ /\ called' = IF Works(path, name) THEN Renamed(path, name) ELSE called
     /\ UNCHANGED <<refusals, spoiled>>
  \/ /\ Refused
     /\ spoiled' = TRUE
     /\ UNCHANGED called

(* Mutation: the rollback leaves the applied items as they are. *)
Undo_Skipped ==
  /\ step = "undo" /\ applied # <<>>
  /\ applied' = <<>>
  /\ UNCHANGED <<called, before, plans, step, toPark, parked, refusals, spoiled>>

(* The applied items, the last one first.                                  *)
Undo ==
  /\ step = "undo" /\ applied # <<>>
  /\ LET i == applied[Len(applied)]
     IN  /\ PutBack(Target(i), Old(i))
         /\ applied' = SubSeq(applied, 1, Len(applied) - 1)
  /\ UNCHANGED <<before, plans, step, toPark, parked>>

AllUndone ==
  /\ step = "undo" /\ applied = <<>>
  /\ step' = "unpark"
  /\ UNCHANGED <<called, before, plans, toPark, parked, applied, refusals, spoiled>>

(* Then the parked ones that were not applied.                             *)
Unpark(i) ==
  /\ step = "unpark" /\ i \in toPark
  /\ PutBack(TempPath(i), Old(i))
  /\ toPark' = toPark \ {i}
  /\ UNCHANGED <<before, plans, step, parked, applied>>

AllUnparked ==
  /\ step = "unpark" /\ toPark = {}
  /\ step' = "failed"
  /\ UNCHANGED <<called, before, plans, toPark, parked, applied, refusals, spoiled>>

---------------------------------------------------------------------------

Naming == {n \in [Renamables -> EntryNames] :
             \A e, f \in Renamables : e # f => PathIn(n, e) # PathIn(n, f)}

Items == [path : {PathIn(called, e) : e \in Renamables}, new : EntryNames]

BatchInit ==
  /\ called \in Naming
  /\ before = called
  /\ plans = <<>>
  /\ step = "idle"
  /\ toPark = {} /\ parked = {}
  /\ applied = <<>>
  /\ refusals = 0
  /\ spoiled = FALSE

BatchNext ==
  \/ \E n \in 1..MaxItems : \E its \in [1..n -> Items] : Receive(its)
  \/ \E i \in 1..MaxItems : Park(i) \/ Unpark(i)
  \/ AllParked
  \/ Apply
  \/ AllApplied
  \/ Undo
  \/ AllUndone
  \/ AllUnparked

BatchSpec == BatchInit /\ [][BatchNext]_batchVars

---------------------------------------------------------------------------

(* Either every rename of a batch lands or none of them does, whichever    *)
(* rename is refused, swaps, chains and a folder renamed together with     *)
(* something inside it included; only a refusal of the rollback itself     *)
(* excuses a name that is neither.                                         *)
BatchAtomic ==
  /\ step = "done" => \A i \in DOMAIN plans :
       \E e \in Renamables : PathIn(before, e) = plans[i].path /\ called[e] = plans[i].new
  /\ step \in {"failed", "refused"} /\ ~spoiled => called = before
============================================================================
