------------------------------ MODULE Rebuild ------------------------------
(***************************************************************************)
(* The index rebuilt from a channel (internal/indexer/indexer.go).  The    *)
(* caption of every message says which directory or which segment of which *)
(* file it is, under which parent and with which name; Rebuilt computes    *)
(* the rows those captions stand for.                                      *)
(*                                                                         *)
(* A channel is a function from message numbers to records.  Identifiers   *)
(* are integers in the order of the ULIDs; the root has no row and is      *)
(* Root, the synthetic recovery folder is Recovered, below every other.  A *)
(* name is a tuple so that "a (2)" is Append(<<"a">>, 2), and a path is a  *)
(* sequence of names, empty for "/".                                       *)
(***************************************************************************)
EXTENDS Integers, FiniteSets, Sequences, FiniteSetsExt, SequencesExt

Root == 0
Recovered == -1
RecoveredDir == <<"_recovered">>

(***************************************************************************)
(* drive/path.go                                                           *)
(***************************************************************************)
Join(parent, name) == Append(parent, name)

IsDescendant(parent, child) == IsStrictPrefix(parent, child)

(***************************************************************************)
(* absorb: history is read newest first and the first message of a         *)
(* directory, or of one segment of a file, wins; the name and folder of a  *)
(* file are those of its newest message.                                   *)
(***************************************************************************)
MessagesOf(channel, kind, id) ==
  {m \in DOMAIN channel : channel[m].kind = kind /\ channel[m].id = id}

IdsOf(channel, kind) == {channel[m].id : m \in {n \in DOMAIN channel : channel[n].kind = kind}}

FoundDirs(channel) ==
  [i \in IdsOf(channel, "dir") |->
     LET m == Max(MessagesOf(channel, "dir", i))
     IN  [parent |-> channel[m].parent, name |-> channel[m].name, msg |-> m]]

FoundFiles(channel) ==
  [i \in IdsOf(channel, "file") |->
     LET msgs == MessagesOf(channel, "file", i)
         m    == Max(msgs)
     IN  [parent |-> channel[m].parent, name |-> channel[m].name, count |-> channel[m].count,
          segs |-> [s \in {channel[n].seg : n \in msgs} |->
                      Max({n \in msgs : channel[n].seg = s})]]]

(***************************************************************************)
(* buildTree: place, passes that settle every record whose parent has a    *)
(* path; then rounds that attach the topmost of what is left, or the       *)
(* lowest record when all of it hangs on a cycle, to the recovery folder.  *)
(***************************************************************************)
RowUnder(parent, parentPath, rec) ==
  [parent |-> parent, name |-> rec.name, path |-> Join(parentPath, rec.name), msg |-> rec.msg]

Place(found, resolved) ==
  LET pass[n \in 0..Cardinality(DOMAIN found)] ==
        IF n = 0 THEN resolved
        ELSE LET r     == pass[n - 1]
                 ready == {i \in DOMAIN found \ DOMAIN r :
                             found[i].parent \in DOMAIN r \cup {Root}}
                 above(i) == IF found[i].parent = Root THEN <<>> ELSE r[found[i].parent].path
             IN  [i \in DOMAIN r \cup ready |->
                    IF i \in ready THEN RowUnder(found[i].parent, above(i), found[i]) ELSE r[i]]
  IN  pass[Cardinality(DOMAIN found)]

RecoveredRow == [parent |-> Root, name |-> RecoveredDir, path |-> <<RecoveredDir>>, msg |-> 0]

Tops_NoCycles(found, left) == {i \in left : found[i].parent \notin DOMAIN found}

Tops(found, left) ==
  LET tops == {i \in left : found[i].parent \notin DOMAIN found}
  IN  IF tops = {} THEN {Min(left)} ELSE tops

Rescue(found, resolved) ==
  LET tops == Tops(found, DOMAIN found \ DOMAIN resolved)
  IN  Place(found, [i \in DOMAIN resolved \cup tops \cup {Recovered} |->
                      IF i \in DOMAIN resolved THEN resolved[i]
                      ELSE IF i = Recovered THEN RecoveredRow
                      ELSE RowUnder(Recovered, <<RecoveredDir>>, found[i])])

BuildTree(found) ==
  LET round[n \in 0..Cardinality(DOMAIN found)] ==
        IF n = 0 THEN Place(found, <<>>)
        ELSE IF DOMAIN found \subseteq DOMAIN round[n - 1] THEN round[n - 1]
             ELSE Rescue(found, round[n - 1])
  IN  round[Cardinality(DOMAIN found)]

(***************************************************************************)
(* dedupePaths: from the shallowest directory down, and the oldest first,  *)
(* a taken path sends its directory, subtree included, to "name (n)".      *)
(***************************************************************************)
Numbered(name, n) == IF n = 1 THEN name ELSE Append(name, n)

FirstFree(name, Taken(_), limit) ==
  Numbered(name, Min({n \in 1..limit : ~Taken(Numbered(name, n))}))

ShallowFirst(rows) ==
  SetToSortSeq(DOMAIN rows, LAMBDA i, j :
    \/ Len(rows[i].path) < Len(rows[j].path)
    \/ Len(rows[i].path) = Len(rows[j].path) /\ i < j)

DedupePaths(rows) ==
  LET settle(done, i) ==
        LET d     == rows[i]
            above == IF d.parent \in DOMAIN done THEN done[d.parent].path ELSE <<>>
            taken(name) == \E j \in DOMAIN done : done[j].path = Join(above, name)
            name  == FirstFree(d.name, taken, Cardinality(DOMAIN rows) + 1)
        IN  [j \in DOMAIN done \cup {i} |->
               IF j = i THEN [d EXCEPT !.name = name, !.path = Join(above, name)] ELSE done[j]]
  IN  FoldLeft(settle, <<>>, ShallowFirst(rows))

(***************************************************************************)
(* buildFiles and dedupeFileNames: a file without its folder goes to the   *)
(* root, one whose segments do not add up is broken, and of two with one   *)
(* name in one folder the younger is numbered.                             *)
(***************************************************************************)
BuildFiles(found, rows) ==
  LET file(i) ==
        [dir    |-> IF found[i].parent \in DOMAIN rows THEN found[i].parent ELSE Root,
         name   |-> found[i].name,
         status |-> IF Cardinality(DOMAIN found[i].segs) = found[i].count
                    THEN "complete" ELSE "broken",
         count  |-> found[i].count,
         segs   |-> found[i].segs]
  IN  [i \in DOMAIN found |-> file(i)]

DedupeFileNames(files) ==
  LET settle(done, i) ==
        LET taken(name) == \E j \in DOMAIN done : done[j].dir = files[i].dir /\ done[j].name = name
        IN  [j \in DOMAIN done \cup {i} |->
               IF j = i THEN [files[i] EXCEPT !.name = FirstFree(files[i].name, taken, Cardinality(DOMAIN files) + 1)]
               ELSE done[j]]
  IN  FoldLeft(settle, <<>>, SetToSortSeq(DOMAIN files, <))

(***************************************************************************)
(* rebuild: everything between the scan and the transaction that replaces  *)
(* the index.                                                              *)
(***************************************************************************)
Rebuilt(channel) ==
  LET rows == DedupePaths(BuildTree(FoundDirs(channel)))
  IN  [dirs |-> rows, files |-> DedupeFileNames(BuildFiles(FoundFiles(channel), rows))]
=============================================================================
