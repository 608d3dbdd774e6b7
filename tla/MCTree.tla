------------------------------- MODULE MCTree -------------------------------
EXTENDS Tree

CONSTANTS a, b, UpperA   \* names; UpperA is the capital of a

A == <<a>>
TwoNames == {<<a>>, <<b>>}
TwoCases == {<<a>>, <<UpperA>>, <<b>>}
LowerCase(x) == IF x = UpperA THEN a ELSE x
Interchangeable == Permutations({a, b})
Anything == {RecoveredDir} \cup Seq({a, b, UpperA} \cup Nat)
NoDamage == {}

\* Bound: calls fail and the server stops while there is no file or one directory.
FaultsApart == faults' # faults => (DOMAIN files # {} => Cardinality(DOMAIN dirs) < 2)

\* Three directories, each lost or under the root, one of them or one that is
\* gone, the first under either name, a newer second record of the first, and
\* two files of which the second lost a segment.
DirChoices(i) ==
  {DirRecord(i, p, n) : p \in {Root, 1, 2, 3, 9}, n \in {A} \cup (IF i = 1 THEN {Append(A, 2)} ELSE {})}
FileChoices(f) == {FileRecord(f, [dir |-> p, name |-> A, count |-> f], 1) : p \in {1, 9}}
DamagedChannels ==
  {LET all == <<x, y, z, f, g, again>>
   IN  [m \in {k \in 1..6 : all[k].kind # "none"} |-> all[m]] :
     x \in DirChoices(1) \cup {[kind |-> "none"]},
     y \in DirChoices(2) \cup {[kind |-> "none"]},
     z \in DirChoices(3) \cup {[kind |-> "none"]},
     f \in FileChoices(1) \cup {[kind |-> "none"]},
     g \in FileChoices(2) \cup {[kind |-> "none"]},
     again \in {[kind |-> "none"], DirRecord(1, 2, A)}}
=============================================================================
