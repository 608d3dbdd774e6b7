------------------------------- MODULE MCBatch -------------------------------
(* Three files of one folder, renamed together.                            *)
EXTENDS BatchRename

FlatFolder == [d |-> "root", e |-> "root", f |-> "root"]
==============================================================================
