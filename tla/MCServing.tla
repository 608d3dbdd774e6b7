-------------------------- MODULE MCServing --------------------------
(***************************************************************************)
(* Serving users: sign-in, WebDAV downloads, byte requests, batch renames. *)
(* A behaviour is a behaviour of one of these parts, chosen at the start;  *)
(* they share no state, and the others stay as they began.                 *)
(***************************************************************************)
EXTENDS Access, ClientDownload, Reader, FileRefs, BatchRename

(* Two chunks of one stream and one of another. *)
MCChunks == {<<"s1", 1>>, <<"s1", 2>>, <<"s2", 1>>}

(* A folder with a file in it, and a file beside it. *)
MCFolder == [d |-> "root", e |-> "root", f |-> "d"]

VARIABLE part

Parts == {"access", "webdav", "reader", "refs", "batch"}

(* The one initial state of a part whose turn it is not. *)
ReaderRest == kept = [size |-> 0, docs |-> <<>>, pending |-> FALSE]
              /\ ask = [segment |-> 0, range |-> [kind |-> "none"]]
RefsRest == segRow = [owner |-> "nobody",
                        handle |-> [account |-> "nobody", issue |-> 1, dc |-> 2]]
BatchRest == called = CHOOSE n \in Naming : TRUE

(* Bound: the founder's password and permissions stay as they are.         *)
FounderStays == account'[Founder].secret = 1 /\ ~account'[Founder].narrowed

(* Bound: a second timer waits only for downloads without overrun, and one *)
(* whose final count was refused is the last.                              *)
OneExcess ==
  /\ \A d \in Downloads : fired'[d] > 1 => dlEntry'[d].received <= Size
  /\ \A d \in unrecorded' : \A x \in Downloads : x > d => dlRow'[x] = "none"

ServingInit ==
  /\ part \in Parts
  /\ AccessInit
  /\ CdInit
  /\ (part = "reader" \/ ReaderRest) /\ ReaderInit
  /\ (part = "refs" \/ RefsRest) /\ RefsInit
  /\ (part = "batch" \/ BatchRest) /\ BatchInit

ServingNext ==
  \/ /\ part = "access" /\ AccessNext /\ FounderStays
     /\ UNCHANGED <<part, cdVars, readerVars, refsVars, batchVars>>
  \/ /\ part = "webdav" /\ CdNext /\ OneExcess
     /\ UNCHANGED <<part, accessVars, readerVars, refsVars, batchVars>>
  \/ /\ part = "reader" /\ ReaderNext
     /\ UNCHANGED <<part, accessVars, cdVars, refsVars, batchVars>>
  \/ /\ part = "refs" /\ RefsNext
     /\ UNCHANGED <<part, accessVars, cdVars, readerVars, batchVars>>
  \/ /\ part = "batch" /\ BatchNext
     /\ UNCHANGED <<part, accessVars, cdVars, readerVars, refsVars>>

ServingVars == <<part, accessVars, cdVars, readerVars, refsVars, batchVars>>

ServingSpec == ServingInit /\ [][ServingNext]_ServingVars
=====================================================================
