---------------------------- MODULE MCSettings ----------------------------
(***************************************************************************)
(* Settings on a small instance: three directories, one of them relative,  *)
(* and a log level in the environment that is not the default one.         *)
(***************************************************************************)
EXTENDS Settings

Credentials(n, h) == [id |-> n, hash |-> h]

MCNormalize == [r \in {"", "/dir", "dir"} |-> IF r = "dir" THEN "/dir" ELSE r]

MCEnvironment ==
  [creds |-> Credentials(1, "h"), root |-> "/dir", part |-> 2, segment |-> 4, pool |-> 1,
   conc |-> 1, conns |-> 0, level |-> "debug"]

\* Each field alone, values that fit together only in one order, and credentials
\* with the size of the pool.
MCPatches ==
  {[creds |-> Credentials(2, "h")], [creds |-> Credentials(1, "")],
   [creds |-> Credentials(2, "h"), pool |-> 2], [pool |-> 2], [conc |-> 2], [conns |-> 1],
   [part |-> 1], [segment |-> 2], [part |-> 1, segment |-> 2], [root |-> ""], [root |-> "dir"],
   [level |-> ""]}
======================================================================
