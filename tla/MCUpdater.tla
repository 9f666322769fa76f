----------------------------- MODULE MCUpdater -----------------------------
(* An instance of Updater for TLC: two versions of an application of two   *)
(* files and one in a directory below.  The second version drops one file. *)
EXTENDS Updater, TLC

MCTop == {"app", "old"}
MCSub == {"data"}
MCVersion == {"v1", "v2"}
MCContent == {"1", "2"}
MCArchive == "v1" :> [f \in File |-> "1"] @@
             "v2" :> [f \in File |-> IF f = "old" THEN "absent" ELSE "2"]
=============================================================================
