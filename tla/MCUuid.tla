------------------------------- MODULE MCUuid -------------------------------
(* Instances of Uuid for TLC: the programs and machines of each run.       *)
EXTENDS Uuid

InFile(r, e) == [callbacks |-> FALSE, resolution |-> r, events |-> e]
InCallbacks(r, e) == [callbacks |-> TRUE, resolution |-> r, events |-> e]

(* A file on a machine whose clock may be set back while the program runs, *)
(* and either store in a program that may crash; on clocks finer than      *)
(* UUIDS_PER_TICK = 2, as coarse, and coarser.                             *)
Supported ==
  UNION {{InFile(r, {"back"}), InFile(r, {"crash"}), InCallbacks(r, {"crash"})} : r \in 1..3}
    \cup {InFile(3, {"back", "nowrite"}), InFile(2, {"crash", "nowrite"})}

ClockBackWithCallbacks == {InCallbacks(3, {"back"})}

(* A clock of fewer units between two readings than UUIDS_PER_TICK. *)
FineClock == {InFile(1, {})}
=============================================================================
