------------------------------ MODULE MCTasks ------------------------------
(* An instance of Tasks for TLC: a task or two of each kind.               *)
EXTENDS Tasks

CONSTANTS g, p, o, a

MCKind == [t \in Task |-> CASE t \in {g, p} -> "group"
                            [] t = o -> "own"
                            [] OTHER -> "leaf"]
MCParallel == {p}
AnyUse == AllUses
=============================================================================
