----------------------------- MODULE JobRunner -----------------------------
(***************************************************************************)
(* What buildCommands_dispatch promises to its caller, with no task queue, *)
(* callback or process in sight: a list of jobs is started in order, at    *)
(* most MaxJobs run at once, results are reported in list order, and with  *)
(* stopOnError no job starts after a failure.                              *)
(***************************************************************************)
EXTENDS Naturals, FiniteSets

CONSTANTS NumJobs,      \* length of the list
          MaxJobs       \* how many jobs may run at once

VARIABLES stopOnError,  \* start nothing after a failure
          status,       \* job -> waiting, running, ok or failed
          reported,     \* jobs 1..reported have had their output printed
          over          \* the call has returned

vars == <<stopOnError, status, reported, over>>

Jobs == 1..NumJobs
Running == {j \in Jobs : status[j] = "running"}
Failed == {j \in Jobs : status[j] = "failed"}
Ended == {j \in Jobs : status[j] \in {"ok", "failed"}}
Started == Running \cup Ended
MustStop == stopOnError /\ Failed # {}

TypeOK ==
  /\ stopOnError \in BOOLEAN
  /\ status \in [Jobs -> {"waiting", "running", "ok", "failed"}]
  /\ reported \in 0..NumJobs
  /\ over \in BOOLEAN

Init ==
  /\ stopOnError \in BOOLEAN
  /\ status = [j \in Jobs |-> "waiting"]
  /\ reported = 0
  /\ over = FALSE

(* The first waiting job starts when a slot is free and nothing forbids it. *)
Start(j) ==
  /\ ~over /\ ~MustStop
  /\ Started = 1..(j - 1)
  /\ Cardinality(Running) < MaxJobs
  /\ status' = [status EXCEPT ![j] = "running"]
  /\ UNCHANGED <<stopOnError, reported, over>>

(* A running job ends, well or badly, exactly once. *)
End(j, how) ==
  /\ ~over
  /\ status[j] = "running"
  /\ status' = [status EXCEPT ![j] = how]
  /\ UNCHANGED <<stopOnError, reported, over>>

(* Output appears in list order, only once the job has ended. *)
Report ==
  /\ ~over
  /\ reported + 1 \in Ended
  /\ reported' = reported + 1
  /\ UNCHANGED <<stopOnError, status, over>>

(* The call returns when no job runs, every started job has been reported, *)
(* and every job was started unless a failure stopped the list.            *)
Return ==
  /\ ~over
  /\ Running = {}
  /\ Started = 1..reported
  /\ MustStop \/ Started = Jobs
  /\ over' = TRUE
  /\ UNCHANGED <<stopOnError, status, reported>>

Next ==
  \/ \E j \in Jobs : Start(j) \/ \E how \in {"ok", "failed"} : End(j, how)
  \/ Report
  \/ Return

Spec == Init /\ [][Next]_vars
=============================================================================
