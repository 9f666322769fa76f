------------------------- MODULE ThreadProofs -------------------------
(* Proofs about the parts that leave work to threads nobody locks out: the *)
(* bug reporter with its detached threads, for any number of reports, and  *)
(* the two kinds of task with a worker (WorkerTasks), for any number of    *)
(* addresses and every set of faults.                                      *)
EXTENDS BugReporter, WorkerTasks, FiniteSetTheorems, TLAPS

----------------------------------------------------------------------------
(* Tasks with a worker.                                                    *)

(* The invariant holds of a task that was just created. *)
LEMMA TaskInitially == ASSUME TaskInit PROVE TaskInv
<1> USE NumAddrsAssumption DEF TaskInit, States, DoneStates
<1>1. TaskTypeOK
  <2>1. faults \subseteq AllFaults
    OBVIOUS
  <2>2. handle \in BOOLEAN /\ stop \in BOOLEAN
    OBVIOUS
  <2>3. addrs \in 0..NumAddrs /\ reports \in Seq([state : DoneStates, addrs : 0..NumAddrs])
    OBVIOUS
  <2>4. /\ kind \in {"dns", "thread"} /\ subtasks \in BOOLEAN /\ state \in States /\ told \in States
        /\ data \in {"live", "freed"}
        /\ worker \in {"none", "working", "leaving", "ended"}
        /\ taskMain \in {"idle", "create", "mark", "join", "over"}
    OBVIOUS
  <2> QED
    BY <2>1, <2>2, <2>3, <2>4 DEF TaskTypeOK
<1>2. Handles /\ Telling /\ Reporting /\ NoUseAfterFree
  BY DEF Handles, Telling, Reporting, NoUseAfterFree
<1>3. FinishedOnce /\ AnswerIsWhole
  <2>1. Len(reports) = 0 /\ DOMAIN reports = {} /\ reports = <<>>
    OBVIOUS
  <2>2. FinishedOnce
    BY <2>1 DEF FinishedOnce
  <2>3. AnswerIsWhole
    BY <2>1 DEF AnswerIsWhole
  <2> QED
    BY <2>2, <2>3
<1> QED
  BY <1>1, <1>2, <1>3 DEF TaskInv

(* The worker only adds addresses and tells while it works, and nothing of *)
(* what the main thread has already seen changes by it.                    *)
LEMMA WorkerKeeps == ASSUME TaskInv, Worker PROVE TaskInv'
<1> USE NumAddrsAssumption
    DEF TaskInv, TaskTypeOK, States, DoneStates, Handles,
            Telling, Reporting, NoUseAfterFree, FinishedOnce, AnswerIsWhole,
            setup, taskVars
<1>1. CASE PushAddress
  BY <1>1 DEF PushAddress
<1>2. CASE Resolved
  BY <1>2 DEF Resolved
<1>3. CASE NotResolved
  BY <1>3 DEF NotResolved
<1>4. CASE Desires
  BY <1>4 DEF Desires
<1>5. CASE FunctionReturns
  BY <1>5 DEF FunctionReturns
<1>6. CASE ThreadEnds
  BY <1>6 DEF ThreadEnds
<1> QED
  BY <1>1, <1>2, <1>3, <1>4, <1>5, <1>6 DEF Worker

(* The tick of a dns_task leaves one report, of the worker's end or the    *)
(* subtasks', or two that differ, the first of the worker's; or none.      *)
LEMMA TickReports ==
  ASSUME TaskInv, TickDns
  PROVE  \/ state' = "Running" /\ reports' = <<>>
         \/ \E s \in DoneStates :
              /\ state' = s /\ reports' = <<[state |-> s, addrs |-> addrs]>>
              /\ subtasks \/ (s = Own /\ Own # "Running")
         \/ /\ subtasks /\ Own \in DoneStates
            /\ \E s \in DoneStates \ {Own} :
                 /\ state' = s
                 /\ reports' = Append(<<[state |-> Own, addrs |-> addrs]>>,
                                      [state |-> s, addrs |-> addrs])
<1>1. PICK ended \in OfSubtasks : Ticked(Own, ended)
  BY DEF TickDns
<1>2. Own \in {"Running"} \cup DoneStates
  BY DEF TickDns, TaskInv, TaskTypeOK, States, DoneStates, Handles, Telling, Own
<1>3. state = "Running" /\ reports = <<>>
  BY DEF TickDns, TaskInv, TaskTypeOK, DoneStates, FinishedOnce
<1>4. PICK start, mid, last :
        /\ start = [state |-> "Running", reports |-> <<>>]
        /\ mid = Finish(start, Own) /\ last = Finish(mid, ended)
        /\ state' = last.state /\ reports' = last.reports
  BY <1>1, <1>3 DEF Ticked
<1>5. \A s \in DoneStates :
        Finish(start, s) = [state |-> s, reports |-> <<[state |-> s, addrs |-> addrs]>>]
  BY <1>4 DEF Finish, DoneStates
<1>6. Finish(start, "Running") = start
  BY <1>4 DEF Finish
<1>7. ended = "Running" \/ (subtasks /\ ended \in DoneStates)
  BY DEF OfSubtasks
<1>8. CASE Own = "Running"
  <2>1. CASE ended = "Running"
    BY <1>4, <1>6, <1>8, <2>1
  <2>2. CASE ended \in DoneStates
    <3>1. last = [state |-> ended, reports |-> <<[state |-> ended, addrs |-> addrs]>>]
      BY <1>4, <1>5, <1>6, <1>8, <2>2
    <3>2. state' = ended /\ reports' = <<[state |-> ended, addrs |-> addrs]>>
      BY <1>4, <3>1
    <3>3. subtasks
      BY <1>7, <2>2 DEF DoneStates
    <3> QED
      BY <2>2, <3>2, <3>3
  <2> QED
    BY <1>7, <2>1, <2>2
<1>9. CASE Own \in DoneStates
  <2>1. mid = [state |-> Own, reports |-> <<[state |-> Own, addrs |-> addrs]>>]
    BY <1>4, <1>5, <1>9
  <2>2. CASE ended \in {"Running", Own}
    <3>1. last = mid
      BY <1>4, <2>1, <2>2 DEF Finish
    <3>2. state' = Own /\ reports' = <<[state |-> Own, addrs |-> addrs]>>
      BY <1>4, <2>1, <3>1
    <3> QED
      BY <1>9, <3>2 DEF DoneStates
  <2>3. CASE ended \notin {"Running", Own}
    <3>1. ended \in DoneStates \ {Own} /\ subtasks
      BY <1>7, <2>3
    <3>2. mid.state = Own /\ mid.reports = <<[state |-> Own, addrs |-> addrs]>>
      BY <2>1
    <3>3. last = [state |-> ended,
                  reports |-> Append(mid.reports, [state |-> ended, addrs |-> addrs])]
      BY <1>4, <2>3, <3>2 DEF Finish
    <3>4. last.state = ended
          /\ last.reports = Append(mid.reports, [state |-> ended, addrs |-> addrs])
      BY <3>3
    <3>5. state' = ended
          /\ reports' = Append(<<[state |-> Own, addrs |-> addrs]>>,
                               [state |-> ended, addrs |-> addrs])
      BY <1>4, <3>2, <3>4
    <3> QED
      BY <1>9, <3>1, <3>5
  <2> QED
    BY <2>2, <2>3
<1> QED
  BY <1>2, <1>8, <1>9

(* So it keeps what is said of the reports, *)
LEMMA TickReportsWell ==
  ASSUME TaskInv, TickDns
  PROVE  /\ state' \in {"Running"} \cup DoneStates
         /\ reports' \in Seq([state : DoneStates, addrs : 0..NumAddrs])
         /\ FinishedOnce' /\ AnswerIsWhole' /\ Reporting'
<1> USE NumAddrsAssumption
<1>1. kind' = kind /\ subtasks' = subtasks /\ worker' = worker /\ kind = "dns"
  BY DEF TickDns, setup
<1>2. addrs \in 0..NumAddrs
  BY DEF TaskInv, TaskTypeOK
<1>3. Own # "Running" =>
        worker # "working" /\ addrs = IF Own = "Succeeded" THEN NumAddrs ELSE 0
  BY DEF TickDns, TaskInv, TaskTypeOK, States, DoneStates, Handles, Telling, Own
<1>4. CASE state' = "Running" /\ reports' = <<>>
  <2>1. Len(reports') = 0 /\ DOMAIN reports' = {}
        /\ reports' \in Seq([state : DoneStates, addrs : 0..NumAddrs])
    BY <1>4
  <2> QED
    BY <1>4, <2>1 DEF FinishedOnce, AnswerIsWhole, Reporting, DoneStates
<1>5. ASSUME NEW s \in DoneStates,
             state' = s, reports' = <<[state |-> s, addrs |-> addrs]>>,
             subtasks \/ (s = Own /\ Own # "Running")
      PROVE  /\ reports' \in Seq([state : DoneStates, addrs : 0..NumAddrs])
             /\ FinishedOnce' /\ AnswerIsWhole' /\ Reporting'
  <2>1. [state |-> s, addrs |-> addrs] \in [state : DoneStates, addrs : 0..NumAddrs]
    BY <1>2
  <2>2. /\ Len(reports') = 1 /\ DOMAIN reports' = {1}
        /\ reports'[1].state = s /\ reports'[1].addrs = addrs
        /\ reports' \in Seq([state : DoneStates, addrs : 0..NumAddrs])
    BY <1>5, <2>1
  <2>3. FinishedOnce'
    BY <1>1, <1>5, <2>2 DEF FinishedOnce
  <2>4. AnswerIsWhole' /\ Reporting'
    BY <1>1, <1>3, <1>5, <2>2 DEF AnswerIsWhole, Reporting
  <2> QED
    BY <2>2, <2>3, <2>4
<1>6. ASSUME NEW s \in DoneStates \ {Own}, subtasks, Own \in DoneStates,
             state' = s,
             reports' = Append(<<[state |-> Own, addrs |-> addrs]>>,
                               [state |-> s, addrs |-> addrs])
      PROVE  /\ reports' \in Seq([state : DoneStates, addrs : 0..NumAddrs])
             /\ FinishedOnce' /\ AnswerIsWhole' /\ Reporting'
  <2>1. /\ [state |-> Own, addrs |-> addrs] \in [state : DoneStates, addrs : 0..NumAddrs]
        /\ [state |-> s, addrs |-> addrs] \in [state : DoneStates, addrs : 0..NumAddrs]
    BY <1>2, <1>6
  <2>2. /\ Len(reports') = 2 /\ DOMAIN reports' = {1, 2}
        /\ reports'[1].state = Own /\ reports'[1].addrs = addrs /\ reports'[2].state = s
        /\ reports' \in Seq([state : DoneStates, addrs : 0..NumAddrs])
    BY <1>6, <2>1
  <2>3. FinishedOnce'
    BY <1>1, <1>6, <2>2 DEF FinishedOnce
  <2>4. AnswerIsWhole' /\ Reporting'
    BY <1>1, <1>3, <1>6, <2>2 DEF AnswerIsWhole, Reporting, DoneStates
  <2> QED
    BY <2>2, <2>3, <2>4
<1> QED
  BY <1>4, <1>5, <1>6, TickReports

(* and the whole invariant, as it leaves the worker and what it told alone. *)
LEMMA TickKeeps == ASSUME TaskInv, TickDns PROVE TaskInv'
<1>1. /\ UNCHANGED <<setup, data, handle, stop, told, addrs, worker, taskMain>>
      /\ kind = "dns" /\ taskMain = "idle" /\ state = "Running"
  BY DEF TickDns
<1>2. TaskTypeOK'
  BY <1>1, TickReportsWell DEF TaskInv, TaskTypeOK, States, setup
<1>3. Handles' /\ Telling' /\ NoUseAfterFree'
  BY <1>1, TickReportsWell DEF TaskInv, Handles, Telling, NoUseAfterFree, DoneStates, setup
<1> QED
  BY <1>2, <1>3, TickReportsWell DEF TaskInv

(* Each step of the main thread keeps the invariant; a reset frees taskData *)
(* only past a worker that has told how it ended.                          *)
LEMMA MainKeeps == ASSUME TaskInv, MainOfTask \/ Shutdown PROVE TaskInv'
<1> USE NumAddrsAssumption
    DEF TaskInv, TaskTypeOK, States, DoneStates, Handles,
            Telling, Reporting, NoUseAfterFree, FinishedOnce, AnswerIsWhole,
            setup, taskVars
<1>1. CASE Start
  BY <1>1 DEF Start
<1>2. CASE CreateThread
  <2>1. TaskTypeOK' /\ Handles' /\ Reporting' /\ NoUseAfterFree'
    BY <1>2 DEF CreateThread
  <2>2. Telling'
    BY <1>2 DEF CreateThread
  <2>3. FinishedOnce' /\ AnswerIsWhole'
    BY <1>2 DEF CreateThread
  <2> QED
    BY <2>1, <2>2, <2>3
<1>3. CASE CreateFails
  BY <1>3 DEF CreateFails
<1>4. CASE MarkRunning
  BY <1>4 DEF MarkRunning
<1>5. CASE TickDns
  BY <1>5, TickKeeps
<1>6. CASE TickThread
  BY <1>6 DEF TickThread
<1>7. CASE TaskReset
  BY <1>7 DEF TaskReset, MustJoin
<1>8. CASE Joined
  BY <1>8 DEF Joined
<1> QED
  BY <1>1, <1>2, <1>3, <1>4, <1>5, <1>6, <1>7, <1>8 DEF MainOfTask, Erase, Shutdown

(* The strengthened invariant holds in every reachable state. *)
THEOREM TaskInvariance == TaskSpec => []TaskInv
<1>0. TaskInit => TaskInv
  BY TaskInitially
<1>1. ASSUME TaskInv, [TaskNext]_workerVars PROVE TaskInv'
  <2>1. CASE Worker
    BY <1>1, <2>1, WorkerKeeps
  <2>2. CASE MainOfTask \/ Shutdown
    BY <1>1, <2>2, MainKeeps
  <2>3. CASE UNCHANGED workerVars
    BY <1>1, <2>3
       DEF workerVars, setup, taskVars, TaskInv, TaskTypeOK, Handles,
           Telling, Reporting, NoUseAfterFree, FinishedOnce, AnswerIsWhole
  <2> QED
    BY <1>1, <2>1, <2>2, <2>3 DEF TaskNext
<1> QED
  BY <1>0, <1>1, PTL DEF TaskSpec

(* A reset never frees taskData under a worker that still uses it, joined  *)
(* (dns_task.c:85, thread_task.c:30) or not.                               *)
THEOREM DataOutlivesWorker == TaskSpec => []NoUseAfterFree
<1>1. TaskInv => NoUseAfterFree
  BY DEF TaskInv
<1> QED
  BY TaskInvariance, <1>1, PTL

(* finishedFunc is told the state the task ends in, once (dns_task.c:73-78) *)
(* or, when its subtasks end in the same tick, twice (dns_task.c:60).      *)
THEOREM FinishedAlwaysOnce == TaskSpec => []FinishedOnce
<1>1. TaskInv => FinishedOnce
  BY DEF TaskInv
<1> QED
  BY TaskInvariance, <1>1, PTL

(* It is told the whole answer of the worker, whoever was first in         *)
(* dns_task_statechanged, unless it is the subtasks that end the task.     *)
THEOREM AnswerAlwaysWhole == TaskSpec => []AnswerIsWhole
<1>1. TaskInv => AnswerIsWhole
  BY DEF TaskInv
<1> QED
  BY TaskInvariance, <1>1, PTL

----------------------------------------------------------------------------
(* The bug reporter. *)

(* The number of strings of a packet is a number. *)
LEMMA CountIsNat == ASSUME TypeOK, NEW r \in Report
                    PROVE  4 + (IF assignee THEN 1 ELSE 0) + Cardinality(opts[r]) \in Nat
  <1>1. IsFiniteSet(opts[r])
    BY FS_Subset, OptionalAssumption DEF TypeOK
  <1>2. Cardinality(opts[r]) \in Nat
    BY <1>1, FS_CardinalityType
  <1>3. \A k \in Nat : 4 + (IF assignee THEN 1 ELSE 0) + k \in Nat
    OBVIOUS
  <1> QED
    BY <1>2, <1>3

LEMMA Initially == Init => IInv
  <1> SUFFICES ASSUME Init PROVE IInv
    OBVIOUS
  <1>a. inits \in 0..MaxInits
    BY MaxInitsAssumption DEF Init
  <1>b. project \in BOOLEAN /\ assignee \in BOOLEAN /\ early \in BOOLEAN
    BY DEF Init
  <1>c. opts \in [Report -> SUBSET Optional] /\ at \in [Report -> Places]
    BY DEF Init, Places
  <1>d. announced \in [Report -> Nat] /\ strings \in [Report -> Nat]
    BY DEF Init
  <1>1. TypeOK
    BY <1>a, <1>b, <1>c, <1>d DEF Init, TypeOK
  <1>2. \A r \in Report : at[r] = "none" /\ holder # r
    BY NobodyAssumption DEF Init
  <1>3. ~project /\ prog = "down"
    BY DEF Init
  <1>4. PacketIsWhole
    BY <1>2 DEF PacketIsWhole, Critical
  <1> QED
    BY <1>1, <1>2, <1>3, <1>4 DEF IInv, Critical, Alive

(* Every step keeps the invariant: a report in the critical section holds  *)
(* the lock, and an orderly shutdown finds no report alive.                *)
LEMMA Inductive == IInv /\ [Next]_vars => IInv'
  <1> SUFFICES ASSUME IInv, [Next]_vars PROVE IInv'
    OBVIOUS
  <1> USE NobodyAssumption, MaxInitsAssumption
      DEF IInv, TypeOK, Places, Critical, Alive, PacketIsWhole, Goes, globalVars, packetVars
  <1>1. CASE BugReporterInit
    <2>1. early' \in BOOLEAN /\ (~early' => ~early /\ \A r \in Report : ~Alive(r))
      <3> HIDE DEF Alive
      <3>1. early' = (early \/ \E r \in Report : Alive(r))
        BY <1>1 DEF BugReporterInit
      <3> QED
        BY <3>1, Zenon
    <2>2. /\ prog' = "up" /\ cs' = "ready" /\ holder' = Nobody
          /\ project' = TRUE /\ assignee' \in BOOLEAN
          /\ inits < MaxInits /\ inits' = inits + 1
          /\ UNCHANGED <<con, main, opts, at, announced, strings>>
      BY <1>1, Zenon DEF BugReporterInit
    <2>3. TypeOK'
      <3>1. inits' \in 0..MaxInits
        <4>1. inits \in 0..MaxInits
          OBVIOUS
        <4> HIDE DEF IInv
        <4> QED
          BY <2>2, <4>1, MaxInitsAssumption
      <3> QED
        BY <2>1, <2>2, <3>1
    <2>4. ~early' => \A r \in Report : at[r] \in {"none", "freed", "leaked"}
      BY <2>1
    <2> QED
      BY <2>2, <2>3, <2>4
  <1>2. CASE ShutdownProject
    BY <1>2 DEF ShutdownProject
  <1>3. CASE ShutdownAssignee
    BY <1>3 DEF ShutdownAssignee
  <1>4. CASE ShutdownLock
    BY <1>4 DEF ShutdownLock
  <1>5. ASSUME NEW r \in Report, BugReportInit(r) PROVE IInv'
    <2> USE <1>5 DEF BugReportInit
    <2>1. TypeOK'
      OBVIOUS
    <2>2. at[r] = "none" /\ at' = [at EXCEPT ![r] = at'[r]] /\ at'[r] \in {"made", "freed"}
      OBVIOUS
    <2>3. \A q \in Report : q # r => at'[q] = at[q] /\ opts'[q] = opts[q]
      OBVIOUS
    <2>4. \A q \in Report : at'[q] \in Critical \cup {"counted", "lock"} => q # r
      BY <2>2
    <2>5. ~early => prog = "up"
      OBVIOUS
    <2> QED
      BY <2>1, <2>2, <2>3, <2>4, <2>5
  <1>6. ASSUME NEW r \in Report, Abandon(r) PROVE IInv'
    BY <1>6 DEF Abandon
  <1>7. ASSUME NEW r \in Report, DispatchAsync(r) PROVE IInv'
    BY <1>7, ZenonT(60) DEF DispatchAsync
  <1>8. ASSUME NEW r \in Report, DispatchSync(r) PROVE IInv'
    BY <1>8 DEF DispatchSync
  <1>9. ASSUME NEW r \in Report, CountStrings(r) PROVE IInv'
    <2> USE <1>9 DEF CountStrings
    <2>1. TypeOK'
      BY CountIsNat
    <2>2. at[r] = "start" /\ at'[r] = "counted"
      OBVIOUS
    <2>3. \A q \in Report : q # r => at'[q] = at[q] /\ announced'[q] = announced[q]
      OBVIOUS
    <2>4. announced'[r] = 4 + (IF assignee' THEN 1 ELSE 0) + Cardinality(opts'[r])
      OBVIOUS
    <2>5. PacketIsWhole'
      BY <2>2, <2>3
    <2>6. ~early' =>
            /\ \A q \in Report : at'[q] \in Critical <=> holder' = q
            /\ \A q \in Report : at'[q] \in {"send", "close"} => con' = q
      BY <2>2, <2>3
    <2>7. ~early' => \A q \in Report : at'[q] = "counted" =>
            announced'[q] = 4 + (IF assignee' THEN 1 ELSE 0) + Cardinality(opts'[q])
      BY <2>2, <2>3, <2>4
    <2>8. (project' => prog' = "up") /\ (~early' /\ prog' = "up" => cs' = "ready")
      OBVIOUS
    <2>9. ~early' /\ prog' # "up" => \A q \in Report : ~Alive(q)'
      BY <2>2, <2>3
    <2> QED
      BY <2>1, <2>5, <2>6, <2>7, <2>8, <2>9
  <1>10. ASSUME NEW r \in Report, WriteStrings(r) PROVE IInv'
    <2> USE <1>10 DEF WriteStrings
    <2>1. TypeOK'
      BY CountIsNat
    <2>2. at[r] = "counted" /\ at'[r] \in {"lock", "reset"}
      OBVIOUS
    <2>3. \A q \in Report : q # r => at'[q] = at[q] /\ strings'[q] = strings[q]
      OBVIOUS
    <2>4. strings'[r] = 4 + (IF assignee THEN 1 ELSE 0) + Cardinality(opts[r])
      OBVIOUS
    <2>5. PacketIsWhole'
      <3>1. ~early => announced[r] = strings'[r]
        BY <2>2, <2>4
      <3>2. announced' = announced /\ (~early' => ~early)
        OBVIOUS
      <3>3. ASSUME NEW q \in Report, q # r, ~early, at'[q] \in {"lock"} \cup Critical
            PROVE  announced'[q] = strings'[q]
        BY <3>2, <3>3, <2>3
      <3>4. ~early' => announced'[r] = strings'[r]
        BY <3>1, <3>2
      <3> QED
        BY <3>2, <3>3, <3>4
    <2>6. ~early' =>
            /\ \A q \in Report : at'[q] \in Critical <=> holder' = q
            /\ \A q \in Report : at'[q] \in {"send", "close"} => con' = q
      BY <2>2, <2>3
    <2>7. ~early' => \A q \in Report : at'[q] = "counted" =>
            announced'[q] = 4 + (IF assignee' THEN 1 ELSE 0) + Cardinality(opts'[q])
      BY <2>2, <2>3
    <2>8. (project' => prog' = "up") /\ (~early' /\ prog' = "up" => cs' = "ready")
      OBVIOUS
    <2>9. ~early' /\ prog' # "up" => \A q \in Report : ~Alive(q)'
      BY <2>2, <2>3
    <2> QED
      BY <2>1, <2>5, <2>6, <2>7, <2>8, <2>9
  <1>11. ASSUME NEW r \in Report, Lock(r) PROVE IInv'
    BY <1>11 DEF Lock
  <1>12. ASSUME NEW r \in Report, Connect(r) PROVE IInv'
    BY <1>12, ZenonT(60) DEF Connect
  <1>13. ASSUME NEW r \in Report, Send(r) PROVE IInv'
    BY <1>13, ZenonT(60) DEF Send
  <1>14. ASSUME NEW r \in Report, Close(r) PROVE IInv'
    BY <1>14 DEF Close
  <1>15. ASSUME NEW r \in Report, Unlock(r) PROVE IInv'
    BY <1>15 DEF Unlock
  <1>16. ASSUME NEW r \in Report, Reset(r) PROVE IInv'
    BY <1>16 DEF Reset
  <1>17. CASE UNCHANGED vars
    BY <1>17 DEF vars
  <1> QED
    BY <1>1, <1>2, <1>3, <1>4, <1>5, <1>6, <1>7, <1>8, <1>9, <1>10, <1>11, <1>12, <1>13,
       <1>14, <1>15, <1>16, <1>17 DEF Next, MainThread, Dispatch

(* The inductive invariant always holds. *)
THEOREM Invariance == Spec => []IInv
  BY Initially, Inductive, PTL DEF Spec

(* What goes over s_bugReport_con is one packet at a time, whole, of the   *)
(* report that opened it, unless the reporter was shut down or started     *)
(* anew while a report was alive.                                          *)
THEOREM AlwaysOnePacketAtATime == Spec => []OnePacketAtATime
  <1>1. IInv => OneSender
    BY NobodyAssumption DEF IInv, TypeOK, OneSender
  <1>2. IInv => TypeOK /\ PacketIsWhole
    BY DEF IInv, PacketIsWhole
  <1> QED
    BY <1>1, <1>2, Invariance, PTL DEF OnePacketAtATime
=============================================================================
