---------------------------- MODULE WorkerTasks ----------------------------
(***************************************************************************)
(* The two kinds of task whose work is done by a thread of their own:      *)
(* dns_task (src/dns_task.c), which resolves a name, and thread_task       *)
(* (src/thread_task.c), which runs a function of the program's.  One task, *)
(* from its start by tasks_tick to its reset, on two threads that share    *)
(* taskData without a lock, and of a dns_task the end its subtasks may     *)
(* bring: the tick reads the worker's answer first and ticks them then.    *)
(***************************************************************************)
EXTENDS Naturals, Sequences

CONSTANT NumAddrs   \* addresses getaddrinfo finds

(* "overtake": the worker has ended before dns_task_statechanged, back     *)
(* from bbthread_create, sets threadExitState.  "nothread":                *)
(* bbthread_create fails.                                                  *)
AllFaults == {"overtake", "nothread"}

ASSUME NumAddrsAssumption == NumAddrs \in Nat

VARIABLES
  kind, faults,     \* which task it is, and which faults may happen to it
  subtasks,         \* whether it was given subtasks
  state,            \* its taskState
  data,             \* whether taskData is "live" or "freed"
  handle,           \* whether the thread has a handle
  stop,             \* threadExitRequest; shouldTerminate
  told,             \* threadExitState; threadDesiredState
  addrs,            \* addresses pushed to result.addrs
  worker,           \* where the worker is
  taskMain,         \* where the main thread is
  reports           \* the calls of finishedFunc in turn: what each could see

setup == <<kind, faults, subtasks>>
taskVars == <<state, data, handle, stop>>
workerVars == <<setup, taskVars, told, addrs, worker, taskMain, reports>>

DoneStates == {"Succeeded", "Failed", "Canceled"}
States == {"Pending", "Running"} \cup DoneStates

TaskTypeOK ==
  /\ kind \in {"dns", "thread"} /\ faults \subseteq AllFaults
  /\ subtasks \in BOOLEAN
  /\ state \in States /\ told \in States
  /\ data \in {"live", "freed"} /\ handle \in BOOLEAN /\ stop \in BOOLEAN
  /\ addrs \in 0..NumAddrs
  /\ worker \in {"none", "working", "leaving", "ended"}
  /\ taskMain \in {"idle", "create", "mark", "join", "over"}
  /\ reports \in Seq([state : DoneStates, addrs : 0..NumAddrs])

TaskInit ==
  /\ kind \in {"dns", "thread"} /\ faults \in SUBSET AllFaults
  /\ subtasks \in BOOLEAN
  /\ state = "Pending" /\ data = "live" /\ handle = FALSE /\ stop = FALSE
  /\ told = "Pending" /\ addrs = 0
  /\ worker = "none" /\ taskMain = "idle" /\ reports = <<>>

----------------------------------------------------------------------------
(* The worker: dns_task_thread_proc, or the program's function.            *)

(* dns_task_statechanged has come to the end before the worker has. *)
InTime == taskMain \in {"create", "mark"} => "overtake" \in faults

PushAddress ==
  /\ kind = "dns" /\ worker = "working" /\ addrs < NumAddrs
  /\ addrs' = addrs + 1
  /\ UNCHANGED <<setup, taskVars, told, worker, taskMain, reports>>

(* Faulty variants, here and below: bugs the next definition could have    *)
(* had, and no part of the model.                                          *)
TellsFirst ==
  /\ kind = "dns" /\ worker = "working" /\ InTime
  /\ told' = "Succeeded" /\ worker' = "leaving"
  /\ UNCHANGED <<setup, taskVars, addrs, taskMain, reports>>

Resolved ==
  /\ kind = "dns" /\ worker = "working" /\ addrs = NumAddrs /\ InTime
  /\ told' = "Succeeded" /\ worker' = "leaving"
  /\ UNCHANGED <<setup, taskVars, addrs, taskMain, reports>>

NotResolved ==
  /\ kind = "dns" /\ worker = "working" /\ addrs = 0 /\ InTime
  /\ told' = "Failed" /\ worker' = "leaving"
  /\ UNCHANGED <<setup, taskVars, addrs, taskMain, reports>>

(* The function says how the task ends, once or more, and goes on. *)
Desires ==
  /\ kind = "thread" /\ worker = "working"
  /\ told' \in DoneStates
  /\ UNCHANGED <<setup, taskVars, addrs, worker, taskMain, reports>>

(* It returns when it has said so or was asked to terminate. *)
FunctionReturns ==
  /\ kind = "thread" /\ worker = "working" /\ (told \in DoneStates \/ stop)
  /\ worker' = "leaving"
  /\ UNCHANGED <<setup, taskVars, told, addrs, taskMain, reports>>

(* From here on the worker does not look at taskData. *)
ThreadEnds ==
  /\ worker = "leaving"
  /\ worker' = "ended"
  /\ UNCHANGED <<setup, taskVars, told, addrs, taskMain, reports>>

Worker ==
  \/ PushAddress \/ Resolved \/ NotResolved
  \/ Desires \/ FunctionReturns \/ ThreadEnds

----------------------------------------------------------------------------
(* The main thread. *)

(* tasks_tick sets the task running, and stateChanged creates the thread. *)
Start ==
  /\ taskMain = "idle" /\ state = "Pending"
  /\ state' = "Running" /\ taskMain' = "create"
  /\ UNCHANGED <<setup, data, handle, stop, told, addrs, worker, reports>>

CreateThread ==
  /\ taskMain = "create" /\ worker = "none"
  /\ handle' = TRUE /\ worker' = "working"
  /\ taskMain' = IF kind = "dns" THEN "mark" ELSE "idle"
  /\ UNCHANGED <<setup, state, data, stop, told, addrs, reports>>

CreateFails ==
  /\ taskMain = "create" /\ "nothread" \in faults
  /\ taskMain' = "idle"
  /\ UNCHANGED <<setup, taskVars, told, addrs, worker, reports>>

(* dns_task_statechanged sets threadExitState last. *)
MarkRunning ==
  /\ taskMain = "mark"
  /\ told' = "Running" /\ taskMain' = "idle"
  /\ UNCHANGED <<setup, taskVars, addrs, worker, reports>>

(* task_set_state: a state the task is not in yet is set, and stateChanged *)
(* of a dns_task calls finishedFunc.  "Running" stands for no call.        *)
Finish(now, s) ==
  IF s \in {now.state, "Running"} THEN now
  ELSE [state |-> s, reports |-> Append(now.reports, [state |-> s, addrs |-> addrs])]

OwnOfThread == IF handle THEN told ELSE "Running"

(* The state the task ends in by itself, "Running" as long as it does not. *)
Own == IF handle THEN told ELSE "Failed"

(* What the subtasks that the same tick ticks can come to.  They are open  *)
(* until then: nothing else ticks them.                                    *)
OfSubtasks == IF subtasks THEN {"Running"} \cup DoneStates ELSE {"Running"}

Ticked(first, second) ==
  LET now == Finish(Finish([state |-> state, reports |-> reports], first), second)
  IN  state' = now.state /\ reports' = now.reports

TicksWhenDone ==
  /\ kind = "dns" /\ taskMain = "idle" /\ state # "Pending"
  /\ \E ended \in OfSubtasks : Ticked(Own, ended)
  /\ UNCHANGED <<setup, data, handle, stop, told, addrs, worker, taskMain>>

(* tasks_tick calls tick while the task runs.  Subtasks that end in the    *)
(* very tick in which the task has ended by itself set its state again.    *)
TickDns ==
  /\ kind = "dns" /\ taskMain = "idle" /\ state = "Running"
  /\ \E ended \in OfSubtasks : Ticked(Own, ended)
  /\ UNCHANGED <<setup, data, handle, stop, told, addrs, worker, taskMain>>

(* task_thread_tick leaves the subtasks alone. *)
TickThread ==
  /\ kind = "thread" /\ taskMain = "idle" /\ state = "Running"
  /\ handle /\ told \in DoneStates
  /\ state' = told
  /\ UNCHANGED <<setup, data, handle, stop, told, addrs, worker, taskMain, reports>>

JoinsWhenDone == handle /\ (kind = "dns" => told # "Running")

(* Whether the reset joins the worker: thread_task always, dns_task when it *)
(* takes it to be at work.                                                 *)
MustJoin == handle /\ (kind = "dns" => told = "Running")

(* The reset, of a task that is done or, from tasks_shutdown, of any. *)
TaskReset ==
  /\ taskMain = "idle" /\ data = "live"
  /\ stop' = MustJoin
  /\ taskMain' = IF MustJoin THEN "join" ELSE "over"
  /\ data' = IF MustJoin THEN "live" ELSE "freed"
  /\ UNCHANGED <<setup, state, handle, told, addrs, worker, reports>>

Erase == state \in DoneStates /\ TaskReset
Shutdown == state \notin DoneStates /\ TaskReset

Joined ==
  /\ taskMain = "join" /\ worker = "ended"
  /\ taskMain' = "over" /\ data' = "freed"
  /\ UNCHANGED <<setup, state, handle, stop, told, addrs, worker, reports>>

MainOfTask ==
  \/ Start \/ CreateThread \/ CreateFails \/ MarkRunning
  \/ TickDns \/ TickThread \/ Erase \/ Joined

----------------------------------------------------------------------------
TaskNext == Worker \/ MainOfTask \/ Shutdown

TaskSpec == TaskInit /\ [][TaskNext]_workerVars

(* tasks_tick is called again and again, getaddrinfo returns at some time, *)
(* and the program's function says how it ends and returns.  Subtasks may  *)
(* stay open for ever.                                                     *)
TaskFairness ==
  /\ WF_workerVars(Start \/ CreateThread \/ CreateFails \/ MarkRunning)
  /\ WF_workerVars(Own # "Running" /\ TickDns) /\ WF_workerVars(TickThread)
  /\ WF_workerVars(Erase) /\ WF_workerVars(Joined)
  /\ WF_workerVars(PushAddress \/ Resolved \/ NotResolved \/ ThreadEnds)
  /\ WF_workerVars(Desires /\ told \notin DoneStates) /\ WF_workerVars(FunctionReturns)

TaskFairSpec == TaskSpec /\ TaskFairness

----------------------------------------------------------------------------
(* Properties.                                                             *)

(* taskData is freed only when the worker no longer looks at it, though a  *)
(* dns_task reset often does not join its thread, and whoever was first in *)
(* dns_task_statechanged.                                                  *)
NoUseAfterFree == data = "freed" => worker # "working"

(* finishedFunc is told the state a dns_task ends in, once; with subtasks  *)
(* it may be told twice, of two states, the last that the task is left in. *)
(* A thread_task has no such function.                                     *)
FinishedOnce ==
  /\ Len(reports) <= IF subtasks THEN 2 ELSE 1
  /\ reports # <<>> <=> kind = "dns" /\ state \in DoneStates
  /\ reports # <<>> => reports[Len(reports)].state = state
  /\ Len(reports) = 2 => reports[1].state # reports[2].state

(* It sees every address when the name was resolved and none when it was   *)
(* not, although the worker writes them without a lock - unless the        *)
(* subtasks end the task, maybe while the worker is still at it: of a task *)
(* with subtasks only the first of two calls is sure to be the worker's.   *)
AnswerIsWhole ==
  \A i \in DOMAIN reports :
    ~subtasks \/ (i = 1 /\ Len(reports) = 2) =>
      reports[i].addrs = IF reports[i].state = "Succeeded" THEN NumAddrs ELSE 0

(* What keeps the three: where the main thread and the worker can be at the  *)
(* same time, what the worker has told, and what the main thread has seen. *)
Handles ==
  /\ handle = (worker # "none")
  /\ worker = "none" => addrs = 0 /\ told = "Pending"
  /\ state = "Pending" => worker = "none"
  /\ taskMain = "create" => worker = "none" /\ state = "Running"
  /\ taskMain = "mark" => handle /\ kind = "dns" /\ state = "Running"
  /\ taskMain = "join" => handle
  /\ data = "freed" <=> taskMain = "over"

Telling ==
  kind = "dns" =>
    /\ worker = "working" => told = IF taskMain = "mark" THEN "Pending" ELSE "Running"
    /\ told = "Pending" => ~handle \/ taskMain = "mark"
    /\ told = "Succeeded" => addrs = NumAddrs
    /\ told = "Failed" => addrs = 0
    /\ told # "Canceled"

Reporting == kind = "dns" /\ state \in DoneStates /\ ~subtasks => worker # "working"

TaskInv ==
  /\ TaskTypeOK /\ Handles /\ Telling /\ Reporting
  /\ NoUseAfterFree /\ FinishedOnce /\ AnswerIsWhole

(* The task ends and is freed, the join of its worker with it - unless the *)
(* worker overtook the main thread, whose threadExitState = Running then   *)
(* stands for ever, or it is a thread_task that got no thread, whose tick  *)
(* never ends it.                                                          *)
EndsAndIsFreed ==
  "overtake" \notin faults /\ ("nothread" \in faults => kind = "dns") => <>(data = "freed")
=============================================================================
