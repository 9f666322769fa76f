--------------------------- MODULE BuildCommands ---------------------------
(***************************************************************************)
(* buildCommands_dispatch (src/mc_build/mc_build_commands.c) together with *)
(* the part of the task system it runs on: the queue s_tasks and           *)
(* tasks_tick (src/tasks.c), the process task's callbacks                  *)
(* (src/process_task.c), and, seen from outside, the child process and the *)
(* IO thread that watches it (src/process_utils.c).                        *)
(*                                                                         *)
(* The main thread is one program counter; children and IO threads move    *)
(* between any two of its steps.  Pointers into s_tasks, the link and the  *)
(* caller's stack frame are modelled by what has become of the link.       *)
(***************************************************************************)
EXTENDS Naturals, SequencesExt, FiniteSetsExt

CONSTANTS NumCommands,  \* buildCommands->count
          MaxTasks      \* maxTasks

(* "spawn": process_spawn yields no process.  "alloc": task_queue cannot   *)
(* grow s_tasks.  "early": the IO thread reports done while its child      *)
(* still runs (the child closed its pipes, or the thread ran before        *)
(* threadWanted was set).                                                  *)
AllFaults == {"spawn", "alloc", "early"}

ASSUME CountAssumption == NumCommands \in Nat
ASSUME MaxTasksAssumption == MaxTasks \in Nat

Commands == 1..NumCommands

VARIABLES
  \* bStopOnError; which of the failures above may happen in this call
  bStopOnError, faults,
  \* buildCommand_t, one flag or field per command
  bDispatched, bTitlePrinted, bFinished, bResultPrinted, result,
  \* buildCommandsState_t
  dispatched, active, errorCount, printed,
  \* s_tasks, the state of each command's task, its buildCommandLink_t
  queue, tstate, link,
  \* the child processes, and the IO threads that have set threadDone
  child, threadDone,
  \* where the main thread is; its index into s_tasks
  pc, cursor

settings == <<bStopOnError, faults>>
cmdVars == <<bDispatched, bTitlePrinted, bFinished, bResultPrinted, result>>
countVars == <<dispatched, active, errorCount, printed>>
taskVars == <<queue, tstate, link>>
childVars == <<child, threadDone>>
vars == <<settings, cmdVars, countVars, taskVars, childVars, pc, cursor>>

DoneStates == {"Succeeded", "Failed"}
TaskStates == {"Unqueued", "Pending", "Running"} \cup DoneStates
PCs == {"tick", "start", "unwind", "print", "dispatch", "returned", "crashed"}

TypeOK ==
  /\ bStopOnError \in BOOLEAN /\ faults \subseteq AllFaults
  /\ bDispatched \subseteq Commands
  /\ bTitlePrinted \subseteq Commands
  /\ bFinished \subseteq Commands
  /\ bResultPrinted \subseteq Commands
  /\ result \in [Commands -> {"unset", "running", "ok", "error"}]
  /\ dispatched \in 0..NumCommands
  /\ active \in Nat
  /\ errorCount \in Nat
  /\ printed \in 0..NumCommands
  /\ queue \in Seq(Commands)
  /\ tstate \in [Commands -> TaskStates]
  /\ link \in [Commands -> {"none", "live", "freed", "leaked"}]
  /\ child \in [Commands -> {"none", "running", "ok", "error"}]
  /\ threadDone \subseteq Commands
  /\ pc \in PCs
  /\ cursor \in Nat \ {0}

Init ==
  /\ bStopOnError \in BOOLEAN /\ faults \in SUBSET AllFaults
  /\ bDispatched = {} /\ bTitlePrinted = {}
  /\ bFinished = {} /\ bResultPrinted = {}
  /\ result = [c \in Commands |-> "unset"]
  /\ dispatched = 0 /\ active = 0 /\ errorCount = 0 /\ printed = 0
  /\ queue = <<>>
  /\ tstate = [c \in Commands |-> "Unqueued"]
  /\ link = [c \in Commands |-> "none"]
  /\ child = [c \in Commands |-> "none"]
  /\ threadDone = {}
  /\ pc = "tick" /\ cursor = 1

----------------------------------------------------------------------------
(* Faulty variants of the definitions they precede, here and below: each   *)
(* is a bug the code could have had, and no part of the model.             *)
LosesFailureCount(c, state, exit, next) ==
  /\ active' = IF state = "Failed" THEN active ELSE active - 1
  /\ bFinished' = bFinished \cup {c}
  /\ errorCount' = IF state = "Failed" THEN errorCount + 1 ELSE errorCount
  /\ result' = IF exit = "none" THEN result ELSE [result EXCEPT ![c] = exit]
  /\ link' = [link EXCEPT ![c] = "freed"]
  /\ pc' = next

(* task_command_statechanged on a task whose state is a done state: give   *)
(* the result to the command through the link and free the link.  With the *)
(* link gone, link->command reads through NULL.  exit is what              *)
(* p->process->exitCode holds, or "none" when there is no process.         *)
CommandDone(c, state, exit, next) ==
  IF link[c] = "live"
  THEN /\ active' = active - 1
       /\ bFinished' = bFinished \cup {c}
       /\ errorCount' = IF state = "Failed" THEN errorCount + 1 ELSE errorCount
       /\ result' = IF exit = "none" THEN result ELSE [result EXCEPT ![c] = exit]
       /\ link' = [link EXCEPT ![c] = "freed"]
       /\ pc' = next
  ELSE /\ pc' = "crashed"
       /\ UNCHANGED <<active, bFinished, errorCount, result, link>>

StillActiveIsSuccess(c) == IF child[c] = "error" THEN "Failed" ELSE "Succeeded"

(* GetExitCodeProcess is 0 only for a child that exited with 0; a child    *)
(* that still runs gives STILL_ACTIVE, which is not 0.                     *)
ExitState(c) == IF child[c] = "ok" THEN "Succeeded" ELSE "Failed"

Busy == cursor <= Len(queue)
Current == queue[cursor]

----------------------------------------------------------------------------
(* First loop of tasks_tick. *)

(* A done task is reset - process_free joins its IO thread - and erased;   *)
(* the index stays, on the task that moves up.                             *)
EraseDone ==
  /\ pc = "tick" /\ Busy /\ tstate[Current] \in DoneStates
  /\ queue' = RemoveAt(queue, cursor)
  /\ threadDone' = threadDone \cup {Current}
  /\ UNCHANGED <<settings, cmdVars, countVars, tstate, link, child, pc, cursor>>

SkipPending ==
  /\ pc = "tick" /\ Busy /\ tstate[Current] = "Pending"
  /\ cursor' = cursor + 1
  /\ UNCHANGED <<settings, cmdVars, countVars, taskVars, childVars, pc>>

(* task_process_tick when process_tick finds the IO thread still at work. *)
PollRunning ==
  /\ pc = "tick" /\ Busy /\ tstate[Current] = "Running"
  /\ Current \notin threadDone
  /\ cursor' = cursor + 1
  /\ UNCHANGED <<settings, cmdVars, countVars, taskVars, childVars, pc>>

PollsFinishedTasks ==
  /\ pc = "tick" /\ Busy /\ tstate[Current] \in {"Running"} \cup DoneStates
  /\ Current \in threadDone
  /\ tstate' = [tstate EXCEPT ![Current] = ExitState(Current)]
  /\ CommandDone(Current, ExitState(Current), child[Current], "tick")
  /\ cursor' = cursor + 1
  /\ UNCHANGED <<settings, bDispatched, bTitlePrinted, bResultPrinted,
                 dispatched, printed, queue, childVars>>

(* task_process_tick when it is done: the exit code decides the state. *)
PollDone ==
  /\ pc = "tick" /\ Busy /\ tstate[Current] = "Running"
  /\ Current \in threadDone
  /\ tstate' = [tstate EXCEPT ![Current] = ExitState(Current)]
  /\ CommandDone(Current, ExitState(Current), child[Current], "tick")
  /\ cursor' = cursor + 1
  /\ UNCHANGED <<settings, bDispatched, bTitlePrinted, bResultPrinted,
                 dispatched, printed, queue, childVars>>

EndTick ==
  /\ pc = "tick" /\ ~Busy
  /\ pc' = "start" /\ cursor' = 1
  /\ UNCHANGED <<settings, cmdVars, countVars, taskVars, childVars>>

----------------------------------------------------------------------------
(* Second loop of tasks_tick: every pending task is set running, and       *)
(* task_process_statechanged spawns its process.                           *)

StartSkip ==
  /\ pc = "start" /\ Busy /\ tstate[Current] # "Pending"
  /\ cursor' = cursor + 1
  /\ UNCHANGED <<settings, cmdVars, countVars, taskVars, childVars, pc>>

StartTask ==
  /\ pc = "start" /\ Busy /\ tstate[Current] = "Pending"
  /\ tstate' = [tstate EXCEPT ![Current] = "Running"]
  /\ child' = [child EXCEPT ![Current] = "running"]
  /\ cursor' = cursor + 1
  /\ UNCHANGED <<settings, cmdVars, countVars, queue, link, threadDone, pc>>

(* No process: task_process_statechanged calls task_set_state(Failed),     *)
(* which runs task_command_statechanged inside the frame that is already   *)
(* running it for the Running state.                                       *)
SpawnFails ==
  /\ "spawn" \in faults
  /\ pc = "start" /\ Busy /\ tstate[Current] = "Pending"
  /\ tstate' = [tstate EXCEPT ![Current] = "Failed"]
  /\ CommandDone(Current, "Failed", "none", "unwind")
  /\ UNCHANGED <<settings, bDispatched, bTitlePrinted, bResultPrinted,
                 dispatched, printed, queue, childVars, cursor>>

(* The outer frame of task_command_statechanged goes on: it asks           *)
(* task_done, and the answer is now yes.                                   *)
UnwindCallback ==
  /\ pc = "unwind"
  /\ CommandDone(Current, tstate[Current], "none", "start")
  /\ cursor' = cursor + 1
  /\ UNCHANGED <<settings, bDispatched, bTitlePrinted, bResultPrinted,
                 dispatched, printed, queue, tstate, childVars>>

EndStart ==
  /\ pc = "start" /\ ~Busy
  /\ pc' = "print" /\ cursor' = 1
  /\ UNCHANGED <<settings, cmdVars, countVars, taskVars, childVars>>

----------------------------------------------------------------------------
(* One iteration of the print loop, for the command at index printed. *)
NextToPrint == printed + 1

PrintResult ==
  /\ pc = "print" /\ NextToPrint \in bDispatched \cap bFinished
  /\ bTitlePrinted' = bTitlePrinted \cup {NextToPrint}
  /\ bResultPrinted' = bResultPrinted \cup {NextToPrint}
  /\ printed' = printed + 1
  /\ UNCHANGED <<settings, bDispatched, bFinished, result, dispatched, active, errorCount,
                 taskVars, childVars, pc, cursor>>

(* Nothing more to print now: the title, at most, and out of the loop. *)
EndPrint ==
  /\ pc = "print" /\ NextToPrint \notin bDispatched \cap bFinished
  /\ bTitlePrinted' = bTitlePrinted \cup ({NextToPrint} \cap bDispatched)
  /\ pc' = "dispatch"
  /\ UNCHANGED <<settings, bDispatched, bFinished, bResultPrinted, result,
                 countVars, taskVars, childVars, cursor>>

----------------------------------------------------------------------------
Stopped == bStopOnError /\ errorCount > 0

OneTaskTooMany == active <= MaxTasks /\ dispatched < NumCommands /\ ~Stopped
IgnoresFailures == active < MaxTasks /\ dispatched < NumCommands

CanDispatch ==
  /\ active < MaxTasks
  /\ dispatched < NumCommands
  /\ ~Stopped

(* Both dispatch branches count the command and go round again. *)
CountDispatch ==
  /\ bDispatched' = bDispatched \cup {dispatched + 1}
  /\ active' = active + 1
  /\ dispatched' = dispatched + 1
  /\ pc' = "tick" /\ cursor' = 1

TitleAtDispatch ==
  /\ pc = "dispatch" /\ CanDispatch
  /\ CountDispatch
  /\ bTitlePrinted' = bTitlePrinted \cup {dispatched + 1}
  /\ queue' = Append(queue, dispatched + 1)
  /\ tstate' = [tstate EXCEPT ![dispatched + 1] = "Pending"]
  /\ link' = [link EXCEPT ![dispatched + 1] = "live"]
  /\ UNCHANGED <<settings, bFinished, bResultPrinted, result, errorCount, printed, childVars>>

DispatchNext ==
  /\ pc = "dispatch" /\ CanDispatch
  /\ CountDispatch
  /\ queue' = Append(queue, dispatched + 1)
  /\ tstate' = [tstate EXCEPT ![dispatched + 1] = "Pending"]
  /\ link' = [link EXCEPT ![dispatched + 1] = "live"]
  /\ UNCHANGED <<settings, bTitlePrinted, bFinished, bResultPrinted, result,
                 errorCount, printed, childVars>>

(* task_queue resets the task and returns NULL, which nobody looks at: no  *)
(* callback will ever come for this link.                                  *)
DispatchNotQueued ==
  /\ "alloc" \in faults
  /\ pc = "dispatch" /\ CanDispatch
  /\ CountDispatch
  /\ link' = [link EXCEPT ![dispatched + 1] = "leaked"]
  /\ UNCHANGED <<settings, bTitlePrinted, bFinished, bResultPrinted, result,
                 errorCount, printed, queue, tstate, childVars>>

DoneOnceDispatched == Stopped \/ dispatched = NumCommands

(* The test that sets bDone, reached when nothing can be dispatched. *)
AllDone ==
  /\ active = 0
  /\ printed = IF Stopped THEN dispatched ELSE NumCommands

Return ==
  /\ pc = "dispatch" /\ ~CanDispatch /\ AllDone
  /\ pc' = "returned"
  /\ UNCHANGED <<settings, cmdVars, countVars, taskVars, childVars, cursor>>

LoopAgain ==
  /\ pc = "dispatch" /\ ~CanDispatch /\ ~AllDone
  /\ pc' = "tick" /\ cursor' = 1
  /\ UNCHANGED <<settings, cmdVars, countVars, taskVars, childVars>>

----------------------------------------------------------------------------
(* The operating system and the IO threads. *)

ChildExits(c) ==
  /\ child[c] = "running"
  /\ \E code \in {"ok", "error"} : child' = [child EXCEPT ![c] = code]
  /\ UNCHANGED <<settings, cmdVars, countVars, taskVars, threadDone, pc, cursor>>

(* process_io_thread sees the pipe broken and sets threadDone. *)
IoThreadDone(c) ==
  /\ child[c] # "none" /\ c \notin threadDone
  /\ child[c] = "running" => "early" \in faults
  /\ threadDone' = threadDone \cup {c}
  /\ UNCHANGED <<settings, cmdVars, countVars, taskVars, child, pc, cursor>>

TasksTick == \/ EraseDone \/ SkipPending \/ PollRunning \/ PollDone \/ EndTick
             \/ StartSkip \/ StartTask \/ SpawnFails \/ UnwindCallback \/ EndStart
PrintLoop == PrintResult \/ EndPrint
Dispatch == DispatchNext \/ DispatchNotQueued \/ Return \/ LoopAgain
Main == TasksTick \/ PrintLoop \/ Dispatch

Next == Main \/ \E c \in Commands : ChildExits(c) \/ IoThreadDone(c)

Spec == Init /\ [][Next]_vars

(* The main thread spins and never blocks; children exit; an IO thread     *)
(* polls its pipes at least every 16 ms.                                   *)
Fairness ==
  /\ WF_vars(Main)
  /\ \A c \in Commands : WF_vars(ChildExits(c)) /\ WF_vars(IoThreadDone(c))

FairSpec == Spec /\ Fairness
----------------------------------------------------------------------------
(* Properties.                                                             *)

Outstanding == {c \in Commands : link[c] \in {"live", "leaked"}}
FailedCommands == {c \in bFinished : tstate[c] = "Failed"}
RunningChildren == {c \in Commands : child[c] = "running"}

(* state.active counts exactly the commands that are dispatched and not    *)
(* finished, a lost one included, and never passes maxTasks; errorCount    *)
(* counts the failed ones (task_command_statechanged and dispatch update   *)
(* them in different places, one callback at a time).                      *)
CountersAgree ==
  /\ active = Cardinality(Outstanding)
  /\ active <= MaxTasks
  /\ errorCount = Cardinality(FailedCommands)

(* When buildCommands_dispatch returns, no link to its stack frame is left *)
(* for a later tasks_tick to follow, every command it dispatched has ended *)
(* and been printed, and it left commands out only because one failed.     *)
ReturnIsClean ==
  pc = "returned" =>
    /\ \A c \in Commands : link[c] # "live"
    /\ bDispatched = bFinished /\ bFinished = bResultPrinted
    /\ bDispatched = Commands \/ (bStopOnError /\ FailedCommands # {})

(* The output is in list order: a title comes after the results of all     *)
(* the commands before it, and a result after its own title and its end.   *)
OutputInOrder ==
  /\ \A c \in bTitlePrinted : 1..(c - 1) \subseteq bResultPrinted
  /\ bResultPrinted \subseteq bTitlePrinted \cap bFinished

(* A command is reported successful only if its child did exit with 0, and *)
(* when the IO thread never runs ahead of the child, the result of every   *)
(* command whose process was spawned is its child's exit code.             *)
ResultIsExitCode ==
  \A c \in bFinished :
    /\ tstate[c] = "Succeeded" <=> result[c] = "ok"
    /\ result[c] = "ok" => child[c] = "ok"
    /\ "early" \notin faults => result[c] = "unset" \/ result[c] = child[c]

(* maxTasks bounds the processes and not just the tasks, as long as IO     *)
(* threads do not run ahead of their children.                             *)
ChildrenBounded ==
  "early" \notin faults => Cardinality(RunningChildren) <= MaxTasks

(* Unless a spawn fails, every link gets one done callback, so that        *)
(* task_command_statechanged never follows a link it has freed.            *)
CallbackOnce == "spawn" \notin faults => pc # "crashed"

(* What a command has reported stays: no later callback changes the state, *)
(* the result or the flags of a finished command.                          *)
FinishedIsFinal ==
  [][\A c \in bFinished : /\ c \in bFinished'
                          /\ tstate'[c] = tstate[c]
                          /\ result'[c] = result[c]]_vars

(* Under Fairness and with no failure to spawn or to queue, the call       *)
(* returns, whatever the children do and however early their IO threads    *)
(* report.                                                                 *)
DispatchReturns == faults \subseteq {"early"} => <>(pc = "returned")

(* buildCommands_dispatch implements JobRunner: a job runs from its        *)
(* dispatch to its done callback.                                          *)
JobStatus(c) == CASE c \notin bDispatched -> "waiting"
                  [] c \in bDispatched \ bFinished -> "running"
                  [] c \in bFinished /\ tstate[c] = "Succeeded" -> "ok"
                  [] OTHER -> "failed"

Jobs == INSTANCE JobRunner WITH
          NumJobs <- NumCommands, MaxJobs <- MaxTasks,
          stopOnError <- bStopOnError, status <- [c \in Commands |-> JobStatus(c)],
          reported <- printed, over <- (pc = "returned")

ImplementsJobRunner == Jobs!Spec
----------------------------------------------------------------------------
(* The inductive invariant behind the safety properties.                   *)

(* A command's flags, its task's state and its link tell the same story.   *)
Consistent ==
  /\ bDispatched = 1..dispatched
  /\ \A c \in Commands :
       /\ link[c] = "none" <=> c \notin bDispatched
       /\ link[c] = "live" <=> tstate[c] \in {"Pending", "Running"}
       /\ link[c] = "freed" <=> c \in bFinished
       /\ c \in bFinished <=> tstate[c] \in DoneStates
       /\ c \notin bFinished => result[c] = "unset"

PrintedPrefix ==
  /\ bResultPrinted = 1..printed
  /\ bResultPrinted \subseteq bTitlePrinted \cap bFinished
  /\ bTitlePrinted \subseteq 1..(printed + 1)

(* Inside the outer callback frame the link is already gone. *)
Unwinding ==
  /\ pc = "unwind" => Busy /\ link[Current] = "freed" /\ tstate[Current] = "Failed"
  /\ pc \in {"unwind", "crashed"} => "spawn" \in faults

ChildFollowsTask ==
  \A c \in Commands :
    /\ tstate[c] \in {"Unqueued", "Pending"} => child[c] = "none" /\ c \notin threadDone
    /\ tstate[c] = "Running" => child[c] # "none"
    /\ child[c] = "running" /\ "early" \notin faults
         => tstate[c] = "Running" /\ c \notin threadDone

(* All the above, with the type and the counters.                          *)
IInv ==
  /\ TypeOK /\ Consistent /\ CountersAgree /\ PrintedPrefix
  /\ Unwinding /\ ChildFollowsTask /\ ResultIsExitCode /\ ReturnIsClean
=============================================================================
