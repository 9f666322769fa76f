------------------------------- MODULE Tasks -------------------------------
(***************************************************************************)
(* Trees of tasks (src/tasks.c): task_queue, task_queue_subtask,           *)
(* task_discard, tasks_tick with its two loops, and task_tick_subtasks,    *)
(* which starts, ticks and counts the subtasks and ends the parent.        *)
(*                                                                         *)
(* Everything runs on the main thread.  A call of task_tick_subtasks is a  *)
(* frame on a stack; a step is one callback or one turn of a loop.         *)
(***************************************************************************)
EXTENDS Naturals, SequencesExt

CONSTANTS Task,      \* the tasks a program makes
          Kind,      \* Task -> "leaf", "group" or "own": what its tick does
          Parallel,  \* the groups with the flag set
          Uses       \* which of the uses below the program makes

(* leaf: has no subtasks.  group: tick is task_tick_subtasks.  own: tick   *)
(* looks at something of its own and then calls task_tick_subtasks, as     *)
(* task_process_tick and dns_task_tick do.                                 *)
(*                                                                         *)
(* "late": subtasks are added to a task that is already queued.  "empty":  *)
(* a group is queued with no subtask.  "alloc": s_tasks cannot grow.       *)
AllUses == {"late", "empty", "alloc"}

ASSUME KindAssumption == Kind \in [Task -> {"leaf", "group", "own"}]
ASSUME ParallelAssumption == Parallel \subseteq Task
ASSUME UsesAssumption == Uses \subseteq AllUses

VARIABLES
  state,      \* task -> its taskState
  kids,       \* task -> the sequence of its subtasks
  root,       \* task -> the top of the tree it is in
  queue,      \* s_tasks
  gone,       \* the tasks that have been reset
  pc, index,  \* where the main thread is, and its index into s_tasks
  stack,      \* the running calls of task_tick_subtasks, innermost last
  doneCalls   \* task -> how often stateChanged has seen it in a done state

treeVars == <<kids, root>>
vars == <<state, treeVars, queue, gone, pc, index, stack, doneCalls>>

DoneStates == {"Succeeded", "Failed", "Canceled"}
States == {"Pending", "Running"} \cup DoneStates
HasTree(t) == Kind[t] # "leaf"

TypeOK ==
  /\ state \in [Task -> States]
  /\ kids \in [Task -> Seq(Task)]
  /\ root \in [Task -> Task]
  /\ queue \in Seq(Task)
  /\ gone \subseteq Task
  /\ pc \in {"idle", "tick", "start"} /\ index \in Nat \ {0}
  /\ stack \in Seq([task : Task, i : Nat \ {0}, ticked : BOOLEAN, seen : SUBSET States])
  /\ doneCalls \in [Task -> 0..2]

Init ==
  /\ state = [t \in Task |-> "Pending"]
  /\ kids = [t \in Task |-> <<>>]
  /\ root = [t \in Task |-> t]
  /\ queue = <<>> /\ gone = {}
  /\ pc = "idle" /\ index = 1 /\ stack = <<>>
  /\ doneCalls = [t \in Task |-> 0]

Tree(t) == {s \in Task : root[s] = root[t]}
Queued(t) == root[t] \in ToSet(queue)
Loose(t) == root[t] = t /\ ~Queued(t) /\ t \notin gone

----------------------------------------------------------------------------
(* task_set_state: nothing happens when the state is the same already. *)
SetState(t, s) ==
  /\ state' = [state EXCEPT ![t] = s]
  /\ doneCalls' = IF s \in DoneStates /\ s # state[t]
                  THEN [doneCalls EXCEPT ![t] = @ + 1]
                  ELSE doneCalls

(* Setting a task running runs its stateChanged callback, which may set it *)
(* failed at once (no process could be spawned).                           *)
SetRunning(t) == SetState(t, "Running") \/ (Kind[t] # "group" /\ SetState(t, "Failed"))

Frame(t) == [task |-> t, i |-> 1, ticked |-> FALSE, seen |-> {}]

(* t->tick(t), called from the frames in below. *)
TickOf(t, below) ==
  /\ IF Kind[t] = "group" THEN UNCHANGED <<state, doneCalls>>
                          ELSE \E s \in States \ {"Pending"} : SetState(t, s)
  /\ stack' = IF HasTree(t) THEN Append(below, Frame(t)) ELSE below

----------------------------------------------------------------------------
(* What the program does between two calls of tasks_tick. *)

(* task_queue *)
Enqueue(t) ==
  /\ pc = "idle" /\ Loose(t) /\ state[t] = "Pending"
  /\ Kind[t] = "group" /\ kids[t] = <<>> => "empty" \in Uses
  /\ queue' = Append(queue, t)
  /\ UNCHANGED <<state, treeVars, gone, pc, index, stack, doneCalls>>

(* task_queue fails and resets the task; task_discard does the same. *)
EnqueueFails(t) ==
  /\ "alloc" \in Uses
  /\ pc = "idle" /\ Loose(t) /\ state[t] = "Pending"
  /\ gone' = gone \cup Tree(t)
  /\ UNCHANGED <<state, treeVars, queue, pc, index, stack, doneCalls>>

(* task_queue_subtask *)
AddSubtask(p, t) ==
  /\ pc = "idle" /\ Loose(t) /\ root[p] # t /\ HasTree(p) /\ p \notin gone
  /\ Queued(p) => "late" \in Uses
  /\ Kind[t] = "group" /\ kids[t] = <<>> => "empty" \in Uses
  /\ kids' = [kids EXCEPT ![p] = Append(@, t)]
  /\ root' = [s \in Task |-> IF root[s] = t THEN root[p] ELSE root[s]]
  /\ UNCHANGED <<state, queue, gone, pc, index, stack, doneCalls>>

(* Faulty variants, here and below: bugs the next definition could have    *)
(* had, and no part of the model.                                          *)
ShutdownKeepsQueue ==
  /\ pc = "idle" /\ queue # <<>>
  /\ gone' = gone \cup {t \in Task : Queued(t)}
  /\ UNCHANGED <<state, treeVars, queue, pc, index, stack, doneCalls>>

(* tasks_shutdown *)
Shutdown ==
  /\ pc = "idle" /\ queue # <<>>
  /\ gone' = gone \cup {t \in Task : Queued(t)}
  /\ queue' = <<>>
  /\ UNCHANGED <<state, treeVars, pc, index, stack, doneCalls>>

TicksBegin ==
  /\ pc = "idle" /\ queue # <<>>
  /\ pc' = "tick" /\ index' = 1
  /\ UNCHANGED <<state, treeVars, queue, gone, stack, doneCalls>>

----------------------------------------------------------------------------
(* The loops of tasks_tick, while no task_tick_subtasks is running. *)

At(loop) == pc = loop /\ stack = <<>> /\ index <= Len(queue)
Current == queue[index]

EraseDone ==
  /\ At("tick") /\ state[Current] \in DoneStates
  /\ gone' = gone \cup Tree(Current)
  /\ queue' = RemoveAt(queue, index)
  /\ UNCHANGED <<state, treeVars, pc, index, stack, doneCalls>>

TickTop ==
  /\ At("tick") /\ state[Current] = "Running"
  /\ TickOf(Current, <<>>)
  /\ index' = index + 1
  /\ UNCHANGED <<treeVars, queue, gone, pc>>

StartTop ==
  /\ At("start") /\ state[Current] = "Pending"
  /\ SetRunning(Current)
  /\ index' = index + 1
  /\ UNCHANGED <<treeVars, queue, gone, pc, stack>>

SkipTop ==
  /\ \/ At("tick") /\ state[Current] = "Pending"
     \/ At("start") /\ state[Current] # "Pending"
  /\ index' = index + 1
  /\ UNCHANGED <<state, treeVars, queue, gone, pc, stack, doneCalls>>

EndLoop ==
  /\ pc # "idle" /\ stack = <<>> /\ index > Len(queue)
  /\ pc' = IF pc = "tick" THEN "start" ELSE "idle"
  /\ index' = 1
  /\ UNCHANGED <<state, treeVars, queue, gone, stack, doneCalls>>

----------------------------------------------------------------------------
(* The loop of task_tick_subtasks, in the innermost frame.  seen holds the *)
(* states counted so far, ticked tells whether subtask i was ticked.       *)

Top == Last(stack)
Below == Front(stack)
InLoop == stack # <<>> /\ Top.i <= Len(kids[Top.task])
Kid == kids[Top.task][Top.i]

StartsAll == state[Kid] = "Pending"
StopsAtFailure == /\ state[Kid] = "Pending"
                  /\ Top.task \in Parallel \/ Top.seen \subseteq {"Succeeded"}
TicksDoneKids == state[Kid] # "Pending" /\ ~Top.ticked

MayStart == state[Kid] = "Pending" /\ (Top.task \in Parallel \/ "Running" \notin Top.seen)
MayTick == state[Kid] = "Running" /\ ~Top.ticked

StartKid ==
  /\ InLoop /\ MayStart
  /\ SetRunning(Kid)
  /\ UNCHANGED <<treeVars, queue, gone, pc, index, stack>>

TickKid ==
  /\ InLoop /\ MayTick
  /\ TickOf(Kid, Append(Below, [Top EXCEPT !.ticked = TRUE]))
  /\ UNCHANGED <<treeVars, queue, gone, pc, index>>

CountKid ==
  /\ InLoop /\ ~MayStart /\ ~MayTick
  /\ stack' = Append(Below, [Top EXCEPT !.seen = @ \cup {state[Kid]},
                                        !.i = @ + 1, !.ticked = FALSE])
  /\ UNCHANGED <<state, treeVars, queue, gone, pc, index, doneCalls>>

FailedFirst(seen) == CASE "Failed" \in seen -> "Failed"
                       [] "Failed" \notin seen /\ "Canceled" \in seen -> "Canceled"
                       [] OTHER -> "Succeeded"

(* The state of the parent when all its subtasks were counted as done. *)
Outcome(seen) == CASE "Canceled" \in seen -> "Canceled"
                   [] "Canceled" \notin seen /\ "Failed" \in seen -> "Failed"
                   [] OTHER -> "Succeeded"

EndSubtasks ==
  /\ stack # <<>> /\ ~InLoop
  /\ IF Top.seen # {} /\ Top.seen \subseteq DoneStates
     THEN SetState(Top.task, Outcome(Top.seen))
     ELSE UNCHANGED <<state, doneCalls>>
  /\ stack' = Below
  /\ UNCHANGED <<treeVars, queue, gone, pc, index>>

----------------------------------------------------------------------------
Program == \/ \E t \in Task : Enqueue(t) \/ EnqueueFails(t)
           \/ \E p, t \in Task : AddSubtask(p, t)
           \/ Shutdown

Ticking == \/ TicksBegin \/ EraseDone \/ TickTop \/ StartTop \/ SkipTop \/ EndLoop
           \/ StartKid \/ TickKid \/ CountKid \/ EndSubtasks

Next == Program \/ Ticking

Spec == Init /\ [][Next]_vars

(* tasks_tick is called again and again, and a task that is ticked again   *)
(* and again ends by itself at some time.                                  *)
EndsItself(t) == Ticking /\ Kind[t] # "group" /\ state[t] = "Running" /\ state'[t] \in DoneStates

Fairness == WF_vars(Ticking) /\ \A t \in Task : SF_vars(EndsItself(t))
FairSpec == Spec /\ Fairness

----------------------------------------------------------------------------
(* Properties.                                                             *)

Done(t) == state[t] \in DoneStates

(* The subtasks of a sequential task run one at a time and in order: none  *)
(* has been started before all its elders are done, however deep the trees *)
(* below them and whenever they were added.                                *)
OneAtATime ==
  \A p \in Task \ Parallel : \A j \in DOMAIN kids[p] : \A i \in 1..(j - 1) :
    state[kids[p][j]] # "Pending" => Done(kids[p][i])

(* A group ends when its last subtask has ended, and its state tells       *)
(* whether one was canceled, or else one failed.                           *)
GroupOutcome ==
  [][\A g \in Task : Kind[g] = "group" /\ ~Done(g) /\ Done(g)' =>
       LET S == {state[k] : k \in ToSet(kids[g])}
       IN  /\ S # {} /\ S \subseteq DoneStates
           /\ state'[g] = "Canceled" <=> "Canceled" \in S
           /\ state'[g] = "Succeeded" <=> S = {"Succeeded"}]_vars

(* stateChanged sees a done state once per task; twice is possible only    *)
(* for an own task, whose tick may end it twice.                           *)
DoneOnce ==
  /\ TypeOK
  /\ \A t \in Task : doneCalls[t] > 1 => Kind[t] = "own" /\ kids[t] # <<>>

(* No task is ticked or started once it has been reset with its tree.      *)
NoCallAfterReset ==
  [][\A t \in gone : state'[t] = state[t] /\ kids'[t] = kids[t]]_vars

(* Every queued task is eventually reset with its tree, when leaves end -  *)
(* unless there is an empty group in the tree, which task_tick_subtasks    *)
(* never ends (tasks.c:156).                                               *)
EmptyGroupNear(t) == \E g \in Tree(t) : Kind[g] = "group" /\ kids[g] = <<>>
QueuedIsReset == <>[](\A t \in Task : Queued(t) => EmptyGroupNear(t))
=============================================================================
