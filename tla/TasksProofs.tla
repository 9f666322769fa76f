---------------------------- MODULE TasksProofs ----------------------------
(* The proofs about task trees, for any number of tasks in any trees,      *)
(* however deep: the subtasks of a sequential task run one at a time, no   *)
(* task is called once it was reset, a task is seen done once, and a group *)
(* ends as its subtasks did.  IInv is about the trees and what may run,    *)
(* CInv (on top of it) about what the running calls have counted.          *)
EXTENDS Tasks, SequenceTheorems, TLAPS

Frames == [task : Task, i : Nat \ {0}, ticked : BOOLEAN, seen : SUBSET States]

----------------------------------------------------------------------------
(* What the sequence operators do to the elements.                         *)

LEMMA AppendSet ==
  ASSUME NEW S, NEW q \in Seq(S), NEW e \in S
  PROVE  /\ Append(q, e) \in Seq(S)
         /\ ToSet(Append(q, e)) = ToSet(q) \cup {e}
  <1>1. /\ Append(q, e) \in Seq(S) /\ Len(Append(q, e)) = Len(q) + 1 /\ Len(q) \in Nat
        /\ \A i \in 1..Len(q) : Append(q, e)[i] = q[i]
        /\ Append(q, e)[Len(q) + 1] = e
    BY AppendProperties, LenProperties
  <1>2. DOMAIN q = 1..Len(q) /\ DOMAIN Append(q, e) = 1..(Len(q) + 1)
    BY <1>1, LenProperties
  <1> QED
    BY <1>1, <1>2 DEF ToSet

(* The first k elements. *)
LEMMA Beginning ==
  ASSUME NEW S, NEW q \in Seq(S), NEW k \in 0..Len(q)
  PROVE  /\ SubSeq(q, 1, k) \in Seq(S) /\ Len(SubSeq(q, 1, k)) = k
         /\ \A i \in 1..k : SubSeq(q, 1, k)[i] = q[i]
  <1>1. Len(q) \in Nat /\ k \in Int /\ \A i \in 1..k : q[i] \in S
    BY LenProperties, ElementOfSeq
  <1>2. /\ SubSeq(q, 1, k) \in Seq(S)
        /\ \A i \in 1..(k - 1 + 1) : SubSeq(q, 1, k)[i] = q[1 + i - 1]
    BY <1>1, SubSeqProperties
  <1>3. Len(SubSeq(q, 1, k)) = IF 1 <= k THEN k - 1 + 1 ELSE 0
    BY <1>1, SubSeqProperties
  <1>4. Len(SubSeq(q, 1, k)) = k
    BY <1>1, <1>3
  <1>5. ASSUME NEW i \in 1..k PROVE SubSeq(q, 1, k)[i] = q[i]
    <2>1. i \in 1..(k - 1 + 1) /\ 1 + i - 1 = i
      BY <1>1
    <2> QED
      BY <1>2, <2>1
  <1> QED
    BY <1>2, <1>4, <1>5

LEMMA FrontAndLast ==
  ASSUME NEW S, NEW q \in Seq(S), q # <<>>
  PROVE  /\ Front(q) \in Seq(S) /\ ToSet(Front(q)) \subseteq ToSet(q)
         /\ Last(q) \in S /\ Last(q) \in ToSet(q)
  <1>1. Len(q) \in Nat \ {0} /\ DOMAIN q = 1..Len(q) /\ \A i \in 1..Len(q) : q[i] \in S
    BY EmptySeq, LenProperties, ElementOfSeq
  <1>2. /\ SubSeq(q, 1, Len(q) - 1) \in Seq(S)
        /\ Len(SubSeq(q, 1, Len(q) - 1)) = Len(q) - 1
        /\ \A i \in 1..(Len(q) - 1) : SubSeq(q, 1, Len(q) - 1)[i] = q[i]
    <2>1. Len(q) - 1 \in 0..Len(q)
      BY <1>1
    <2> QED
      BY <2>1, Beginning
  <1>3. DOMAIN SubSeq(q, 1, Len(q) - 1) = 1..(Len(q) - 1)
    BY <1>2, LenProperties
  <1> QED
    BY <1>1, <1>2, <1>3 DEF Front, Last, ToSet

(* A sequence without repetition, and one of its elements taken out. *)
Distinct(q) == \A i, j \in 1..Len(q) : q[i] = q[j] => i = j

LEMMA Remainder ==
  ASSUME NEW S, NEW q \in Seq(S), NEW n \in 1..Len(q)
  PROVE  /\ SubSeq(q, n + 1, Len(q)) \in Seq(S)
         /\ Len(SubSeq(q, n + 1, Len(q))) = Len(q) - n
         /\ \A i \in 1..(Len(q) - n) : SubSeq(q, n + 1, Len(q))[i] = q[n + i]
  <1>1. Len(q) \in Nat /\ \A i \in 1..Len(q) : q[i] \in S
    BY LenProperties, ElementOfSeq
  <1>2. /\ SubSeq(q, n + 1, Len(q)) \in Seq(S)
        /\ \A i \in 1..(Len(q) - (n + 1) + 1) :
             SubSeq(q, n + 1, Len(q))[i] = q[(n + 1) + i - 1]
    BY <1>1, SubSeqProperties
  <1>3. Len(SubSeq(q, n + 1, Len(q)))
          = IF n + 1 <= Len(q) THEN Len(q) - (n + 1) + 1 ELSE 0
    BY <1>1, SubSeqProperties
  <1>4. Len(SubSeq(q, n + 1, Len(q))) = Len(q) - n
    BY <1>1, <1>3
  <1>5. ASSUME NEW i \in 1..(Len(q) - n)
        PROVE  SubSeq(q, n + 1, Len(q))[i] = q[n + i]
    <2>1. i \in 1..(Len(q) - (n + 1) + 1) /\ (n + 1) + i - 1 = n + i
      BY <1>1
    <2> QED
      BY <1>2, <2>1
  <1> QED
    BY <1>2, <1>4, <1>5

LEMMA RemoveSet ==
  ASSUME NEW S, NEW q \in Seq(S), Distinct(q), NEW n \in 1..Len(q)
  PROVE  /\ RemoveAt(q, n) \in Seq(S) /\ Distinct(RemoveAt(q, n))
         /\ ToSet(RemoveAt(q, n)) = ToSet(q) \ {q[n]}
  <1> DEFINE a == SubSeq(q, 1, n - 1)
             b == SubSeq(q, n + 1, Len(q))
             r == RemoveAt(q, n)
  <1>1. Len(q) \in Nat /\ DOMAIN q = 1..Len(q) /\ \A i \in 1..Len(q) : q[i] \in S
    BY LenProperties, ElementOfSeq
  <1>2. a \in Seq(S) /\ Len(a) = n - 1 /\ \A i \in 1..(n - 1) : a[i] = q[i]
    <2>1. n - 1 \in 0..Len(q)
      BY <1>1, SMTT(30)
    <2> QED
      BY <2>1, Beginning
  <1>3. /\ b \in Seq(S) /\ Len(b) = Len(q) - n
        /\ \A i \in 1..(Len(q) - n) : b[i] = q[n + i]
    BY <1>1, Remainder
  <1>4. r = a \o b
    BY Zenon DEF RemoveAt
  <1> HIDE DEF a, b, r
  <1>5. r \in Seq(S) /\ Len(r) = Len(q) - 1
    <2>1. a \o b \in Seq(S) /\ Len(a \o b) = Len(a) + Len(b)
      BY <1>2, <1>3, ConcatProperties
    <2> QED
      BY <1>1, <1>2, <1>3, <1>4, <2>1
  <1>6. \A i \in 1..(Len(q) - 1) : r[i] = IF i < n THEN q[i] ELSE q[i + 1]
    <2> TAKE i \in 1..(Len(q) - 1)
    <2>1. r[i] = IF i <= Len(a) THEN a[i] ELSE b[i - Len(a)]
      BY <1>1, <1>2, <1>3, <1>4, ConcatProperties
    <2>2. CASE i < n
      BY <1>1, <1>2, <2>1, <2>2
    <2>3. CASE i >= n
      <3>1. i - (n - 1) \in 1..(Len(q) - n) /\ n + (i - (n - 1)) = i + 1
        BY <1>1, <2>3
      <3> QED
        BY <1>1, <1>2, <1>3, <2>1, <2>3, <3>1
    <2> QED
      BY <1>1, <2>2, <2>3
  <1>7. Distinct(r)
    BY <1>1, <1>5, <1>6 DEF Distinct
  <1>8. DOMAIN r = 1..(Len(q) - 1)
    BY <1>5, LenProperties
  <1>9. ToSet(r) = ToSet(q) \ {q[n]}
    <2>1. ASSUME NEW x \in ToSet(r) PROVE x \in ToSet(q) \ {q[n]}
      BY <1>1, <1>6, <1>8, SMTT(30) DEF ToSet, Distinct
    <2>2. ASSUME NEW x \in ToSet(q) \ {q[n]} PROVE x \in ToSet(r)
      <3>1. PICK i \in 1..Len(q) : x = q[i] /\ i # n
        BY <1>1 DEF ToSet
      <3>2. CASE i < n
        BY <1>1, <1>6, <1>8, <3>1, <3>2 DEF ToSet
      <3>3. CASE i > n
        <4>1. i - 1 \in 1..(Len(q) - 1) /\ ~(i - 1 < n) /\ (i - 1) + 1 = i
          BY <1>1, <3>1, <3>3
        <4>2. r[i - 1] = x
          BY <1>6, <3>1, <4>1
        <4> QED
          BY <1>8, <4>1, <4>2 DEF ToSet
      <3> QED
        BY <1>1, <3>1, <3>2, <3>3
    <2> QED
      BY <2>1, <2>2
  <1> QED
    BY <1>5, <1>7, <1>9 DEF r

----------------------------------------------------------------------------
(* The inductive invariant.                                                *)

Typed ==
  /\ state \in [Task -> States]
  /\ kids \in [Task -> Seq(Task)]
  /\ root \in [Task -> Task]
  /\ queue \in Seq(Task) /\ gone \subseteq Task
  /\ index \in Nat \ {0} /\ stack \in Seq(Frames)
  /\ pc = "idle" => stack = <<>>

(* The tasks form trees: a subtask has one parent and one place there, is  *)
(* in its parent's tree, and is the top of none.                           *)
Forest ==
  /\ \A t \in Task : root[root[t]] = root[t]
  /\ \A p \in Task : \A i \in 1..Len(kids[p]) :
       root[kids[p][i]] = root[p] /\ root[kids[p][i]] # kids[p][i]
  /\ \A p, q \in Task : \A i \in 1..Len(kids[p]) : \A j \in 1..Len(kids[q]) :
       kids[p][i] = kids[q][j] => p = q /\ i = j

(* s_tasks holds each tree once, at its top; a tree is reset as a whole.   *)
QueueOfTrees ==
  /\ Distinct(queue)
  /\ \A t \in ToSet(queue) : root[t] = t /\ t \notin gone
  /\ \A t \in Task : t \in gone <=> root[t] \in gone

(* Only what is queued has been started, unless it was reset since.        *)
StartedInQueue ==
  \A t \in Task : state[t] # "Pending" /\ t \notin gone => root[t] \in ToSet(queue)

(* A running call of task_tick_subtasks is for a started task in a queued  *)
(* tree; and in a sequential task, it has gone past no subtask that is not *)
(* done, unless it has counted one that is running.                        *)
FrameOK(f) ==
  /\ state[f.task] # "Pending" /\ root[f.task] \in ToSet(queue)
  /\ f.task \notin Parallel /\ "Running" \notin f.seen =>
       \A k \in 1..Len(kids[f.task]) : k < f.i => Done(kids[f.task][k])

FramesOK == \A f \in ToSet(stack) : FrameOK(f)

Elders ==
  \A p \in Task \ Parallel : \A j \in 1..Len(kids[p]) : \A i \in 1..(j - 1) :
    state[kids[p][j]] # "Pending" => Done(kids[p][i])

IInv == Typed /\ Forest /\ QueueOfTrees /\ StartedInQueue /\ FramesOK /\ Elders

(* What every step of tasks_tick keeps: the trees, the order of the states. *)
TreesAlone == UNCHANGED <<kids, root>>
Forward ==
  /\ state' \in [Task -> States]
  /\ \A t \in Task : /\ state[t] # "Pending" => state'[t] # "Pending"
                     /\ Done(t) => Done(t)'

LEMMA SequencesOfTasks ==
  ASSUME IInv
  PROVE  /\ \A p \in Task : Len(kids[p]) \in Nat /\ DOMAIN kids[p] = 1..Len(kids[p])
         /\ \A p \in Task : \A i \in 1..Len(kids[p]) : kids[p][i] \in Task
         /\ Len(queue) \in Nat /\ ToSet(queue) \subseteq Task
         /\ ToSet(stack) \subseteq Frames
         /\ \A n \in 1..Len(queue) : queue[n] \in ToSet(queue)
  <1>1. /\ \A p \in Task : kids[p] \in Seq(Task)
        /\ queue \in Seq(Task) /\ stack \in Seq(Frames)
    BY DEF IInv, Typed
  <1>2. ASSUME NEW S, NEW q \in Seq(S)
        PROVE  /\ Len(q) \in Nat /\ DOMAIN q = 1..Len(q)
               /\ \A i \in 1..Len(q) : q[i] \in S
    BY LenProperties, ElementOfSeq
  <1>3. ASSUME NEW S, NEW q \in Seq(S)
        PROVE  ToSet(q) \subseteq S /\ \A n \in 1..Len(q) : q[n] \in ToSet(q)
    BY <1>2 DEF ToSet
  <1> QED
    BY <1>1, <1>2, <1>3

LEMMA SetStateForward ==
  ASSUME IInv, NEW t \in Task, NEW s \in States \ {"Pending"},
         Done(t) => s \in DoneStates, SetState(t, s)
  PROVE  /\ Forward /\ state'[t] = s
         /\ \A x \in Task \ {t} : state'[x] = state[x]
  BY DEF IInv, Typed, SetState, Forward, Done, States, DoneStates

LEMMA OneAtATimeIsElders == IInv => OneAtATime
  <1> SUFFICES ASSUME IInv PROVE OneAtATime
    OBVIOUS
  <1>1. \A p \in Task : DOMAIN kids[p] = 1..Len(kids[p])
    BY SequencesOfTasks
  <1> QED
    BY <1>1 DEF IInv, Elders, OneAtATime

LEMMA InitIInv == Init => IInv
  <1> SUFFICES ASSUME Init PROVE IInv
    OBVIOUS
  <1>1. /\ \A S : <<>> \in Seq(S)
        /\ Len(<<>>) = 0 /\ ToSet(<<>>) = {}
    BY EmptySeq DEF ToSet
  <1>2. \A p \in Task : kids[p] = <<>> /\ Len(kids[p]) = 0 /\ root[p] = p
    BY <1>1 DEF Init
  <1>3. Typed
    BY <1>1 DEF Init, Typed, States
  <1>4. Forest /\ Elders
    BY <1>2 DEF Forest, Elders
  <1>5. QueueOfTrees
    BY <1>1, <1>2 DEF Init, QueueOfTrees, Distinct
  <1>6. StartedInQueue /\ FramesOK
    BY <1>1 DEF Init, StartedInQueue, FramesOK
  <1> QED
    BY <1>3, <1>4, <1>5, <1>6 DEF IInv

----------------------------------------------------------------------------
(* The steps of tasks_tick. *)

(* A frame that is right stays right while states only go forward and the  *)
(* trees are left alone.                                                   *)
LEMMA FrameStays ==
  ASSUME IInv, Forward, TreesAlone, NEW f \in Frames, FrameOK(f),
         ToSet(queue) \subseteq ToSet(queue')
  PROVE  FrameOK(f)'
  <1>1. f.task \in Task /\ \A k \in 1..Len(kids[f.task]) : kids[f.task][k] \in Task
    BY SequencesOfTasks DEF Frames
  <1> QED
    BY <1>1 DEF FrameOK, Forward, TreesAlone, Done

(* A step that leaves the trees and the queue alone, starts nothing whose  *)
(* elders are not done, and pushes no wrong frame.                         *)
MayHaveStarted(t) ==
  /\ root[t] \in ToSet(queue)
  /\ \A p \in Task \ Parallel : \A j \in 1..Len(kids[p]) :
       kids[p][j] = t => \A i \in 1..(j - 1) : Done(kids[p][i])

LEMMA TickingKeeps ==
  ASSUME IInv, Typed', TreesAlone, UNCHANGED <<queue, gone>>, Forward,
         \A t \in Task : state[t] = "Pending" /\ state'[t] # "Pending" => MayHaveStarted(t),
         \A f \in ToSet(stack') : f \in ToSet(stack) \/ (f \in Frames /\ FrameOK(f)')
  PROVE  IInv'
  <1>1. Forest' /\ QueueOfTrees'
    BY DEF IInv, Forest, QueueOfTrees, TreesAlone
  <1>2. StartedInQueue'
    BY DEF IInv, StartedInQueue, TreesAlone, MayHaveStarted
  <1>3. FramesOK'
    <2>1. ASSUME NEW f \in ToSet(stack) PROVE FrameOK(f)'
      BY FrameStays, SequencesOfTasks DEF IInv, FramesOK
    <2> QED
      BY <2>1 DEF FramesOK
  <1>4. Elders'
    <2> SUFFICES ASSUME NEW p \in Task \ Parallel, NEW j \in 1..Len(kids[p]),
                        NEW i \in 1..(j - 1), state'[kids[p][j]] # "Pending"
                 PROVE  Done(kids[p][i])'
      BY DEF Elders, TreesAlone, Done
    <2>1. i \in 1..Len(kids[p]) /\ kids[p][i] \in Task /\ kids[p][j] \in Task
      BY SequencesOfTasks
    <2>2. Done(kids[p][i])
      <3>1. CASE state[kids[p][j]] # "Pending"
        BY <3>1 DEF IInv, Elders
      <3>2. CASE state[kids[p][j]] = "Pending"
        <4>1. MayHaveStarted(kids[p][j])
          BY <2>1, <3>2
        <4> QED
          BY <4>1 DEF MayHaveStarted
      <3> QED
        BY <3>1, <3>2
    <2> QED
      BY <2>1, <2>2 DEF Forward, TreesAlone, Done
  <1> QED
    BY <1>1, <1>2, <1>3, <1>4 DEF IInv

(* Where the loops of tasks_tick are, s_tasks holds the current task. *)
LEMMA CurrentIsQueued ==
  ASSUME IInv, NEW loop, At(loop)
  PROVE  /\ Current \in Task /\ Current \in ToSet(queue) /\ index \in 1..Len(queue)
         /\ root[Current] = Current /\ Current \notin gone
         /\ \A p \in Task : \A j \in 1..Len(kids[p]) : kids[p][j] # Current
  <1>1. index \in 1..Len(queue)
    BY SequencesOfTasks DEF IInv, Typed, At
  <1> QED
    BY <1>1, SequencesOfTasks DEF IInv, QueueOfTrees, Forest, Current

(* The innermost call of task_tick_subtasks, and the subtask it looks at.  *)
LEMMA TopIsRight ==
  ASSUME IInv, stack # <<>>
  PROVE  /\ Top \in Frames /\ Top \in ToSet(stack) /\ FrameOK(Top)
         /\ Top.task \in Task /\ Top.i \in Nat \ {0} /\ Top.task \notin gone
         /\ Below \in Seq(Frames) /\ ToSet(Below) \subseteq ToSet(stack)
  <1>1. /\ Front(stack) \in Seq(Frames) /\ ToSet(Front(stack)) \subseteq ToSet(stack)
        /\ Last(stack) \in Frames /\ Last(stack) \in ToSet(stack)
    BY FrontAndLast DEF IInv, Typed
  <1>2. FrameOK(Top) /\ Top.task \in Task /\ Top.i \in Nat \ {0}
    BY <1>1 DEF Top, IInv, FramesOK, Frames
  <1>3. Top.task \notin gone
    BY <1>2 DEF FrameOK, IInv, QueueOfTrees
  <1> QED
    BY <1>1, <1>2, <1>3 DEF Top, Below

LEMMA KidIsRight ==
  ASSUME IInv, InLoop
  PROVE  /\ Kid \in Task /\ Top.i \in 1..Len(kids[Top.task])
         /\ root[Kid] \in ToSet(queue) /\ Kid \notin gone
         /\ \A p \in Task : \A j \in 1..Len(kids[p]) :
              kids[p][j] = Kid => p = Top.task /\ j = Top.i
  <1>1. stack # <<>> /\ Top.i \in 1..Len(kids[Top.task]) /\ Top.task \in Task
    BY TopIsRight, SequencesOfTasks DEF InLoop
  <1>2. Kid \in Task /\ root[Kid] = root[Top.task]
    BY <1>1, SequencesOfTasks DEF Kid, IInv, Forest
  <1>3. root[Kid] \in ToSet(queue)
    BY <1>1, <1>2, TopIsRight DEF FrameOK
  <1>4. Kid \notin gone
    BY <1>2, <1>3 DEF IInv, QueueOfTrees
  <1>5. \A p \in Task : \A j \in 1..Len(kids[p]) :
          kids[p][j] = Kid => p = Top.task /\ j = Top.i
    BY <1>1 DEF Kid, IInv, Forest
  <1> QED
    BY <1>1, <1>2, <1>3, <1>4, <1>5

(* One lemma for every step of tasks_tick. *)

LEMMA StandStill ==
  ASSUME IInv, UNCHANGED <<state, treeVars, queue, gone, stack>>,
         index' \in Nat \ {0}, pc' = "idle" => stack = <<>>
  PROVE  IInv'
  <1>1. Typed' /\ Forward
    BY DEF IInv, Typed, Forward, Done, treeVars
  <1>2. TreesAlone
    BY DEF TreesAlone, treeVars
  <1> QED
    BY <1>1, <1>2, TickingKeeps

LEMMA EraseDoneKeeps ==
  ASSUME IInv, EraseDone
  PROVE  IInv'
  <1> DEFINE c == Current
  <1>1. /\ c \in Task /\ c \in ToSet(queue) /\ index \in 1..Len(queue)
        /\ root[c] = c /\ c = queue[index]
    BY CurrentIsQueued DEF EraseDone, Current
  <1> HIDE DEF c
  <1>2. /\ gone' = gone \cup {t \in Task : root[t] = c}
        /\ queue' = RemoveAt(queue, index) /\ stack = <<>>
        /\ UNCHANGED <<state, kids, root, pc, index, stack>>
    BY <1>1 DEF EraseDone, Tree, treeVars, At, c
  <1>3. /\ queue' \in Seq(Task) /\ Distinct(queue')
        /\ ToSet(queue') = ToSet(queue) \ {c}
    BY <1>1, <1>2, RemoveSet DEF IInv, Typed, QueueOfTrees
  <1>4. Typed'
    BY <1>2, <1>3 DEF IInv, Typed
  <1>5. Forest' /\ Elders'
    BY <1>2 DEF IInv, Forest, Elders, Done
  <1>6. QueueOfTrees'
    <2>1. \A t \in ToSet(queue') : root[t] = t /\ t \notin gone /\ t # c
      BY <1>3 DEF IInv, QueueOfTrees
    <2>2. \A t \in Task : root[t] \in Task /\ root[root[t]] = root[t]
      BY DEF IInv, Typed, Forest
    <2>3. \A t \in Task : t \in gone <=> root[t] \in gone
      BY DEF IInv, QueueOfTrees
    <2>4. \A t \in Task : t \in gone' <=> root[t] \in gone'
      BY <1>2, <2>2, <2>3
    <2> QED
      BY <1>2, <1>3, <2>1, <2>4 DEF QueueOfTrees
  <1>7. StartedInQueue'
    BY <1>2, <1>3 DEF IInv, StartedInQueue
  <1>8. FramesOK'
    BY <1>2 DEF FramesOK, ToSet
  <1> QED
    BY <1>4, <1>5, <1>6, <1>7, <1>8 DEF IInv

(* A call of task_tick_subtasks that has just been entered is right. *)
LEMMA NewFrame ==
  ASSUME IInv, NEW t \in Task, root[t] \in ToSet(queue), Forward, TreesAlone,
         queue' = queue, state[t] # "Pending"
  PROVE  Frame(t) \in Frames /\ FrameOK(Frame(t))'
  BY SequencesOfTasks DEF Frame, Frames, FrameOK, Forward, TreesAlone, States

LEMMA TickOfKeeps ==
  ASSUME IInv, NEW t \in Task, root[t] \in ToSet(queue), state[t] = "Running",
         NEW below \in Seq(Frames), UNCHANGED <<kids, root, queue, gone, pc>>,
         pc # "idle", index' \in Nat \ {0}, TickOf(t, below),
         \A f \in ToSet(below) : f \in ToSet(stack) \/ (Forward => FrameOK(f)')
  PROVE  IInv'
  <1>1. Forward /\ \A x \in Task \ {t} : state'[x] = state[x]
    <2>1. CASE Kind[t] = "group"
      BY <2>1 DEF TickOf, IInv, Typed, Forward, Done
    <2>2. CASE Kind[t] # "group"
      <3>1. PICK s \in States \ {"Pending"} : SetState(t, s)
        BY <2>2 DEF TickOf
      <3>2. ~Done(t)
        BY DEF Done, DoneStates
      <3> QED
        BY <3>1, <3>2, SetStateForward
    <2> QED
      BY <2>1, <2>2
  <1>2. TreesAlone
    BY DEF TreesAlone
  <1>3. Frame(t) \in Frames /\ FrameOK(Frame(t))'
    BY <1>1, <1>2, NewFrame
  <1>4. /\ stack' \in Seq(Frames)
        /\ \A f \in ToSet(stack') : f \in ToSet(below) \/ f = Frame(t)
    BY <1>3, AppendSet DEF TickOf
  <1>5. Typed'
    BY <1>1, <1>4 DEF IInv, Typed, Forward
  <1>6. \A f \in ToSet(below) : f \in Frames
    BY LenProperties, ElementOfSeq DEF ToSet
  <1> QED
    BY <1>1, <1>2, <1>3, <1>4, <1>5, <1>6, TickingKeeps

LEMMA TickTopKeeps ==
  ASSUME IInv, TickTop
  PROVE  IInv'
  <1>1. /\ Current \in Task /\ root[Current] \in ToSet(queue)
        /\ state[Current] = "Running" /\ TickOf(Current, <<>>)
        /\ UNCHANGED <<kids, root, queue, gone, pc>> /\ pc # "idle"
        /\ index' \in Nat \ {0}
    BY CurrentIsQueued DEF TickTop, At, treeVars, IInv, Typed
  <1>2. <<>> \in Seq(Frames) /\ ToSet(<<>>) = {}
    BY EmptySeq DEF ToSet
  <1> HIDE DEF Current
  <1> QED
    BY <1>1, <1>2, TickOfKeeps

LEMMA StartTopKeeps ==
  ASSUME IInv, StartTop
  PROVE  IInv'
  <1>1. /\ Current \in Task /\ root[Current] \in ToSet(queue)
        /\ state[Current] = "Pending" /\ SetRunning(Current)
        /\ \A p \in Task : \A j \in 1..Len(kids[p]) : kids[p][j] # Current
        /\ UNCHANGED <<kids, root, queue, gone, pc, stack>>
        /\ index' \in Nat \ {0}
    BY CurrentIsQueued DEF StartTop, treeVars, IInv, Typed
  <1>2. Forward /\ \A x \in Task \ {Current} : state'[x] = state[x]
    BY <1>1, SetStateForward DEF SetRunning, States, DoneStates, Done
  <1>3. MayHaveStarted(Current)
    BY <1>1 DEF MayHaveStarted
  <1>4. TreesAlone /\ Typed'
    BY <1>1, <1>2 DEF TreesAlone, IInv, Typed, Forward
  <1> QED
    BY <1>1, <1>2, <1>3, <1>4, TickingKeeps

LEMMA StartKidKeeps ==
  ASSUME IInv, StartKid
  PROVE  IInv'
  <1>1. /\ stack # <<>> /\ Kid \in Task /\ root[Kid] \in ToSet(queue)
        /\ state[Kid] = "Pending" /\ SetRunning(Kid)
        /\ UNCHANGED <<kids, root, queue, gone, pc, index, stack>>
    BY KidIsRight DEF StartKid, InLoop, MayStart, treeVars
  <1>2. Forward /\ \A x \in Task \ {Kid} : state'[x] = state[x]
    BY <1>1, SetStateForward DEF SetRunning, States, DoneStates, Done
  <1>3. MayHaveStarted(Kid)
    <2> SUFFICES ASSUME NEW p \in Task \ Parallel, NEW j \in 1..Len(kids[p]),
                        kids[p][j] = Kid, NEW i \in 1..(j - 1)
                 PROVE  Done(kids[p][i])
      BY <1>1 DEF MayHaveStarted
    <2>1. p = Top.task /\ j = Top.i
      BY KidIsRight DEF StartKid
    <2>2. "Running" \notin Top.seen
      BY <2>1 DEF StartKid, MayStart
    <2>3. i \in 1..Len(kids[p]) /\ i < j
      BY SequencesOfTasks
    <2> QED
      BY <1>1, <2>1, <2>2, <2>3, TopIsRight DEF FrameOK
  <1>4. TreesAlone /\ Typed'
    BY <1>1, <1>2 DEF TreesAlone, IInv, Typed, Forward
  <1> QED
    BY <1>1, <1>2, <1>3, <1>4, TickingKeeps

(* What TickKid and CountKid make of the frame of the innermost call. *)
LEMMA ChangedFrames ==
  ASSUME NEW f \in Frames, NEW s \in States
  PROVE  /\ [f EXCEPT !.ticked = TRUE] \in Frames
         /\ [f EXCEPT !.ticked = TRUE].task = f.task
         /\ [f EXCEPT !.ticked = TRUE].i = f.i
         /\ [f EXCEPT !.ticked = TRUE].seen = f.seen
         /\ [f EXCEPT !.seen = @ \cup {s}, !.i = @ + 1, !.ticked = FALSE] \in Frames
         /\ [f EXCEPT !.seen = @ \cup {s}, !.i = @ + 1, !.ticked = FALSE].task = f.task
         /\ [f EXCEPT !.seen = @ \cup {s}, !.i = @ + 1, !.ticked = FALSE].i = f.i + 1
         /\ [f EXCEPT !.seen = @ \cup {s}, !.i = @ + 1, !.ticked = FALSE].seen
              = f.seen \cup {s}
  <1>1. /\ f.task \in Task /\ f.i \in Nat \ {0} /\ f.ticked \in BOOLEAN
        /\ f.seen \in SUBSET States
    BY DEF Frames
  <1>2. f.i + 1 \in Nat \ {0} /\ f.seen \cup {s} \in SUBSET States
    BY <1>1
  <1>3. /\ [f EXCEPT !.ticked = TRUE] \in Frames
        /\ [f EXCEPT !.ticked = TRUE].task = f.task
        /\ [f EXCEPT !.ticked = TRUE].i = f.i
        /\ [f EXCEPT !.ticked = TRUE].seen = f.seen
    BY DEF Frames
  <1> DEFINE g == [f EXCEPT !.seen = @ \cup {s}, !.i = @ + 1, !.ticked = FALSE]
  <1>4. g.task = f.task
    BY DEF Frames
  <1>5. g.i = f.i + 1
    BY DEF Frames
  <1>6. g.seen = f.seen \cup {s}
    BY DEF Frames
  <1>7. g \in Frames
    BY <1>2 DEF Frames
  <1> QED
    BY <1>3, <1>4, <1>5, <1>6, <1>7

LEMMA TickKidKeeps ==
  ASSUME IInv, TickKid
  PROVE  IInv'
  <1>1. /\ stack # <<>> /\ Kid \in Task /\ root[Kid] \in ToSet(queue)
        /\ state[Kid] = "Running" /\ Top \in Frames /\ FrameOK(Top)
        /\ Below \in Seq(Frames) /\ ToSet(Below) \subseteq ToSet(stack)
        /\ TickOf(Kid, Append(Below, [Top EXCEPT !.ticked = TRUE]))
        /\ UNCHANGED <<kids, root, queue, gone, pc, index>>
    BY KidIsRight, TopIsRight DEF TickKid, InLoop, MayTick, treeVars
  <1>2. pc # "idle" /\ index' \in Nat \ {0}
    BY <1>1 DEF IInv, Typed
  <1>3. PICK top \in Frames : top = Top
    BY <1>1
  <1>4. PICK marked \in Frames : marked = [top EXCEPT !.ticked = TRUE]
    BY ChangedFrames DEF States
  <1>5. marked.task = top.task /\ marked.i = top.i /\ marked.seen = top.seen
    BY <1>4, ChangedFrames DEF States
  <1>6. FrameOK(marked)
    BY <1>1, <1>3, <1>5 DEF FrameOK
  <1>7. ASSUME Forward PROVE FrameOK(marked)'
    BY <1>1, <1>6, <1>7, FrameStays DEF TreesAlone
  <1>8. PICK below \in Seq(Frames) : below = Append(Below, marked)
    BY <1>1, AppendSet
  <1>9. ToSet(below) = ToSet(Below) \cup {marked}
    BY <1>1, <1>8, AppendSet
  <1>10. TickOf(Kid, below)
    BY <1>1, <1>3, <1>4, <1>8, Zenon
  <1>11. \A f \in ToSet(below) : f \in ToSet(stack) \/ (Forward => FrameOK(f)')
    BY <1>1, <1>7, <1>9
  <1>12. PICK kid \in Task : kid = Kid
    BY <1>1
  <1>13. /\ root[kid] \in ToSet(queue) /\ state[kid] = "Running" /\ TickOf(kid, below)
    BY <1>1, <1>10, <1>12, Zenon
  <1> QED
    BY <1>1, <1>2, <1>11, <1>13, TickOfKeeps

LEMMA CountKidKeeps ==
  ASSUME IInv, CountKid
  PROVE  IInv'
  <1>1. /\ stack # <<>> /\ Kid \in Task /\ Kid = kids[Top.task][Top.i]
        /\ ~MayStart /\ ~MayTick /\ Top \in Frames /\ FrameOK(Top)
        /\ Below \in Seq(Frames) /\ ToSet(Below) \subseteq ToSet(stack)
        /\ stack' = Append(Below, [Top EXCEPT !.seen = @ \cup {state[Kid]},
                                              !.i = @ + 1, !.ticked = FALSE])
        /\ UNCHANGED <<state, kids, root, queue, gone, pc, index>>
    BY KidIsRight, TopIsRight DEF CountKid, InLoop, treeVars, Kid
  <1>2. state[Kid] \in States
    BY <1>1 DEF IInv, Typed
  <1>3. PICK top \in Frames : top = Top
    BY <1>1
  <1>4. PICK counted \in Frames :
          counted = [top EXCEPT !.seen = @ \cup {state[Kid]}, !.i = @ + 1, !.ticked = FALSE]
    BY <1>2, ChangedFrames
  <1>5. /\ counted.task = top.task /\ counted.i = top.i + 1
        /\ counted.seen = top.seen \cup {state[Kid]}
        /\ top.i \in Nat \ {0} /\ top.task \in Task
    BY <1>2, <1>4, ChangedFrames DEF Frames
  <1>6. FrameOK(counted)
    <2> SUFFICES ASSUME top.task \notin Parallel, "Running" \notin counted.seen,
                        NEW k \in 1..Len(kids[top.task]), k < top.i + 1
                 PROVE  Done(kids[top.task][k])
      BY <1>1, <1>3, <1>5 DEF FrameOK
    <2>1. "Running" \notin top.seen /\ state[Kid] # "Running"
      BY <1>5
    <2>2. CASE k < top.i
      BY <1>1, <1>3, <2>1, <2>2 DEF FrameOK
    <2>3. CASE k = top.i
      <3>1. state[Kid] # "Pending"
        BY <1>1, <1>3, <2>1 DEF MayStart
      <3>2. Done(Kid)
        BY <1>2, <2>1, <3>1 DEF Done, States, DoneStates
      <3> QED
        BY <1>1, <1>3, <2>3, <3>2
    <2>4. k < top.i \/ k = top.i
      BY <1>5, SequencesOfTasks
    <2> QED
      BY <2>2, <2>3, <2>4
  <1>7. Forward /\ TreesAlone
    BY <1>1 DEF IInv, Typed, Forward, TreesAlone, Done
  <1>8. FrameOK(counted)'
    BY <1>1, <1>6, <1>7, FrameStays
  <1>9. stack' = Append(Below, counted)
    BY <1>1, <1>3, <1>4, Zenon
  <1>10. stack' \in Seq(Frames) /\ ToSet(stack') = ToSet(Below) \cup {counted}
    BY <1>1, <1>9, AppendSet
  <1>11. Typed'
    BY <1>1, <1>10 DEF IInv, Typed
  <1> QED
    BY <1>1, <1>7, <1>8, <1>10, <1>11, TickingKeeps

LEMMA EndSubtasksKeeps ==
  ASSUME IInv, EndSubtasks
  PROVE  IInv'
  <1>1. /\ stack # <<>> /\ stack' = Below
        /\ UNCHANGED <<kids, root, queue, gone, pc, index>>
        /\ \/ SetState(Top.task, Outcome(Top.seen))
           \/ UNCHANGED state
    BY DEF EndSubtasks, treeVars
  <1>2. /\ Top.task \in Task /\ state[Top.task] # "Pending"
        /\ Below \in Seq(Frames) /\ ToSet(Below) \subseteq ToSet(stack)
    BY <1>1, TopIsRight DEF FrameOK
  <1>3. Outcome(Top.seen) \in DoneStates
    BY DEF Outcome, DoneStates
  <1>4. Forward /\ \A x \in Task \ {Top.task} : state'[x] = state[x]
    <2>1. CASE SetState(Top.task, Outcome(Top.seen))
      BY <1>2, <1>3, <2>1, SetStateForward DEF States, DoneStates
    <2>2. CASE UNCHANGED state
      BY <2>2 DEF IInv, Typed, Forward, Done
    <2> QED
      BY <1>1, <2>1, <2>2
  <1>5. Typed' /\ TreesAlone
    BY <1>1, <1>2, <1>4 DEF IInv, Typed, Forward, TreesAlone
  <1> QED
    BY <1>1, <1>2, <1>4, <1>5, TickingKeeps

----------------------------------------------------------------------------
(* What the program does between two calls of tasks_tick.                  *)

LEMMA NoFrames ==
  ASSUME IInv, pc = "idle", UNCHANGED <<pc, stack>>
  PROVE  stack = <<>> /\ FramesOK' /\ stack' \in Seq(Frames)
  BY DEF IInv, Typed, FramesOK, ToSet

LEMMA EnqueueKeeps ==
  ASSUME IInv, NEW t \in Task, Enqueue(t)
  PROVE  IInv'
  <1>1. /\ pc = "idle" /\ root[t] = t /\ t \notin ToSet(queue) /\ t \notin gone
        /\ queue' = Append(queue, t)
        /\ UNCHANGED <<state, kids, root, gone, pc, index, stack>>
    BY DEF Enqueue, Loose, Queued, treeVars
  <1>2. queue \in Seq(Task) /\ Len(queue) \in Nat
    BY SequencesOfTasks DEF IInv, Typed
  <1>3. queue' \in Seq(Task) /\ ToSet(queue') = ToSet(queue) \cup {t}
    BY <1>1, <1>2, AppendSet
  <1>4. Distinct(queue')
    <2>1. /\ Len(queue') = Len(queue) + 1 /\ queue'[Len(queue) + 1] = t
          /\ \A i \in 1..Len(queue) : queue'[i] = queue[i] /\ queue[i] # t
      BY <1>1, <1>2, AppendProperties, SequencesOfTasks
    <2>2. Distinct(queue)
      BY DEF IInv, QueueOfTrees
    <2>3. \A i \in 1..(Len(queue) + 1) : i \in 1..Len(queue) \/ i = Len(queue) + 1
      BY <1>2
    <2> QED
      BY <2>1, <2>2, <2>3 DEF Distinct
  <1>5. Typed' /\ FramesOK'
    BY <1>1, <1>3, NoFrames DEF IInv, Typed
  <1>6. Forest' /\ Elders'
    BY <1>1, SMTT(30) DEF IInv, Forest, Elders, Done
  <1>7. QueueOfTrees' /\ StartedInQueue'
    BY <1>1, <1>3, <1>4 DEF IInv, QueueOfTrees, StartedInQueue
  <1> QED
    BY <1>5, <1>6, <1>7 DEF IInv

(* A set of whole trees that are in no queue any more is reset. *)
LEMMA ResetKeeps ==
  ASSUME IInv, pc = "idle", NEW R \in SUBSET Task,
         \A t \in Task : t \in R <=> root[t] \in R,
         queue' \in {queue, <<>>},
         \A t \in ToSet(queue') : t \notin R,
         \A t \in Task : root[t] \in ToSet(queue) => t \in R \/ root[t] \in ToSet(queue'),
         gone' = gone \cup R,
         UNCHANGED <<state, kids, root, pc, index, stack>>
  PROVE  IInv'
  <1>1. /\ <<>> \in Seq(Task) /\ Len(<<>>) = 0 /\ ToSet(<<>>) = {}
    BY EmptySeq DEF ToSet
  <1>2. Typed' /\ FramesOK'
    BY <1>1, NoFrames, ZenonT(60) DEF IInv, Typed
  <1>3. Forest' /\ Elders'
    BY DEF IInv, Forest, Elders, Done
  <1>4. QueueOfTrees'
    <2>1. \A t \in Task : root[t] \in Task
      BY DEF IInv, Typed
    <2>2. \A t \in Task : t \in gone' <=> root[t] \in gone'
      BY <2>1 DEF IInv, QueueOfTrees
    <2>3. Distinct(queue')
      BY <1>1 DEF IInv, QueueOfTrees, Distinct
    <2>4. \A t \in ToSet(queue') : root[t] = t /\ t \notin gone'
      BY <1>1 DEF IInv, QueueOfTrees
    <2> QED
      BY <2>2, <2>3, <2>4 DEF QueueOfTrees
  <1>5. StartedInQueue'
    BY DEF IInv, StartedInQueue
  <1> QED
    BY <1>2, <1>3, <1>4, <1>5 DEF IInv

LEMMA EnqueueFailsKeeps ==
  ASSUME IInv, NEW t \in Task, EnqueueFails(t)
  PROVE  IInv'
  <1>1. /\ pc = "idle" /\ root[t] = t /\ t \notin ToSet(queue)
        /\ gone' = gone \cup Tree(t)
        /\ UNCHANGED <<state, kids, root, queue, pc, index, stack>>
    BY DEF EnqueueFails, Loose, Queued, treeVars
  <1>2. /\ Tree(t) \in SUBSET Task
        /\ \A x \in Task : x \in Tree(t) <=> root[x] \in Tree(t)
        /\ \A x \in ToSet(queue) : x \notin Tree(t)
    BY <1>1 DEF Tree, IInv, Typed, Forest, QueueOfTrees
  <1>3. PICK R \in SUBSET Task : R = Tree(t)
    BY <1>2
  <1>4. /\ gone' = gone \cup R
        /\ \A x \in Task : x \in R <=> root[x] \in R
        /\ queue' \in {queue, <<>>} /\ \A x \in ToSet(queue') : x \notin R
        /\ \A x \in Task : root[x] \in ToSet(queue) => x \in R \/ root[x] \in ToSet(queue')
    BY <1>1, <1>2, <1>3
  <1> QED
    BY <1>1, <1>4, ResetKeeps

LEMMA ShutdownKeeps ==
  ASSUME IInv, Shutdown
  PROVE  IInv'
  <1> DEFINE R == {t \in Task : Queued(t)}
  <1>1. /\ pc = "idle" /\ gone' = gone \cup R /\ queue' = <<>>
        /\ UNCHANGED <<state, kids, root, pc, index, stack>>
    BY DEF Shutdown, treeVars
  <1>2. /\ R \in SUBSET Task
        /\ \A x \in Task : x \in R <=> root[x] \in R
        /\ \A t \in Task : root[t] \in ToSet(queue) => t \in R
    BY DEF Queued, IInv, Typed, Forest
  <1>3. ToSet(queue') = {}
    BY <1>1 DEF ToSet
  <1> HIDE DEF R
  <1> QED
    BY <1>1, <1>2, <1>3, ResetKeeps

(* A loose tree becomes a part of another. *)
LEMMA AddSubtaskKeeps ==
  ASSUME IInv, NEW p \in Task, NEW t \in Task, AddSubtask(p, t)
  PROVE  IInv'
  <1>1. /\ pc = "idle" /\ root[t] = t /\ t \notin ToSet(queue) /\ t \notin gone
        /\ root[p] # t /\ p \notin gone
        /\ kids' = [kids EXCEPT ![p] = Append(@, t)]
        /\ root' = [s \in Task |-> IF root[s] = t THEN root[p] ELSE root[s]]
        /\ UNCHANGED <<state, queue, gone, pc, index, stack>>
    BY DEF AddSubtask, Loose, Queued
  <1>2. /\ kids \in [Task -> Seq(Task)] /\ root \in [Task -> Task]
        /\ kids[p] \in Seq(Task) /\ Len(kids[p]) \in Nat
        /\ \A s \in Task : root[root[s]] = root[s]
    BY SequencesOfTasks DEF IInv, Typed, Forest
  <1>3. /\ kids'[p] \in Seq(Task) /\ Len(kids'[p]) = Len(kids[p]) + 1
        /\ kids'[p][Len(kids[p]) + 1] = t
        /\ \A i \in 1..Len(kids[p]) : kids'[p][i] = kids[p][i]
        /\ \A q \in Task \ {p} : kids'[q] = kids[q]
    BY <1>1, <1>2, AppendProperties
  <1>4. /\ root'[p] = root[p] /\ root'[t] = root[p] /\ root'[root[p]] = root[p]
        /\ \A s \in Task : root[s] # t => root'[s] = root[s]
        /\ \A s \in Task : root[s] = t => root'[s] = root[p]
    BY <1>1, <1>2
  (* Where a subtask is: the new one, or where it was. *)
  <1>5. ASSUME NEW q \in Task, NEW i \in 1..Len(kids'[q])
        PROVE  \/ q = p /\ i = Len(kids[p]) + 1 /\ kids'[q][i] = t
               \/ /\ i \in 1..Len(kids[q]) /\ kids'[q][i] = kids[q][i]
                  /\ kids[q][i] # t /\ kids[q][i] \in Task
    <2>1. \A j \in 1..Len(kids[q]) : kids[q][j] # t /\ kids[q][j] \in Task
      BY <1>1, SequencesOfTasks DEF IInv, Forest
    <2>2. CASE q # p
      BY <1>3, <2>1, <2>2
    <2>3. CASE q = p
      <3>1. i \in 1..Len(kids[p]) \/ i = Len(kids[p]) + 1
        BY <1>2, <1>3, <2>3
      <3> QED
        BY <1>3, <2>1, <2>3, <3>1
    <2> QED
      BY <2>2, <2>3
  <1>6. Typed' /\ FramesOK'
    <2>1. kids' \in [Task -> Seq(Task)] /\ root' \in [Task -> Task]
      BY <1>1, <1>2, <1>3
    <2> QED
      BY <1>1, <2>1, NoFrames DEF IInv, Typed
  <1>7. Forest'
    <2>1. \A s \in Task : root'[root'[s]] = root'[s]
      BY <1>1, <1>2, <1>4
    <2>2. ASSUME NEW q \in Task, NEW i \in 1..Len(kids'[q])
          PROVE  root'[kids'[q][i]] = root'[q] /\ root'[kids'[q][i]] # kids'[q][i]
      <3>1. CASE q = p /\ i = Len(kids[p]) + 1 /\ kids'[q][i] = t
        BY <1>1, <1>4, <3>1
      <3>2. CASE /\ i \in 1..Len(kids[q]) /\ kids'[q][i] = kids[q][i]
                 /\ kids[q][i] # t /\ kids[q][i] \in Task
        <4> DEFINE k == kids[q][i]
        <4>1. k \in Task /\ root[k] = root[q] /\ root[k] # k /\ kids'[q][i] = k
          BY <3>2 DEF IInv, Forest
        <4> HIDE DEF k
        <4>2. k # root[p]
          BY <1>2, <4>1
        <4> QED
          BY <1>4, <4>1, <4>2
      <3> QED
        BY <1>5, <3>1, <3>2
    <2>3. ASSUME NEW q \in Task, NEW r \in Task, NEW i \in 1..Len(kids'[q]),
                 NEW j \in 1..Len(kids'[r]), kids'[q][i] = kids'[r][j]
          PROVE  q = r /\ i = j
      <3>1. CASE kids'[q][i] = t
        <4>1. q = p /\ i = Len(kids[p]) + 1
          BY <1>5, <3>1
        <4>2. kids'[r][j] = t
          BY <2>3, <3>1
        <4>3. r = p /\ j = Len(kids[p]) + 1
          BY <1>5, <4>2
        <4> QED
          BY <4>1, <4>3
      <3>2. CASE kids'[q][i] # t
        <4>1. i \in 1..Len(kids[q]) /\ kids'[q][i] = kids[q][i]
          BY <1>5, <3>2
        <4>2. kids'[r][j] # t
          BY <2>3, <3>2
        <4>3. j \in 1..Len(kids[r]) /\ kids'[r][j] = kids[r][j]
          BY <1>5, <4>2
        <4>4. kids[q][i] = kids[r][j]
          BY <2>3, <4>1, <4>3
        <4> QED
          BY <4>1, <4>3, <4>4 DEF IInv, Forest
      <3> QED
        BY <3>1, <3>2
    <2> QED
      BY <2>1, <2>2, <2>3 DEF Forest
  <1>8. QueueOfTrees'
    <2>1. \A s \in ToSet(queue) : s \in Task /\ root[s] = s /\ s # t
      BY <1>1, SequencesOfTasks DEF IInv, QueueOfTrees
    <2>2. root[p] \notin gone /\ \A s \in Task : s \in gone <=> root[s] \in gone
      BY <1>1 DEF IInv, QueueOfTrees
    <2>3. \A s \in Task : s \in gone <=> root'[s] \in gone
      BY <1>1, <1>4, <2>2
    <2> QED
      BY <1>1, <1>4, <2>1, <2>3 DEF IInv, QueueOfTrees
  <1>9. \A s \in Task : root[s] = t => state[s] = "Pending"
    BY <1>1 DEF IInv, QueueOfTrees, StartedInQueue
  <1>10. StartedInQueue'
    BY <1>1, <1>4, <1>9 DEF IInv, StartedInQueue
  <1>11. Elders'
    <2> SUFFICES ASSUME NEW q \in Task \ Parallel, NEW j \in 1..Len(kids'[q]),
                        NEW i \in 1..(j - 1), state[kids'[q][j]] # "Pending"
                 PROVE  state[kids'[q][i]] \in DoneStates
      BY <1>1 DEF Elders, Done
    <2>1. kids'[q][j] # t
      BY <1>1, <1>9
    <2>2. j \in 1..Len(kids[q]) /\ kids'[q][j] = kids[q][j]
      BY <1>5, <2>1
    <2>3. i \in 1..Len(kids[q])
      BY <2>2, SequencesOfTasks
    <2>4. kids'[q][i] = kids[q][i]
      BY <1>3, <2>3
    <2> QED
      BY <2>2, <2>4 DEF IInv, Elders, Done
  <1> QED
    BY <1>6, <1>7, <1>8, <1>10, <1>11 DEF IInv

LEMMA StepIInv == IInv /\ [Next]_vars => IInv'
  <1> SUFFICES ASSUME IInv, [Next]_vars PROVE IInv'
    OBVIOUS
  <1>1. CASE \E t \in Task : Enqueue(t) \/ EnqueueFails(t)
    BY <1>1, EnqueueKeeps, EnqueueFailsKeeps
  <1>2. CASE \E p, t \in Task : AddSubtask(p, t)
    BY <1>2, AddSubtaskKeeps
  <1>3. CASE Shutdown
    BY <1>3, ShutdownKeeps
  <1>4. CASE TicksBegin \/ SkipTop \/ EndLoop \/ UNCHANGED vars
    <2>1. UNCHANGED <<state, treeVars, queue, gone, stack>>
      BY <1>4 DEF TicksBegin, SkipTop, EndLoop, vars
    <2>2. index \in Nat \ {0} /\ (pc = "idle" => stack = <<>>)
      BY DEF IInv, Typed
    <2>3. index' \in Nat \ {0}
      BY <1>4, <2>2 DEF TicksBegin, SkipTop, EndLoop, vars
    <2>4. pc' = "idle" => stack = <<>>
      BY <1>4, <2>2 DEF TicksBegin, SkipTop, EndLoop, At, vars
    <2> QED
      BY <2>1, <2>3, <2>4, StandStill
  <1>5. CASE EraseDone
    BY <1>5, EraseDoneKeeps
  <1>6. CASE TickTop
    BY <1>6, TickTopKeeps
  <1>7. CASE StartTop
    BY <1>7, StartTopKeeps
  <1>8. CASE StartKid
    BY <1>8, StartKidKeeps
  <1>9. CASE TickKid
    BY <1>9, TickKidKeeps
  <1>10. CASE CountKid
    BY <1>10, CountKidKeeps
  <1>11. CASE EndSubtasks
    BY <1>11, EndSubtasksKeeps
  <1> QED
    BY <1>1, <1>2, <1>3, <1>4, <1>5, <1>6, <1>7, <1>8, <1>9, <1>10, <1>11
    DEF Next, Program, Ticking

(* The trees, the queue, the started tasks and the running calls of        *)
(* task_tick_subtasks fit together (src/tasks.c).                          *)
THEOREM Invariance == Spec => []IInv
  BY InitIInv, StepIInv, PTL DEF Spec

(* Without the flag, task_tick_subtasks starts a subtask only when all its *)
(* elders are done (src/tasks.c:175), whatever trees the program makes and *)
(* whenever it adds to them.                                               *)
THEOREM AlwaysOneAtATime == Spec => []OneAtATime
  BY Invariance, OneAtATimeIsElders, PTL

(* tasks_tick touches no task of a tree that task_reset has taken down     *)
(* (src/tasks.c:84).                                                       *)
THEOREM NeverCalledAfterReset == Spec => NoCallAfterReset
  <1>1. ASSUME IInv, [Next]_vars, NEW t \in gone
        PROVE  state'[t] = state[t] /\ kids'[t] = kids[t]
    <2>1. /\ t \in Task /\ state \in [Task -> States] /\ kids \in [Task -> Seq(Task)]
          /\ t \in gone /\ IInv
      BY <1>1 DEF IInv, Typed
    <2>2. CASE \E p, x \in Task : AddSubtask(p, x)
      BY <2>1, <2>2 DEF AddSubtask
    <2>3. CASE TickTop \/ StartTop
      <3>1. Current # t
        BY <2>1, <2>3, CurrentIsQueued DEF TickTop, StartTop
      <3> QED
        BY <2>1, <2>3, <3>1 DEF TickTop, StartTop, TickOf, SetRunning, SetState, treeVars
    <2>4. CASE StartKid \/ TickKid
      <3>1. Kid # t
        BY <2>1, <2>4, KidIsRight DEF StartKid, TickKid
      <3> QED
        BY <2>1, <2>4, <3>1 DEF StartKid, TickKid, TickOf, SetRunning, SetState, treeVars
    <2>5. CASE EndSubtasks
      <3>1. Top.task # t
        BY <2>1, <2>5, TopIsRight DEF EndSubtasks
      <3> QED
        BY <2>1, <2>5, <3>1 DEF EndSubtasks, SetState, treeVars
    <2>6. CASE \/ (\E x \in Task : Enqueue(x) \/ EnqueueFails(x))
               \/ Shutdown \/ TicksBegin \/ EraseDone \/ SkipTop \/ EndLoop
               \/ CountKid \/ UNCHANGED vars
      BY <2>6 DEF Enqueue, EnqueueFails, Shutdown, TicksBegin, EraseDone, SkipTop,
                  EndLoop, CountKid, vars, treeVars
    <2> QED
      BY <1>1, <2>2, <2>3, <2>4, <2>5, <2>6 DEF Next, Program, Ticking
  <1>2. IInv /\ [Next]_vars
          => [\A t \in gone : state'[t] = state[t] /\ kids'[t] = kids[t]]_vars
    BY <1>1
  <1> QED
    BY <1>2, Invariance, PTL DEF Spec, NoCallAfterReset

----------------------------------------------------------------------------
(* The running calls of task_tick_subtasks, one inside the other: the first*)
(* is for the top of a tree, each next for the subtask the one before is   *)
(* at, and no task has two.                                                *)
ChainOf(q) ==
  /\ Len(q) > 0 => root[q[1].task] = q[1].task
  /\ \A n \in 1..(Len(q) - 1) : /\ q[n].i <= Len(kids[q[n].task])
                                /\ q[n + 1].task = kids[q[n].task][q[n].i]
  /\ \A m, n \in 1..Len(q) : q[m].task = q[n].task => m = n

(* What a call has counted: the states its subtasks have, once all it has  *)
(* seen is done; a group stays running while it is at it.                  *)
Seen(f, st, kd) ==
  /\ Kind[f.task] # "leaf"
  /\ f.i <= Len(kd[f.task]) + 1
  /\ f.seen # {} => f.i > 1
  /\ Kind[f.task] = "group" => st[f.task] = "Running"
  /\ f.seen \subseteq DoneStates => f.seen = {st[kd[f.task][k]] : k \in 1..(f.i - 1)}
SeenOK(f) == Seen(f, state, kids)

(* How often a done state of the task has been seen. *)
OnStack(t) == \E n \in 1..Len(stack) : stack[n].task = t
CountOK(t) ==
  /\ doneCalls[t] \in 0..2
  /\ ~Done(t) => doneCalls[t] = 0
  /\ doneCalls[t] > 1 => Kind[t] = "own" /\ kids[t] # <<>>
  /\ OnStack(t) => doneCalls[t] <= 1

CInv ==
  /\ ChainOf(stack)
  /\ \A n \in 1..Len(stack) : SeenOK(stack[n])
  /\ doneCalls \in [Task -> 0..2]
  /\ \A t \in Task : CountOK(t)

LEMMA StackElements ==
  ASSUME IInv
  PROVE  /\ Len(stack) \in Nat
         /\ \A n \in 1..Len(stack) : /\ stack[n] \in Frames /\ stack[n].task \in Task
                                     /\ stack[n].i \in Nat \ {0}
                                     /\ stack[n].seen \subseteq States
  <1>1. stack \in Seq(Frames)
    BY DEF IInv, Typed
  <1>2. Len(stack) \in Nat /\ \A n \in 1..Len(stack) : stack[n] \in Frames
    BY <1>1, LenProperties, ElementOfSeq
  <1> QED
    BY <1>2 DEF Frames

LEMMA FrontElements ==
  ASSUME NEW S, NEW q \in Seq(S), q # <<>>
  PROVE  /\ Len(q) \in Nat \ {0} /\ Front(q) \in Seq(S) /\ Len(Front(q)) = Len(q) - 1
         /\ \A i \in 1..(Len(q) - 1) : Front(q)[i] = q[i]
         /\ Last(q) = q[Len(q)]
  <1>1. Len(q) \in Nat \ {0} /\ \A i \in 1..Len(q) : q[i] \in S
    BY EmptySeq, LenProperties, ElementOfSeq
  <1>2. /\ SubSeq(q, 1, Len(q) - 1) \in Seq(S)
        /\ Len(SubSeq(q, 1, Len(q) - 1)) = Len(q) - 1
        /\ \A i \in 1..(Len(q) - 1) : SubSeq(q, 1, Len(q) - 1)[i] = q[i]
    <2>1. Len(q) - 1 \in 0..Len(q)
      BY <1>1
    <2> QED
      BY <2>1, Beginning
  <1> QED
    BY <1>1, <1>2 DEF Front, Last

LEMMA PushElements ==
  ASSUME NEW S, NEW q \in Seq(S), NEW e \in S
  PROVE  /\ Append(q, e) \in Seq(S) /\ Len(q) \in Nat
         /\ Len(Append(q, e)) = Len(q) + 1
         /\ \A i \in 1..Len(q) : Append(q, e)[i] = q[i]
         /\ Append(q, e)[Len(q) + 1] = e
  BY AppendProperties, LenProperties

(* The innermost call and the calls around it. *)
LEMMA TopElements ==
  ASSUME IInv, stack # <<>>
  PROVE  /\ Len(stack) \in Nat \ {0} /\ Below \in Seq(Frames) /\ Len(Below) = Len(stack) - 1
         /\ \A n \in 1..(Len(stack) - 1) : Below[n] = stack[n]
         /\ Top = stack[Len(stack)] /\ Top \in Frames
  <1>1. stack \in Seq(Frames)
    BY DEF IInv, Typed
  <1> QED
    BY <1>1, FrontElements, TopIsRight DEF Top, Below

(* The innermost frame replaced by another one of the same task. *)
LEMMA ReplaceTop ==
  ASSUME IInv, stack # <<>>, NEW f \in Frames
  PROVE  /\ Append(Below, f) \in Seq(Frames) /\ Len(Append(Below, f)) = Len(stack)
         /\ \A n \in 1..(Len(stack) - 1) : Append(Below, f)[n] = stack[n]
         /\ Append(Below, f)[Len(stack)] = f
         /\ ChainOf(stack) /\ f.task = Top.task => ChainOf(Append(Below, f))
  <1>1. PICK b \in Seq(Frames) : b = Below
    BY TopElements
  <1>2. /\ Len(stack) \in Nat \ {0} /\ Len(b) = Len(stack) - 1
        /\ \A n \in 1..(Len(stack) - 1) : b[n] = stack[n]
        /\ Top = stack[Len(stack)]
    BY <1>1, TopElements
  <1>3. PICK q \in Seq(Frames) : q = Append(b, f)
    BY PushElements
  <1>4. /\ Len(q) = Len(b) + 1 /\ q[Len(b) + 1] = f
        /\ \A n \in 1..Len(b) : q[n] = b[n]
    BY <1>3, PushElements
  <1>5. /\ Len(q) = Len(stack) /\ q[Len(stack)] = f
        /\ \A n \in 1..(Len(stack) - 1) : q[n] = stack[n]
    BY <1>2, <1>4
  <1>6. ASSUME ChainOf(stack), f.task = Top.task PROVE ChainOf(q)
    <2>1. \A n \in 1..Len(stack) : q[n].task = stack[n].task
      BY <1>2, <1>5, <1>6
    <2>2. \A n \in 1..(Len(stack) - 1) : n \in 1..Len(stack) /\ n + 1 \in 1..Len(stack)
      BY <1>2
    <2>3. Len(stack) > 0 => 1 \in 1..Len(stack)
      BY <1>2
    <2> QED
      BY <1>5, <1>6, <2>1, <2>2, <2>3 DEF ChainOf
  <1> QED
    BY <1>1, <1>3, <1>5, <1>6

LEMMA PopChain ==
  ASSUME IInv, stack # <<>>, ChainOf(stack)
  PROVE  ChainOf(Below)
  <1>1. PICK b \in Seq(Frames) : b = Below
    BY TopElements
  <1>2. /\ Len(stack) \in Nat \ {0} /\ Len(b) = Len(stack) - 1
        /\ \A n \in 1..(Len(stack) - 1) : b[n] = stack[n]
    BY <1>1, TopElements
  <1>3. ChainOf(b)
    <2>1. /\ \A n \in 1..(Len(stack) - 1) : n \in 1..Len(stack)
          /\ \A n \in 1..((Len(stack) - 1) - 1) : /\ n \in 1..(Len(stack) - 1)
                                                /\ n + 1 \in 1..(Len(stack) - 1)
          /\ Len(b) > 0 => 1 \in 1..(Len(stack) - 1) /\ Len(stack) > 0
      BY <1>2
    <2> QED
      BY <1>2, <2>1, SMTT(30) DEF ChainOf
  <1> QED
    BY <1>1, <1>3

LEMMA PushKid ==
  ASSUME IInv, NEW q \in Seq(Frames), ChainOf(q), Len(q) > 0, NEW f \in Frames,
         q[Len(q)].i <= Len(kids[q[Len(q)].task]),
         f.task = kids[q[Len(q)].task][q[Len(q)].i]
  PROVE  /\ ChainOf(Append(q, f)) /\ \A n \in 1..Len(q) : q[n].task # f.task
  <1>1. /\ Len(q) \in Nat /\ \A n \in 1..Len(q) : /\ q[n].task \in Task
                                                /\ q[n].i \in Nat \ {0}
    <2>1. Len(q) \in Nat /\ \A n \in 1..Len(q) : q[n] \in Frames
      BY LenProperties, ElementOfSeq
    <2> QED
      BY <2>1 DEF Frames
  <1>2. PICK r \in Seq(Frames) : r = Append(q, f)
    BY PushElements
  <1>3. /\ Len(r) = Len(q) + 1 /\ r[Len(q) + 1] = f
        /\ \A n \in 1..Len(q) : r[n] = q[n]
    BY <1>2, PushElements
  <1>4. ASSUME NEW n \in 1..Len(q), q[n].task = f.task PROVE FALSE
    <2> DEFINE p == q[Len(q)].task
               k == q[Len(q)].i
    <2>1. Len(q) \in 1..Len(q) /\ p \in Task /\ k \in 1..Len(kids[p]) /\ f.task = kids[p][k]
      BY <1>1, SequencesOfTasks
    <2>2. root[f.task] # f.task
      BY <2>1 DEF IInv, Forest
    <2>3. n # 1
      BY <1>1, <1>4, <2>2 DEF ChainOf
    <2>4. /\ n - 1 \in 1..(Len(q) - 1) /\ n - 1 \in 1..Len(q) /\ (n - 1) + 1 = n
      BY <1>1, <2>3
    <2>5. q[n].task = kids[q[n - 1].task][q[n - 1].i] /\ q[n - 1].i \in 1..Len(kids[q[n - 1].task])
      BY <1>1, <2>4, SequencesOfTasks DEF ChainOf
    <2>6. q[n - 1].task = p
      <3>1. q[n - 1].task \in Task /\ kids[q[n - 1].task][q[n - 1].i] = kids[p][k]
        BY <1>1, <1>4, <2>1, <2>4, <2>5
      <3> HIDE DEF p, k
      <3> QED
        BY <2>1, <2>5, <3>1, SMTT(30) DEF IInv, Forest
    <2>7. n - 1 = Len(q)
      BY <2>1, <2>4, <2>6 DEF ChainOf
    <2> QED
      BY <1>1, <2>4, <2>7
  <1>5. ChainOf(r)
    <2>1. root[r[1].task] = r[1].task
      BY <1>1, <1>3 DEF ChainOf
    <2>2. ASSUME NEW n \in 1..Len(q)
          PROVE  r[n].i <= Len(kids[r[n].task]) /\ r[n + 1].task = kids[r[n].task][r[n].i]
      <3>1. CASE n = Len(q)
        BY <1>1, <1>3, <3>1
      <3>2. CASE n # Len(q)
        <4>1. n \in 1..(Len(q) - 1) /\ n + 1 \in 1..Len(q)
          BY <1>1, <3>2
        <4> QED
          BY <1>3, <4>1 DEF ChainOf
      <3> QED
        BY <3>1, <3>2
    <2>3. ASSUME NEW m \in 1..(Len(q) + 1), NEW n \in 1..(Len(q) + 1), r[m].task = r[n].task
          PROVE  m = n
      <3>1. \A x \in 1..(Len(q) + 1) : x \in 1..Len(q) \/ x = Len(q) + 1
        BY <1>1
      <3>2. CASE m \in 1..Len(q) /\ n \in 1..Len(q)
        BY <1>3, <2>3, <3>2 DEF ChainOf
      <3> QED
        BY <1>3, <1>4, <2>3, <3>1, <3>2
    <2> QED
      BY <1>1, <1>3, <2>1, <2>2, <2>3 DEF ChainOf
  <1> QED
    BY <1>2, <1>4, <1>5

(* The frame of a new call. *)
LEMMA NewCall ==
  ASSUME NEW t \in Task
  PROVE  \E f \in Frames : f = Frame(t) /\ f.task = t /\ f.i = 1 /\ f.seen = {}
  <1>1. Frame(t) \in Frames
    BY DEF Frame, Frames
  <1>2. Frame(t).task = t /\ Frame(t).i = 1 /\ Frame(t).seen = {}
    BY DEF Frame
  <1> QED
    BY <1>1, <1>2

(* The subtask a call is at has no call of its own below it; and a call    *)
(* that ends is for no subtask that a call around it has counted.          *)
LEMMA KidHasNoFrame ==
  ASSUME IInv, CInv, InLoop
  PROVE  \A n \in 1..Len(stack) : stack[n].task # Kid
  <1>1. /\ stack \in Seq(Frames) /\ ChainOf(stack) /\ stack # <<>>
        /\ Top.i <= Len(kids[Top.task]) /\ Kid = kids[Top.task][Top.i]
    BY DEF IInv, Typed, CInv, InLoop, Kid
  <1>2. Top = stack[Len(stack)] /\ Len(stack) > 0
    BY <1>1, TopElements
  <1>3. PICK f \in Frames : f.task = Kid
    BY KidIsRight, NewCall
  <1> QED
    BY <1>1, <1>2, <1>3, PushKid

LEMMA TopIsNotCounted ==
  ASSUME IInv, CInv, stack # <<>>, NEW n \in 1..(Len(stack) - 1)
  PROVE  /\ stack[n].task # Top.task
         /\ \A k \in 1..(stack[n].i - 1) : kids[stack[n].task][k] # Top.task
  <1>1. /\ Len(stack) \in Nat \ {0} /\ Top = stack[Len(stack)] /\ ChainOf(stack)
        /\ n \in 1..Len(stack) /\ Len(stack) \in 1..Len(stack) /\ n # Len(stack)
    BY TopElements DEF CInv
  <1>2. stack[n].task # Top.task
    BY <1>1 DEF ChainOf
  <1>3. ASSUME NEW k \in 1..(stack[n].i - 1), kids[stack[n].task][k] = Top.task PROVE FALSE
    <2> DEFINE m == Len(stack) - 1
    <2>1. m \in 1..(Len(stack) - 1) /\ m + 1 = Len(stack) /\ m \in 1..Len(stack)
      BY <1>1
    <2>2. /\ stack[m].task \in Task /\ stack[m].i \in 1..Len(kids[stack[m].task])
          /\ Top.task = kids[stack[m].task][stack[m].i]
      <3>1. stack[m].i <= Len(kids[stack[m].task]) /\ stack[m + 1].task = kids[stack[m].task][stack[m].i]
        BY <1>1, <2>1 DEF ChainOf
      <3>2. stack[m].task \in Task /\ stack[m].i \in Nat \ {0}
        BY <2>1, StackElements
      <3> HIDE DEF m
      <3> QED
        BY <1>1, <2>1, <3>1, <3>2, SequencesOfTasks, SMTT(30)
    <2>3. /\ stack[n].task \in Task /\ stack[n].i \in Nat \ {0}
          /\ stack[n].i <= Len(kids[stack[n].task]) /\ k \in 1..Len(kids[stack[n].task])
      BY <1>1, StackElements, SequencesOfTasks DEF ChainOf
    <2> HIDE DEF m
    <2>4. stack[n].task = stack[m].task /\ k = stack[m].i
      BY <1>3, <2>2, <2>3, SMTT(30) DEF IInv, Forest
    <2>5. n = m
      BY <1>1, <2>1, <2>4 DEF ChainOf
    <2> QED
      BY <2>3, <2>4, <2>5
  <1> QED
    BY <1>2, <1>3

(* What a call has counted stays so when another task changes, or one that *)
(* was not done.                                                           *)
LEMMA SeenStays ==
  ASSUME IInv, NEW f \in Frames, SeenOK(f), TreesAlone, NEW t \in Task,
         \A x \in Task \ {t} : state'[x] = state[x],
         Kind[f.task] = "group" => f.task # t \/ state'[t] = state[t],
         \A k \in 1..(f.i - 1) : kids[f.task][k] # t \/ ~Done(t) \/ state'[t] = state[t]
  PROVE  Seen(f, state', kids')
  <1>1. /\ f.task \in Task /\ f.i \in Nat \ {0} /\ f.seen \subseteq States
        /\ f.i <= Len(kids[f.task]) + 1
        /\ \A k \in 1..(f.i - 1) : kids[f.task][k] \in Task
    BY SequencesOfTasks DEF Frames, SeenOK, Seen
  <1>2. ASSUME f.seen \subseteq DoneStates
        PROVE  f.seen = {state'[kids[f.task][k]] : k \in 1..(f.i - 1)}
    <2>1. f.seen = {state[kids[f.task][k]] : k \in 1..(f.i - 1)}
      BY <1>2 DEF SeenOK, Seen
    <2>2. \A k \in 1..(f.i - 1) : state[kids[f.task][k]] \in DoneStates
      BY <1>2, <2>1
    <2>3. \A k \in 1..(f.i - 1) : state'[kids[f.task][k]] = state[kids[f.task][k]]
      BY <1>1, <2>2 DEF Done
    <2> QED
      BY <2>1, <2>3
  <1>3. Kind[f.task] = "group" => state'[f.task] = "Running"
    BY <1>1 DEF SeenOK, Seen
  <1> QED
    BY <1>2, <1>3 DEF SeenOK, Seen, TreesAlone

LEMMA CountsOfSet ==
  ASSUME IInv, CInv, NEW t \in Task, ~Done(t), NEW s \in States, SetState(t, s),
         kids' = kids, \A x \in Task \ {t} : OnStack(x)' => OnStack(x)
  PROVE  doneCalls' \in [Task -> 0..2] /\ \A x \in Task : CountOK(x)'
  <1>1. doneCalls[t] = 0 /\ doneCalls \in [Task -> 0..2] /\ state \in [Task -> States]
    BY DEF CInv, CountOK, IInv, Typed
  <1>2. /\ doneCalls' \in [Task -> 0..2] /\ state' = [state EXCEPT ![t] = s]
        /\ doneCalls'[t] \in 0..1
        /\ s \notin DoneStates => doneCalls'[t] = 0
        /\ \A x \in Task \ {t} : doneCalls'[x] = doneCalls[x] /\ state'[x] = state[x]
    BY <1>1 DEF SetState
  <1>3. CountOK(t)'
    <2>1. state'[t] = s
      BY <1>1, <1>2
    <2>2. doneCalls'[t] \in 0..2 /\ doneCalls'[t] <= 1 /\ ~(doneCalls'[t] > 1)
      BY <1>2
    <2> QED
      BY <1>2, <2>1, <2>2 DEF CountOK, Done
  <1>4. ASSUME NEW x \in Task \ {t} PROVE CountOK(x)'
    <2>1. CountOK(x)
      BY DEF CInv
    <2> QED
      BY <1>2, <2>1 DEF CountOK, Done
  <1> QED
    BY <1>2, <1>3, <1>4

LEMMA CountsStay ==
  ASSUME CInv, UNCHANGED <<state, doneCalls, kids>>,
         \A x \in Task : OnStack(x)' => OnStack(x) \/ ~Done(x)
  PROVE  doneCalls' \in [Task -> 0..2] /\ \A x \in Task : CountOK(x)'
  BY DEF CInv, CountOK, Done

(* Every step keeps them. *)

LEMMA InitCInv == Init => CInv
  <1> SUFFICES ASSUME Init PROVE CInv
    OBVIOUS
  <1>1. Len(stack) = 0 /\ \A t \in Task : state[t] = "Pending" /\ doneCalls[t] = 0
    BY EmptySeq DEF Init
  <1>2. doneCalls \in [Task -> 0..2]
    BY DEF Init
  <1>3. ChainOf(stack) /\ (\A n \in 1..Len(stack) : SeenOK(stack[n]))
    BY <1>1 DEF ChainOf
  <1>4. \A t \in Task : CountOK(t)
    BY <1>1 DEF CountOK, Done, DoneStates, OnStack
  <1> QED
    BY <1>2, <1>3, <1>4 DEF CInv

(* Between the calls of tasks_tick, and where a loop of it turns: no call  *)
(* of task_tick_subtasks is running.                                       *)
LEMMA NoCallRuns ==
  ASSUME CInv, stack = <<>>, UNCHANGED <<state, doneCalls, stack>>,
         \A t \in Task : kids[t] # <<>> => kids'[t] # <<>>
  PROVE  CInv'
  <1>1. Len(stack') = 0
    BY EmptySeq
  <1>2. \A t \in Task : CountOK(t)'
    BY <1>1 DEF CInv, CountOK, Done, OnStack
  <1> QED
    BY <1>1, <1>2 DEF CInv, ChainOf

(* A task is started. *)
LEMMA StartKeepsC ==
  ASSUME IInv, CInv, NEW t \in Task, state[t] = "Pending", SetRunning(t),
         UNCHANGED <<kids, root, stack>>
  PROVE  CInv'
  <1>1. PICK s \in States : SetState(t, s)
    BY DEF SetRunning, States, DoneStates
  <1>2. ~Done(t)
    BY DEF Done, DoneStates
  <1>3. doneCalls' \in [Task -> 0..2] /\ \A x \in Task : CountOK(x)'
    <2>1. \A x \in Task \ {t} : OnStack(x)' => OnStack(x)
      BY DEF OnStack
    <2> QED
      BY <1>1, <1>2, <2>1, CountsOfSet
  <1>4. \A x \in Task \ {t} : state'[x] = state[x]
    BY <1>1 DEF SetState, IInv, Typed
  <1>5. ASSUME NEW n \in 1..Len(stack) PROVE Seen(stack[n], state', kids')
    <2>1. PICK f \in Frames : f = stack[n]
      BY StackElements
    <2>2. SeenOK(f)
      BY <2>1 DEF CInv
    <2>3. Kind[f.task] = "group" => f.task # t
      BY <2>2 DEF SeenOK, Seen
    <2>4. Seen(f, state', kids')
      BY <1>2, <1>4, <2>2, <2>3, SeenStays DEF TreesAlone
    <2> QED
      BY <2>1, <2>4
  <1>6. ChainOf(stack)'
    BY DEF CInv, ChainOf
  <1> QED
    BY <1>3, <1>5, <1>6 DEF CInv, SeenOK

(* A running task is ticked, from the calls in q. *)
LEMMA TickOfKeepsC ==
  ASSUME IInv, CInv, NEW t \in Task, state[t] = "Running", UNCHANGED <<kids, root>>,
         NEW q \in Seq(Frames), TickOf(t, q), ChainOf(q), ChainOf(Append(q, Frame(t))),
         \A n \in 1..Len(q) : SeenOK(q[n]) /\ q[n].task # t /\ OnStack(q[n].task)
  PROVE  CInv'
  <1>1. ~Done(t) /\ TreesAlone
    BY DEF Done, DoneStates, TreesAlone
  <1>2. /\ Len(q) \in Nat /\ \A n \in 1..Len(q) : q[n] \in Frames
    BY LenProperties, ElementOfSeq
  <1>3. PICK g \in Frames : g = Frame(t) /\ g.task = t /\ g.i = 1 /\ g.seen = {}
    BY NewCall
  <1>4. PICK a \in Seq(Frames) : a = Append(q, g)
    BY PushElements
  <1>5. /\ Len(a) = Len(q) + 1 /\ a[Len(q) + 1] = g
        /\ \A n \in 1..Len(q) : a[n] = q[n]
    BY <1>4, PushElements
  <1>6. stack' = q \/ (HasTree(t) /\ stack' = a)
    BY <1>3, <1>4 DEF TickOf
  <1>7. \A x \in Task \ {t} : OnStack(x)' => OnStack(x)
    <2> SUFFICES ASSUME NEW x \in Task \ {t}, NEW n \in 1..Len(stack'), stack'[n].task = x
                 PROVE  OnStack(x)
      BY DEF OnStack
    <2>1. CASE stack' = q
      BY <2>1
    <2>2. CASE stack' = a
      <3>1. n \in 1..Len(q) \/ n = Len(q) + 1
        BY <1>2, <1>5, <2>2
      <3>2. n # Len(q) + 1
        BY <1>3, <1>5, <2>2 DEF Frame
      <3> QED
        BY <1>5, <2>2, <3>1, <3>2
    <2> QED
      BY <1>6, <2>1, <2>2
  <1>8. \/ Kind[t] = "group" /\ UNCHANGED <<state, doneCalls>>
        \/ Kind[t] # "group" /\ \E s \in States : SetState(t, s)
    BY DEF TickOf
  <1>9. doneCalls' \in [Task -> 0..2] /\ \A x \in Task : CountOK(x)'
    <2>1. CASE UNCHANGED <<state, doneCalls>>
      BY <1>1, <1>7, <2>1, CountsStay
    <2>2. CASE \E s \in States : SetState(t, s)
      BY <1>1, <1>7, <2>2, CountsOfSet
    <2> QED
      BY <1>8, <2>1, <2>2
  <1>10. /\ \A x \in Task \ {t} : state'[x] = state[x]
         /\ Kind[t] = "group" => state'[t] = state[t]
    BY <1>8 DEF SetState, IInv, Typed
  <1>11. ASSUME NEW n \in 1..Len(q) PROVE Seen(q[n], state', kids')
    <2>1. PICK f \in Frames : f = q[n]
      BY <1>2
    <2>2. SeenOK(f) /\ f.task # t
      BY <2>1
    <2>3. Seen(f, state', kids')
      BY <1>1, <1>10, <2>2, SeenStays
    <2> QED
      BY <2>1, <2>3
  <1>12. HasTree(t) => Seen(g, state', kids')
    <2>1. g.task = t /\ g.i = 1 /\ g.seen = {}
      BY <1>3
    <2>2. Len(kids[t]) \in Nat /\ 1..(1 - 1) = {}
      BY SequencesOfTasks
    <2> QED
      BY <1>10, <2>1, <2>2 DEF Seen, HasTree
  <1>13. \A n \in 1..Len(stack') : Seen(stack'[n], state', kids')
    <2>1. CASE stack' = q
      BY <1>11, <2>1
    <2>2. CASE HasTree(t) /\ stack' = a
      <3>1. \A n \in 1..Len(a) : n \in 1..Len(q) \/ n = Len(q) + 1
        BY <1>2, <1>5
      <3> QED
        BY <1>5, <1>11, <1>12, <2>2, <3>1
    <2> QED
      BY <1>6, <2>1, <2>2
  <1>14. ChainOf(stack)'
    <2>1. ChainOf(q) /\ ChainOf(a)
      BY <1>3, <1>4
    <2> QED
      BY <1>6, <2>1, ZenonT(60) DEF ChainOf
  <1> QED
    BY <1>9, <1>13, <1>14 DEF CInv, SeenOK

LEMMA TickTopKeepsC ==
  ASSUME IInv, CInv, TickTop
  PROVE  CInv'
  <1>1. /\ state[Current] = "Running" /\ TickOf(Current, <<>>) /\ UNCHANGED <<kids, root>>
        /\ At("tick")
    BY DEF TickTop, treeVars
  <1>2. PICK t \in Task : t = Current /\ root[t] = t
    BY <1>1, CurrentIsQueued
  <1>3. PICK f \in Frames : f = Frame(t) /\ f.task = t
    BY NewCall
  <1>4. PICK q \in Seq(Frames) : q = <<>>
    BY EmptySeq
  <1>5. Len(q) = 0 /\ Len(Append(q, f)) = 1 /\ Append(q, f)[1] = f
    BY <1>4, PushElements, EmptySeq
  <1>6. ChainOf(q) /\ ChainOf(Append(q, f))
    BY <1>2, <1>3, <1>5 DEF ChainOf
  <1>7. TickOf(t, q) /\ state[t] = "Running"
    BY <1>1, <1>2, <1>4
  <1>8. \A n \in 1..Len(q) : SeenOK(q[n]) /\ q[n].task # t /\ OnStack(q[n].task)
    BY <1>5
  <1>9. ChainOf(Append(q, Frame(t)))
    BY <1>3, <1>6
  <1> QED
    BY <1>1, <1>6, <1>7, <1>8, <1>9, TickOfKeepsC

LEMMA TickKidKeepsC ==
  ASSUME IInv, CInv, TickKid
  PROVE  CInv'
  <1>1. /\ InLoop /\ stack # <<>> /\ state[Kid] = "Running" /\ UNCHANGED <<kids, root>>
        /\ TickOf(Kid, Append(Below, [Top EXCEPT !.ticked = TRUE]))
        /\ Top.i <= Len(kids[Top.task]) /\ Kid = kids[Top.task][Top.i]
    BY DEF TickKid, MayTick, InLoop, Kid, treeVars
  <1>2. PICK t \in Task : t = Kid
    BY <1>1, KidIsRight
  <1>3. PICK p \in Frames : p = Top
    BY <1>1, TopElements
  <1>4. PICK h \in Frames : /\ h = [p EXCEPT !.ticked = TRUE]
                            /\ h.task = p.task /\ h.i = p.i /\ h.seen = p.seen
    BY ChangedFrames DEF States
  <1>5. PICK q \in Seq(Frames) : q = Append(Below, h)
    BY <1>1, ReplaceTop
  <1>6. /\ Len(q) = Len(stack) /\ q[Len(stack)] = h /\ ChainOf(q)
        /\ \A n \in 1..(Len(stack) - 1) : q[n] = stack[n]
    BY <1>1, <1>3, <1>4, <1>5, ReplaceTop DEF CInv
  <1>7. Len(stack) \in Nat \ {0} /\ Top = stack[Len(stack)]
    BY <1>1, TopElements
  <1>8. ASSUME NEW n \in 1..Len(q) PROVE SeenOK(q[n]) /\ q[n].task # t /\ OnStack(q[n].task)
    <2>1. n \in 1..Len(stack) /\ SeenOK(stack[n]) /\ stack[n].task # t
      BY <1>1, <1>2, <1>6, KidHasNoFrame DEF CInv
    <2>2. q[n].task = stack[n].task /\ q[n].i = stack[n].i /\ q[n].seen = stack[n].seen
      <3>1. CASE n = Len(stack)
        BY <1>3, <1>4, <1>6, <1>7, <3>1
      <3>2. CASE n # Len(stack)
        <4>1. n \in 1..(Len(stack) - 1)
          BY <1>7, <2>1, <3>2
        <4> QED
          BY <1>6, <4>1
      <3> QED
        BY <3>1, <3>2
    <2> QED
      BY <2>1, <2>2 DEF SeenOK, Seen, OnStack
  <1>9. PICK f \in Frames : f = Frame(t) /\ f.task = t
    BY NewCall
  <1>10. ChainOf(Append(q, Frame(t)))
    <2>1. /\ Len(q) > 0 /\ q[Len(q)] = h /\ h.i <= Len(kids[h.task])
          /\ f.task = kids[h.task][h.i]
      BY <1>1, <1>2, <1>3, <1>4, <1>6, <1>7, <1>9
    <2>2. ChainOf(Append(q, f))
      BY <1>6, <2>1, PushKid
    <2> QED
      BY <1>9, <2>2
  <1>11. TickOf(t, q) /\ state[t] = "Running"
    BY <1>1, <1>2, <1>3, <1>4, <1>5, SMTT(30)
  <1> QED
    BY <1>1, <1>6, <1>8, <1>9, <1>10, <1>11, TickOfKeepsC

LEMMA CountKidKeepsC ==
  ASSUME IInv, CInv, CountKid
  PROVE  CInv'
  <1>1. /\ InLoop /\ stack # <<>> /\ UNCHANGED <<state, kids, root, doneCalls>>
        /\ Top.i <= Len(kids[Top.task]) /\ Kid = kids[Top.task][Top.i]
        /\ stack' = Append(Below, [Top EXCEPT !.seen = @ \cup {state[Kid]},
                                              !.i = @ + 1, !.ticked = FALSE])
    BY DEF CountKid, InLoop, Kid, treeVars
  <1>2. Kid \in Task /\ state[Kid] \in States
    BY <1>1, KidIsRight DEF IInv, Typed
  <1>3. PICK p \in Frames : p = Top /\ SeenOK(p)
    BY <1>1, TopElements DEF CInv
  <1>4. /\ p.task \in Task /\ p.i \in Nat \ {0} /\ p.seen \subseteq States
        /\ p.i <= Len(kids[p.task]) /\ Kid = kids[p.task][p.i]
        /\ Len(kids[p.task]) \in Nat
    BY <1>1, <1>3, SequencesOfTasks DEF Frames
  <1>5. PICK h \in Frames : /\ h = [p EXCEPT !.seen = @ \cup {state[Kid]},
                                             !.i = @ + 1, !.ticked = FALSE]
                            /\ h.task = p.task /\ h.i = p.i + 1
                            /\ h.seen = p.seen \cup {state[Kid]}
    <2>1. PICK s \in States : s = state[Kid]
      BY <1>2
    <2>2. PICK h \in Frames : h = [p EXCEPT !.seen = @ \cup {s}, !.i = @ + 1, !.ticked = FALSE]
      BY ChangedFrames
    <2>3. h.task = p.task /\ h.i = p.i + 1 /\ h.seen = p.seen \cup {s}
      BY <2>2, ChangedFrames
    <2> QED
      BY <2>1, <2>2, <2>3
  <1>6. PICK q \in Seq(Frames) : q = Append(Below, h)
    BY <1>1, ReplaceTop
  <1>7. /\ Len(q) = Len(stack) /\ q[Len(stack)] = h /\ ChainOf(q)
        /\ \A n \in 1..(Len(stack) - 1) : q[n] = stack[n]
    BY <1>1, <1>3, <1>5, <1>6, ReplaceTop DEF CInv
  <1>8. Len(stack) \in Nat \ {0} /\ Top = stack[Len(stack)] /\ stack' = q
    BY <1>1, <1>3, <1>5, <1>6, TopElements
  <1>9. \A n \in 1..Len(stack) : n = Len(stack) \/ n \in 1..(Len(stack) - 1)
    BY <1>8
  <1>10. Seen(h, state, kids)
    <2>1. ASSUME h.seen \subseteq DoneStates
          PROVE  h.seen = {state[kids[h.task][k]] : k \in 1..(h.i - 1)}
      <3>1. p.seen = {state[kids[p.task][k]] : k \in 1..(p.i - 1)}
        BY <1>3, <1>5, <2>1 DEF SeenOK, Seen
      <3>2. 1..(h.i - 1) = 1..(p.i - 1) \cup {p.i}
        BY <1>4, <1>5
      <3> QED
        BY <1>4, <1>5, <3>1, <3>2
    <2>2. h.i <= Len(kids[h.task]) + 1 /\ h.i > 1
      BY <1>4, <1>5
    <2> QED
      BY <1>3, <1>5, <2>1, <2>2 DEF SeenOK, Seen
  <1>11. \A n \in 1..Len(q) : Seen(q[n], state, kids)
    BY <1>7, <1>9, <1>10 DEF CInv, SeenOK
  <1>12. \A x \in Task : OnStack(x)' => OnStack(x)
    <2> SUFFICES ASSUME NEW x \in Task, NEW n \in 1..Len(q), q[n].task = x
                 PROVE  OnStack(x)
      BY <1>8 DEF OnStack
    <2>1. n \in 1..Len(stack) /\ stack[n].task = x
      BY <1>3, <1>5, <1>7, <1>8, <1>9
    <2> QED
      BY <2>1 DEF OnStack
  <1>13. doneCalls' \in [Task -> 0..2] /\ \A x \in Task : CountOK(x)'
    BY <1>1, <1>12, CountsStay
  <1>14. ChainOf(stack)'
    BY <1>1, <1>7, <1>8 DEF ChainOf
  <1> QED
    BY <1>1, <1>8, <1>11, <1>13, <1>14 DEF CInv, SeenOK

(* A call of task_tick_subtasks ends, and may end its task. *)
LEMMA EndSubtasksKeepsC ==
  ASSUME IInv, CInv, EndSubtasks
  PROVE  CInv'
  <1>1. stack # <<>> /\ stack' = Below /\ UNCHANGED <<kids, root>>
    BY DEF EndSubtasks, treeVars
  <1>2. /\ Len(stack) \in Nat \ {0} /\ Below \in Seq(Frames) /\ Len(Below) = Len(stack) - 1
        /\ \A n \in 1..(Len(stack) - 1) : Below[n] = stack[n]
        /\ Top = stack[Len(stack)] /\ Top \in Frames
    BY <1>1, TopElements
  <1>3. PICK b \in Seq(Frames) : b = Below
    BY <1>2
  <1>4. /\ stack' = b /\ Len(b) = Len(stack) - 1 /\ ChainOf(b)
        /\ \A n \in 1..Len(b) : b[n] = stack[n] /\ n \in 1..Len(stack) /\ n \in 1..(Len(stack) - 1)
    BY <1>1, <1>2, <1>3, PopChain DEF CInv
  <1>5. PICK t \in Task : t = Top.task
    BY <1>2 DEF Frames
  <1>6. /\ SeenOK(Top) /\ OnStack(t) /\ Top.i \in Nat \ {0} /\ Top.seen \subseteq States
        /\ Len(kids[t]) \in Nat
    BY <1>2, <1>5, SequencesOfTasks DEF CInv, OnStack, Frames
  <1>7. \A x \in Task : OnStack(x)' => OnStack(x) /\ x # t
    <2> SUFFICES ASSUME NEW x \in Task, NEW n \in 1..Len(b), b[n].task = x
                 PROVE  OnStack(x) /\ x # t
      BY <1>4 DEF OnStack
    <2> QED
      BY <1>1, <1>4, <1>5, TopIsNotCounted DEF OnStack
  <1>8. \/ UNCHANGED <<state, doneCalls>>
        \/ Top.seen # {} /\ SetState(t, Outcome(Top.seen))
    BY <1>5 DEF EndSubtasks
  <1>9. doneCalls' \in [Task -> 0..2] /\ \A x \in Task : CountOK(x)'
    <2>1. CASE UNCHANGED <<state, doneCalls>>
      BY <1>1, <1>7, <2>1, CountsStay
    <2>2. CASE Top.seen # {} /\ SetState(t, Outcome(Top.seen))
      <3>1. PICK s \in DoneStates : s = Outcome(Top.seen)
        BY DEF Outcome, DoneStates
      <3>2. s \in States /\ SetState(t, s)
        BY <2>2, <3>1 DEF States
      <3>3. /\ state \in [Task -> States] /\ doneCalls \in [Task -> 0..2] /\ CountOK(t)
            /\ doneCalls[t] \in 0..1
        BY <1>6 DEF IInv, Typed, CInv, CountOK
      <3>4. /\ doneCalls' \in [Task -> 0..2] /\ state'[t] = s
            /\ \A x \in Task \ {t} : doneCalls'[x] = doneCalls[x] /\ state'[x] = state[x]
        BY <3>2, <3>3 DEF SetState
      <3>5. doneCalls'[t] > 1 => doneCalls[t] = 1
        BY <3>2, <3>3 DEF SetState
      <3>6. doneCalls'[t] > 1 => Kind[t] = "own" /\ kids[t] # <<>>
        <4> SUFFICES ASSUME doneCalls[t] = 1 PROVE Kind[t] = "own" /\ kids[t] # <<>>
          BY <3>5
        <4>1. Done(t)
          BY <3>3 DEF CountOK
        <4>2. Kind[t] # "group" /\ Kind[t] # "leaf"
          BY <1>5, <1>6, <4>1 DEF SeenOK, Seen, Done, DoneStates
        <4>3. Len(kids[t]) # 0
          BY <1>5, <1>6, <2>2 DEF SeenOK, Seen
        <4> QED
          BY <4>2, <4>3, KindAssumption, EmptySeq
      <3>7. CountOK(t)'
        <4>1. doneCalls'[t] \in 0..2 /\ Done(t)' /\ ~OnStack(t)'
          BY <1>7, <3>4 DEF Done
        <4> QED
          BY <1>1, <3>6, <4>1 DEF CountOK
      <3>8. ASSUME NEW x \in Task \ {t} PROVE CountOK(x)'
        <4>1. CountOK(x)
          BY DEF CInv
        <4> QED
          BY <1>1, <1>7, <3>4, <4>1 DEF CountOK, Done
      <3> QED
        BY <3>4, <3>7, <3>8
    <2> QED
      BY <1>8, <2>1, <2>2
  <1>10. \A x \in Task \ {t} : state'[x] = state[x]
    BY <1>8 DEF SetState, IInv, Typed
  <1>11. ASSUME NEW n \in 1..Len(b) PROVE Seen(b[n], state', kids')
    <2>1. PICK f \in Frames : f = b[n]
      BY ElementOfSeq
    <2>2. SeenOK(f) /\ f.task # t /\ \A k \in 1..(f.i - 1) : kids[f.task][k] # t
      BY <1>1, <1>4, <1>5, <2>1, TopIsNotCounted, ZenonT(60) DEF CInv
    <2>3. Seen(f, state', kids')
      BY <1>1, <1>10, <2>2, SeenStays DEF TreesAlone
    <2> QED
      BY <2>1, <2>3
  <1>12. ChainOf(stack)'
    BY <1>1, <1>4 DEF ChainOf
  <1> QED
    BY <1>4, <1>9, <1>11, <1>12 DEF CInv, SeenOK

LEMMA StepCInv == IInv /\ CInv /\ [Next]_vars => CInv'
  <1> SUFFICES ASSUME IInv, CInv, [Next]_vars PROVE CInv'
    OBVIOUS
  <1>1. CASE \/ (\E t \in Task : Enqueue(t) \/ EnqueueFails(t)) \/ Shutdown
             \/ TicksBegin \/ EraseDone \/ SkipTop \/ EndLoop
    <2>1. stack = <<>> /\ UNCHANGED <<state, doneCalls, stack, kids>>
      BY <1>1 DEF Enqueue, EnqueueFails, Shutdown, TicksBegin, EraseDone, SkipTop, EndLoop,
                  At, treeVars, IInv, Typed
    <2> QED
      BY <2>1, NoCallRuns
  <1>2. ASSUME NEW p \in Task, NEW t \in Task, AddSubtask(p, t) PROVE CInv'
    <2>1. stack = <<>> /\ UNCHANGED <<state, doneCalls, stack>>
      BY <1>2 DEF AddSubtask, IInv, Typed
    <2>2. ASSUME NEW x \in Task, kids[x] # <<>> PROVE kids'[x] # <<>>
      <3>1. kids'[x] = kids[x] \/ kids'[x] = Append(kids[x], t)
        BY <1>2 DEF AddSubtask, IInv, Typed
      <3>2. PICK k \in Seq(Task) : k = kids[x]
        BY DEF IInv, Typed
      <3>3. Append(k, t) \in Seq(Task) /\ Len(Append(k, t)) # 0
        BY PushElements
      <3>4. Append(kids[x], t) # <<>>
        BY <3>2, <3>3, EmptySeq
      <3> QED
        BY <2>2, <3>1, <3>4
    <2> QED
      BY <2>1, <2>2, NoCallRuns
  <1>3. CASE TickTop
    BY <1>3, TickTopKeepsC
  <1>4. CASE StartTop
    <2>1. /\ state[Current] = "Pending" /\ SetRunning(Current) /\ At("start")
          /\ UNCHANGED <<kids, root, stack>>
      BY <1>4 DEF StartTop, treeVars
    <2>2. PICK t \in Task : t = Current
      BY <2>1, CurrentIsQueued
    <2> QED
      BY <2>1, <2>2, StartKeepsC
  <1>5. CASE StartKid
    <2>1. /\ state[Kid] = "Pending" /\ SetRunning(Kid) /\ InLoop
          /\ UNCHANGED <<kids, root, stack>>
      BY <1>5 DEF StartKid, MayStart, treeVars
    <2>2. PICK t \in Task : t = Kid
      BY <2>1, KidIsRight
    <2> QED
      BY <2>1, <2>2, StartKeepsC
  <1>6. CASE TickKid
    BY <1>6, TickKidKeepsC
  <1>7. CASE CountKid
    BY <1>7, CountKidKeepsC
  <1>8. CASE EndSubtasks
    BY <1>8, EndSubtasksKeepsC
  <1>9. CASE UNCHANGED vars
    <2>1. UNCHANGED <<state, kids, root, stack, doneCalls>>
      BY <1>9 DEF vars, treeVars
    <2> QED
      BY <2>1 DEF CInv, ChainOf, SeenOK, CountOK, Done, OnStack
  <1> QED
    BY <1>1, <1>2, <1>3, <1>4, <1>5, <1>6, <1>7, <1>8, <1>9 DEF Next, Program, Ticking

----------------------------------------------------------------------------
(* Every count of done states and of what the running calls have seen is   *)
(* right, whatever the trees are.                                          *)
THEOREM Counts == Spec => []CInv
  <1>1. Init => CInv
    BY InitCInv
  <1>2. IInv /\ CInv /\ [Next]_vars => CInv'
    BY StepCInv
  <1> QED
    BY <1>1, <1>2, Invariance, PTL DEF Spec

(* stateChanged sees one done state of a task, and a second one only when  *)
(* the task ends itself in its own tick, before task_tick_subtasks ends it *)
(* again (tasks.c).                                                        *)
THEOREM AlwaysDoneOnce == Spec => []DoneOnce
  <1> DEFINE PcOK == pc \in {"idle", "tick", "start"}
  <1>1. Init => PcOK
    BY DEF Init
  <1>2. PcOK /\ [Next]_vars => PcOK'
    BY DEF Next, Program, Ticking, Enqueue, EnqueueFails, AddSubtask, Shutdown, TicksBegin,
           EraseDone, TickTop, StartTop, SkipTop, EndLoop, StartKid, TickKid, CountKid,
           EndSubtasks, vars
  <1>3. PcOK /\ IInv /\ CInv => DoneOnce
    <2> SUFFICES ASSUME PcOK, IInv, CInv PROVE DoneOnce
      OBVIOUS
    <2>1. TypeOK
      BY DEF IInv, Typed, CInv, TypeOK, Frames
    <2> QED
      BY <2>1 DEF DoneOnce, CInv, CountOK
  <1> QED
    BY <1>1, <1>2, <1>3, Invariance, Counts, PTL DEF Spec

(* A group ends where its subtasks have all been counted as done.          *)
LEMMA GroupEnds ==
  ASSUME IInv, CInv, Next, NEW g \in Task, Kind[g] = "group", ~Done(g), Done(g)'
  PROVE  /\ stack # <<>> /\ ~InLoop /\ g = Top.task /\ Top.seen # {}
         /\ Top.seen \subseteq DoneStates /\ state'[g] = Outcome(Top.seen)
  <1>1. state'[g] # state[g] /\ state'[g] \in DoneStates /\ state \in [Task -> States]
    BY DEF Done, IInv, Typed
  <1>2. ASSUME NEW t \in Task, SetRunning(t) PROVE FALSE
    BY <1>1, <1>2 DEF SetRunning, SetState, DoneStates
  <1>3. ASSUME NEW t \in Task, NEW q, TickOf(t, q) PROVE FALSE
    BY <1>1, <1>3 DEF TickOf, SetState
  <1>4. CASE EndSubtasks
    BY <1>1, <1>4 DEF EndSubtasks, SetState
  <1>5. CASE TickTop \/ StartTop
    <2>1. At("tick") \/ At("start")
      BY <1>5 DEF TickTop, StartTop
    <2>2. PICK t \in Task : t = Current
      BY <2>1, CurrentIsQueued
    <2> QED
      BY <1>2, <1>3, <1>5, <2>2 DEF TickTop, StartTop
  <1>6. CASE StartKid \/ TickKid
    <2>1. PICK t \in Task : t = Kid
      BY <1>6, KidIsRight DEF StartKid, TickKid
    <2> QED
      BY <1>2, <1>3, <1>6, <2>1 DEF StartKid, TickKid
  <1>7. CASE UNCHANGED state
    BY <1>1, <1>7
  <1> QED
    BY <1>4, <1>5, <1>6, <1>7 DEF Next, Program, Ticking, Enqueue, EnqueueFails, AddSubtask,
       Shutdown, TicksBegin, EraseDone, SkipTop, EndLoop, CountKid

(* A group ends only when all its subtasks are done, and then as canceled, *)
(* failed or succeeded as the most serious of their outcomes asks, however *)
(* many subtasks there are.                                                *)
THEOREM OutcomeOfGroups == Spec => GroupOutcome
  <1>1. ASSUME IInv, CInv, Next, NEW g \in Task, Kind[g] = "group", ~Done(g), Done(g)'
        PROVE  LET S == {state[k] : k \in ToSet(kids[g])}
               IN  /\ S # {} /\ S \subseteq DoneStates
                   /\ state'[g] = "Canceled" <=> "Canceled" \in S
                   /\ state'[g] = "Succeeded" <=> S = {"Succeeded"}
    <2> DEFINE S == {state[k] : k \in ToSet(kids[g])}
    <2>1. /\ stack # <<>> /\ ~InLoop /\ g = Top.task /\ Top.seen # {}
          /\ Top.seen \subseteq DoneStates /\ state'[g] = Outcome(Top.seen)
      BY <1>1, GroupEnds
    <2>2. /\ Top = stack[Len(stack)] /\ Len(stack) \in Nat \ {0} /\ Top \in Frames
          /\ ~(Top.i <= Len(kids[g]))
      BY <1>1, <2>1, TopElements DEF InLoop
    <2>3. /\ Top.i \in Nat \ {0} /\ Len(kids[g]) \in Nat
          /\ DOMAIN kids[g] = 1..Len(kids[g])
      BY <1>1, <2>2, SequencesOfTasks DEF Frames
    <2>4. Seen(Top, state, kids)
      BY <1>1, <2>2 DEF CInv, SeenOK
    <2>5. Top.i - 1 = Len(kids[g])
      BY <2>1, <2>2, <2>3, <2>4 DEF Seen
    <2>6. Top.seen = {state[kids[g][k]] : k \in 1..Len(kids[g])}
      BY <2>1, <2>4, <2>5 DEF Seen
    <2>7. S = Top.seen
      BY <2>3, <2>6 DEF ToSet
    <2> HIDE DEF S
    <2>8. state'[g] = Outcome(S) /\ S # {} /\ S \subseteq DoneStates
      BY <2>1, <2>7
    <2>9. /\ Outcome(S) = "Canceled" <=> "Canceled" \in S
          /\ Outcome(S) = "Succeeded" <=> S = {"Succeeded"}
      BY <2>8 DEF Outcome, DoneStates
    <2> QED
      BY <2>8, <2>9 DEF S
  <1>2. IInv /\ CInv /\ [Next]_vars
          => [\A g \in Task : Kind[g] = "group" /\ ~Done(g) /\ Done(g)' =>
                LET S == {state[k] : k \in ToSet(kids[g])}
                IN  /\ S # {} /\ S \subseteq DoneStates
                    /\ state'[g] = "Canceled" <=> "Canceled" \in S
                    /\ state'[g] = "Succeeded" <=> S = {"Succeeded"}]_vars
    BY <1>1
  <1> QED
    BY <1>2, Invariance, Counts, PTL DEF Spec, GroupOutcome
=============================================================================
