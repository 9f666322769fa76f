------------------------ MODULE BuildCommandsProofs ------------------------
(* Proofs about BuildCommands, for any number of commands, any maxTasks,   *)
(* either stop mode and any set of faults.                                 *)
EXTENDS BuildCommands, FiniteSetTheorems, SequenceTheorems, TLAPS

(* The sets the counters are compared with are finite. *)
LEMMA FiniteSubsets ==
  ASSUME NEW S \in SUBSET Commands
  PROVE  IsFiniteSet(S) /\ Cardinality(S) \in Nat
<1>1. IsFiniteSet(Commands)
  BY FS_Interval, CountAssumption DEF Commands
<1> QED
  BY <1>1, FS_Subset, FS_CardinalityType

(* Removing an element of a sequence leaves a sequence. *)
LEMMA RemoveAtType ==
  ASSUME NEW S, NEW q \in Seq(S), NEW i \in 1..Len(q)
  PROVE  RemoveAt(q, i) \in Seq(S)
<1>1. SubSeq(q, 1, i-1) \in Seq(S)
  BY SubSeqProperties
<1>2. SubSeq(q, i+1, Len(q)) \in Seq(S)
  BY SubSeqProperties
<1> QED
  BY <1>1, <1>2, ConcatProperties DEF RemoveAt

(* The invariant holds when buildCommands_dispatch is entered. *)
LEMMA InvInit == Init => IInv
<1> SUFFICES ASSUME Init PROVE IInv
  OBVIOUS
<1> USE CountAssumption, MaxTasksAssumption DEF Init, Commands
<1>1. TypeOK
  BY DEF TypeOK, TaskStates, PCs, DoneStates
<1>2. Consistent
  BY DEF Consistent, DoneStates
<1>3. CountersAgree
  <2>1. Outstanding = {} /\ FailedCommands = {}
    BY DEF Outstanding, FailedCommands
  <2>2. Cardinality({}) = 0
    BY FS_EmptySet
  <2> QED
    BY <2>1, <2>2 DEF CountersAgree
<1>4. PrintedPrefix /\ Unwinding /\ ChildFollowsTask /\ ResultIsExitCode /\ ReturnIsClean
  BY DEF PrintedPrefix, Unwinding, ChildFollowsTask, ResultIsExitCode, ReturnIsClean
<1> QED
  BY <1>1, <1>2, <1>3, <1>4 DEF IInv

(* The counters depend only on what task_command_statechanged and the      *)
(* dispatch branch write.                                                  *)
LEMMA CountersUnchanged ==
  ASSUME CountersAgree, UNCHANGED <<active, errorCount, link, bFinished>>,
         \A c \in bFinished : (tstate'[c] = "Failed") <=> (tstate[c] = "Failed")
  PROVE  CountersAgree'
<1>1. Outstanding' = Outstanding /\ FailedCommands' = FailedCommands
  BY DEF Outstanding, FailedCommands
<1> QED
  BY <1>1 DEF CountersAgree

(* A done callback on a live link keeps the counters in agreement: the     *)
(* link leaves the outstanding ones and the command joins the failed ones  *)
(* exactly when errorCount grows.                                          *)
LEMMA CommandDoneCounts ==
  ASSUME IInv, NEW c \in Commands, NEW s \in DoneStates, NEW exit, NEW next,
         link[c] = "live", tstate' = [tstate EXCEPT ![c] = s],
         CommandDone(c, s, exit, next)
  PROVE  CountersAgree' /\ active' \in Nat /\ errorCount' \in Nat
<1> USE DEF IInv
<1>1. Outstanding' = Outstanding \ {c} /\ c \in Outstanding
  BY DEF Outstanding, CommandDone, TypeOK
<1>2. active' = Cardinality(Outstanding')
  <2>1. IsFiniteSet(Outstanding) /\ Cardinality(Outstanding) \in Nat
    BY FiniteSubsets DEF Outstanding
  <2>2. Cardinality(Outstanding \ {c}) = Cardinality(Outstanding) - 1
    BY <1>1, <2>1, FS_RemoveElement
  <2> QED
    BY <1>1, <2>2 DEF CommandDone, CountersAgree
<1>3. c \notin bFinished /\ bFinished' = bFinished \cup {c}
  BY DEF CommandDone, Consistent, DoneStates
<1>4. errorCount' = Cardinality(FailedCommands')
  <2>1. IsFiniteSet(FailedCommands) /\ c \notin FailedCommands
    BY <1>3, FiniteSubsets DEF FailedCommands, TypeOK
  <2>2. CASE s = "Failed"
    <3>1. FailedCommands' = FailedCommands \cup {c}
      BY <1>3, <2>2 DEF FailedCommands, TypeOK
    <3>2. errorCount' = errorCount + 1
      BY <2>2 DEF CommandDone
    <3> QED
      BY <2>1, <3>1, <3>2, FS_AddElement DEF CountersAgree
  <2>3. CASE s # "Failed"
    <3>1. FailedCommands' = FailedCommands
      BY <1>3, <2>3 DEF FailedCommands, TypeOK
    <3>2. errorCount' = errorCount
      BY <2>3 DEF CommandDone
    <3> QED
      BY <3>1, <3>2 DEF CountersAgree
  <2> QED
    BY <2>2, <2>3
<1>5. active' <= MaxTasks /\ active' \in Nat
  <2>1. active' \in Nat
    BY <1>2, FiniteSubsets DEF Outstanding
  <2> QED
    BY <2>1, MaxTasksAssumption DEF CommandDone, CountersAgree, TypeOK
<1>6. errorCount' \in Nat
  BY DEF CommandDone, TypeOK
<1> QED
  BY <1>2, <1>4, <1>5, <1>6 DEF CountersAgree

(* The rest of the invariant after such a callback. *)
LEMMA CommandDoneInv ==
  ASSUME IInv, NEW c \in Commands, NEW s \in DoneStates,
         NEW exit \in {"none", "running", "ok", "error"}, NEW next,
         link[c] = "live", tstate' = [tstate EXCEPT ![c] = s],
         CommandDone(c, s, exit, next),
         UNCHANGED <<bDispatched, bTitlePrinted, bResultPrinted, dispatched, printed>>
  PROVE  /\ Consistent' /\ PrintedPrefix'
         /\ bFinished' \subseteq Commands
         /\ result' \in [Commands -> {"unset", "running", "ok", "error"}]
         /\ link' \in [Commands -> {"none", "live", "freed", "leaked"}]
         /\ tstate' \in [Commands -> TaskStates]
<1> USE DEF IInv, CommandDone, TypeOK
<1>1. Consistent'
  BY DEF Consistent, DoneStates
<1>2. PrintedPrefix'
  BY DEF PrintedPrefix
<1> QED
  BY <1>1, <1>2 DEF TaskStates

(* No step changes the stop mode or the faults that may happen. *)
LEMMA SettingsKept == [Next]_vars => bStopOnError' = bStopOnError /\ faults' = faults
BY DEF Next, Main, TasksTick, PrintLoop, Dispatch, EraseDone, SkipPending, PollRunning, PollDone,
       EndTick, StartSkip, StartTask, SpawnFails, UnwindCallback, EndStart, PrintResult,
       EndPrint, DispatchNext, DispatchNotQueued, Return, LoopAgain, ChildExits, IoThreadDone,
       settings, vars

(* Every step keeps the invariant: one step of the proof per action. *)
LEMMA InvNext == IInv /\ [Next]_vars => IInv'
<1> SUFFICES ASSUME IInv, [Next]_vars PROVE IInv'
  OBVIOUS
<1>s. bStopOnError' = bStopOnError /\ faults' = faults
  BY SettingsKept
<1> USE CountAssumption, MaxTasksAssumption, <1>s DEF IInv
<1> DEFINE Rest == Consistent' /\ PrintedPrefix' /\ Unwinding' /\ ChildFollowsTask'
                   /\ ResultIsExitCode' /\ ReturnIsClean'
<1>0. Busy => /\ cursor \in 1..Len(queue)
              /\ Current \in Commands
  BY DEF Busy, Current, TypeOK
<1>1. CASE EraseDone
  <2> USE <1>1 DEF EraseDone, cmdVars, countVars
  <2>1. TypeOK'
    <3>1. queue' \in Seq(Commands)
      BY <1>0, RemoveAtType DEF TypeOK
    <3> QED
      BY <1>0, <3>1 DEF TypeOK
  <2>2. CountersAgree'
    BY CountersUnchanged
  <2>3. ChildFollowsTask'
    BY <1>0 DEF ChildFollowsTask, DoneStates, TypeOK
  <2>4. Consistent' /\ PrintedPrefix' /\ Unwinding' /\ ReturnIsClean'
    BY DEF Consistent, PrintedPrefix, Unwinding, ReturnIsClean
  <2>5. ResultIsExitCode'
    BY DEF ResultIsExitCode
  <2> QED
    BY <2>1, <2>2, <2>3, <2>4, <2>5
<1>2. CASE SkipPending \/ PollRunning \/ StartSkip \/ EndTick \/ EndStart
  <2> USE <1>2 DEF SkipPending, PollRunning, StartSkip, EndTick, EndStart,
                   cmdVars, countVars, taskVars, childVars
  <2>1. TypeOK'
    BY DEF TypeOK, PCs
  <2>2. CountersAgree'
    BY CountersUnchanged
  <2>3. UNCHANGED <<cmdVars, countVars, taskVars, childVars>>
    OBVIOUS
  <2>4. Consistent' /\ PrintedPrefix'
    BY <2>3 DEF Consistent, PrintedPrefix
  <2>5. ChildFollowsTask' /\ ResultIsExitCode'
    BY <2>3 DEF ChildFollowsTask, ResultIsExitCode
  <2>6. Unwinding' /\ ReturnIsClean'
    BY DEF Unwinding, ReturnIsClean
  <2> QED
    BY <2>1, <2>2, <2>4, <2>5, <2>6
<1>3. CASE PollDone
  <2> USE <1>3 DEF PollDone, childVars
  <2>1. /\ Current \in Commands /\ link[Current] = "live"
        /\ ExitState(Current) \in DoneStates
        /\ child[Current] \in {"none", "running", "ok", "error"}
    BY <1>0 DEF Consistent, ExitState, DoneStates, TypeOK
  <2>2. CountersAgree' /\ active' \in Nat /\ errorCount' \in Nat
    BY <2>1, CommandDoneCounts
  <2>3. /\ Consistent' /\ PrintedPrefix' /\ bFinished' \subseteq Commands
        /\ result' \in [Commands -> {"unset", "running", "ok", "error"}]
        /\ link' \in [Commands -> {"none", "live", "freed", "leaked"}]
        /\ tstate' \in [Commands -> TaskStates]
    BY <2>1, CommandDoneInv
  <2>4. pc' = "tick" /\ cursor' = cursor + 1
    BY <2>1 DEF CommandDone
  <2>5. TypeOK'
    BY <2>2, <2>3, <2>4 DEF TypeOK, PCs
  <2>6. Unwinding' /\ ReturnIsClean'
    BY <2>4 DEF Unwinding, ReturnIsClean
  <2>7. ChildFollowsTask'
    BY <2>1 DEF ChildFollowsTask, TypeOK, DoneStates
  <2>8. ResultIsExitCode'
    <3> SUFFICES ASSUME NEW c \in bFinished'
                 PROVE  /\ tstate'[c] = "Succeeded" <=> result'[c] = "ok"
                        /\ result'[c] = "ok" => child[c] = "ok"
                        /\ "early" \notin faults
                             => result'[c] = "unset" \/ result'[c] = child[c]
      BY DEF ResultIsExitCode
    <3>1. CASE c = Current
      <4>1. child[c] # "none" /\ c \in Commands
        BY <2>1, <3>1 DEF ChildFollowsTask
      <4>2. result'[c] = child[c] /\ tstate'[c] = ExitState(c)
        BY <2>1, <3>1, <4>1 DEF CommandDone, TypeOK
      <4> QED
        BY <4>2 DEF ExitState
    <3>2. CASE c # Current
      <4>1. c \in bFinished /\ result'[c] = result[c] /\ tstate'[c] = tstate[c]
        BY <2>1, <3>2 DEF CommandDone, TypeOK
      <4> QED
        BY <4>1 DEF ResultIsExitCode
    <3> QED
      BY <3>1, <3>2
  <2> QED
    BY <2>2, <2>3, <2>5, <2>6, <2>7, <2>8
<1>4. CASE StartTask
  <2> USE <1>4 DEF StartTask, cmdVars, countVars
  <2>1. TypeOK'
    BY <1>0 DEF TypeOK, TaskStates
  <2>2. CountersAgree'
    BY <1>0, CountersUnchanged DEF TypeOK, Consistent, DoneStates
  <2>3. Current \in Commands /\ tstate[Current] = "Pending"
    BY <1>0
  <2>4. Consistent' /\ PrintedPrefix' /\ Unwinding' /\ ReturnIsClean'
    BY <2>3 DEF Consistent, PrintedPrefix, Unwinding, ReturnIsClean, DoneStates, TypeOK
  <2>5. ChildFollowsTask'
    BY <2>3 DEF ChildFollowsTask, TypeOK, DoneStates
  <2>6. ResultIsExitCode'
    BY <2>3 DEF ResultIsExitCode, Consistent, DoneStates, TypeOK
  <2> QED
    BY <2>1, <2>2, <2>4, <2>5, <2>6
<1>5. CASE SpawnFails
  <2> USE <1>5 DEF SpawnFails, childVars
  <2>1. Current \in Commands /\ link[Current] = "live" /\ "Failed" \in DoneStates
    BY <1>0 DEF Consistent, DoneStates
  <2>2. CountersAgree' /\ active' \in Nat /\ errorCount' \in Nat
    BY <2>1, CommandDoneCounts
  <2>3. /\ Consistent' /\ PrintedPrefix' /\ bFinished' \subseteq Commands
        /\ result' \in [Commands -> {"unset", "running", "ok", "error"}]
        /\ link' \in [Commands -> {"none", "live", "freed", "leaked"}]
        /\ tstate' \in [Commands -> TaskStates]
    BY <2>1, CommandDoneInv
  <2>4. /\ pc' = "unwind" /\ link'[Current] = "freed" /\ tstate'[Current] = "Failed"
        /\ Busy' /\ Current' = Current
    BY <2>1 DEF CommandDone, Busy, Current, TypeOK
  <2>5. TypeOK'
    BY <2>2, <2>3, <2>4 DEF TypeOK, PCs
  <2>6. Unwinding' /\ ReturnIsClean'
    BY <2>4 DEF Unwinding, ReturnIsClean
  <2>7. ChildFollowsTask'
    BY <2>1 DEF ChildFollowsTask, TypeOK
  <2>8. ResultIsExitCode'
    <3>1. bFinished' = bFinished \cup {Current} /\ result' = result
      BY <2>1 DEF CommandDone
    <3>2. tstate'[Current] = "Failed" /\ result[Current] = "unset"
      BY <2>1 DEF TypeOK, Consistent, DoneStates
    <3> QED
      BY <2>1, <3>1, <3>2 DEF ResultIsExitCode, TypeOK
  <2> QED
    BY <2>2, <2>3, <2>5, <2>6, <2>7, <2>8
<1>6. CASE UnwindCallback
  <2> USE <1>6 DEF UnwindCallback, childVars
  <2>1. pc' = "crashed" /\ UNCHANGED <<active, bFinished, errorCount, result, link>>
    BY DEF CommandDone, Unwinding
  <2>2. TypeOK'
    BY <2>1 DEF TypeOK, PCs
  <2>3. CountersAgree'
    BY <2>1, CountersUnchanged
  <2>4. Rest
    BY <2>1 DEF Consistent, PrintedPrefix, Unwinding, ChildFollowsTask,
                ResultIsExitCode, ReturnIsClean
  <2> QED
    BY <2>2, <2>3, <2>4
<1>7. CASE PrintLoop
  <2> USE <1>7 DEF PrintLoop, PrintResult, EndPrint, NextToPrint,
                   cmdVars, countVars, taskVars, childVars
  <2>1. TypeOK' /\ PrintedPrefix'
    <3>1. CASE PrintResult
      <4>1. printed + 1 \in Commands
        BY <3>1 DEF TypeOK
      <4>2. TypeOK'
        BY <3>1, <4>1 DEF TypeOK, Commands
      <4>3. bResultPrinted' = 1..printed'
        BY <3>1 DEF PrintedPrefix, TypeOK
      <4>4. bTitlePrinted' \subseteq 1..(printed' + 1)
        BY <3>1 DEF PrintedPrefix, TypeOK
      <4> QED
        BY <3>1, <4>2, <4>3, <4>4 DEF PrintedPrefix
    <3>2. CASE EndPrint
      <4>1. TypeOK'
        BY <3>2 DEF TypeOK, PCs
      <4> QED
        BY <3>2, <4>1 DEF PrintedPrefix, TypeOK
    <3> QED
      BY <3>1, <3>2
  <2>2. CountersAgree'
    BY CountersUnchanged
  <2>3. pc' # "unwind" /\ pc' # "crashed" /\ pc' # "returned"
    OBVIOUS
  <2>4. Consistent' /\ Unwinding' /\ ChildFollowsTask' /\ ResultIsExitCode' /\ ReturnIsClean'
    BY <2>3, ZenonT(60) DEF Consistent, Unwinding, ChildFollowsTask, ResultIsExitCode, ReturnIsClean
  <2> QED
    BY <2>1, <2>2, <2>3, <2>4
<1>8. CASE DispatchNext \/ DispatchNotQueued
  <2> USE <1>8 DEF DispatchNext, DispatchNotQueued, CountDispatch, CanDispatch, childVars
  <2> DEFINE d == dispatched + 1
  <2>1. d \in Commands /\ d \notin bDispatched /\ link[d] = "none"
        /\ tstate[d] = "Unqueued" /\ link'[d] \in {"live", "leaked"}
    <3>1. d \in Commands /\ d \notin bDispatched
      BY DEF TypeOK, Consistent, Commands
    <3>2. link[d] = "none" /\ d \notin bFinished
      BY <3>1 DEF Consistent
    <3>3. tstate[d] = "Unqueued"
      BY <3>1, <3>2 DEF Consistent, TypeOK, TaskStates
    <3> QED
      BY <3>1, <3>2, <3>3 DEF TypeOK
  <2>2. TypeOK'
    <3>1. queue' \in Seq(Commands)
      <4>1. queue' = queue \/ queue' = Append(queue, d)
        OBVIOUS
      <4>2. queue \in Seq(Commands)
        BY DEF TypeOK
      <4> HIDE DEF d
      <4> QED
        BY ONLY <2>1, <4>1, <4>2, AppendProperties
    <3>2. dispatched' \in 0..NumCommands /\ active' \in Nat
      BY DEF TypeOK
    <3>3. /\ tstate' \in [Commands -> TaskStates]
          /\ link' \in [Commands -> {"none", "live", "freed", "leaked"}]
      BY <2>1 DEF TypeOK, TaskStates
    <3>4. bDispatched' \subseteq Commands
      BY <2>1 DEF TypeOK
    <3> QED
      BY <3>1, <3>2, <3>3, <3>4 DEF TypeOK, PCs
  <2>3. CountersAgree'
    <3>1. Outstanding' = Outstanding \cup {d} /\ d \notin Outstanding
      BY <2>1 DEF Outstanding, TypeOK
    <3>2. IsFiniteSet(Outstanding) /\ Cardinality(Outstanding) \in Nat
      BY FiniteSubsets DEF Outstanding
    <3>3. Cardinality(Outstanding') = Cardinality(Outstanding) + 1
      BY <3>1, <3>2, FS_AddElement
    <3>4. FailedCommands' = FailedCommands
      BY <2>1, ZenonT(60) DEF FailedCommands, TypeOK, Consistent, DoneStates
    <3> QED
      BY <3>3, <3>4 DEF CountersAgree, TypeOK
  <2>4. Consistent'
    <3>1. bDispatched' = 1..dispatched'
      <4>1. bDispatched' = (1..dispatched) \cup {dispatched + 1} /\ dispatched' = dispatched + 1
        BY DEF Consistent
      <4>2. dispatched \in Nat
        BY DEF TypeOK
      <4> QED
        BY <4>1, <4>2
    <3>2. ASSUME NEW c \in Commands
          PROVE  /\ link'[c] = "none" <=> c \notin bDispatched'
                 /\ link'[c] = "live" <=> tstate'[c] \in {"Pending", "Running"}
                 /\ link'[c] = "freed" <=> c \in bFinished'
                 /\ c \in bFinished' <=> tstate'[c] \in DoneStates
                 /\ c \notin bFinished' => result'[c] = "unset"
      <4>1. CASE c = d
        BY <2>1, <4>1 DEF Consistent, TypeOK, DoneStates
      <4>2. CASE c # d
        <5>1. link'[c] = link[c] /\ tstate'[c] = tstate[c]
          BY <4>2 DEF TypeOK
        <5> QED
          BY <4>2, <5>1 DEF Consistent
      <4> QED
        BY <4>1, <4>2
    <3> QED
      BY <3>1, <3>2 DEF Consistent
  <2>5. PrintedPrefix' /\ Unwinding' /\ ReturnIsClean'
    BY DEF PrintedPrefix, Unwinding, ReturnIsClean
  <2>6. ChildFollowsTask'
    BY <2>1 DEF ChildFollowsTask, TypeOK
  <2>7. ResultIsExitCode'
    <3>1. \A c \in bFinished : c # d /\ c \in Commands
      BY <2>1 DEF Consistent, DoneStates, TypeOK
    <3>2. \A c \in bFinished : tstate'[c] = tstate[c]
      BY <3>1 DEF TypeOK
    <3> QED
      BY <3>2 DEF ResultIsExitCode
  <2> QED
    BY <2>2, <2>3, <2>4, <2>5, <2>6, <2>7
<1>9. CASE Return
  <2> USE <1>9 DEF Return, cmdVars, countVars, taskVars, childVars
  <2>1. TypeOK'
    BY DEF TypeOK, PCs
  <2>2. CountersAgree'
    BY CountersUnchanged
  <2>3. Outstanding = {}
    BY FiniteSubsets, FS_EmptySet DEF Outstanding, CountersAgree, AllDone
  <2>4. \A c \in Commands : link[c] \in {"none", "freed"}
    BY <2>3 DEF Outstanding, TypeOK
  <2>5. bDispatched = bFinished
    BY <2>4 DEF Consistent, TypeOK
  <2>6. printed = dispatched
    BY DEF AllDone, PrintedPrefix, Consistent, TypeOK, Stopped, Commands
  <2>7. bDispatched = Commands \/ (bStopOnError /\ FailedCommands # {})
    <3>1. CASE Stopped
      BY <3>1, FS_EmptySet DEF Stopped, CountersAgree
    <3>2. CASE ~Stopped
      BY <3>2, <2>6 DEF AllDone, Consistent, Commands
    <3> QED
      BY <3>1, <3>2
  <2>8. ReturnIsClean'
    <3>1. bDispatched = bResultPrinted
      BY <2>6 DEF Consistent, PrintedPrefix
    <3> QED
      BY <2>4, <2>5, <2>7, <3>1 DEF ReturnIsClean, FailedCommands
  <2>9. Consistent' /\ PrintedPrefix' /\ Unwinding' /\ ChildFollowsTask' /\ ResultIsExitCode'
    BY DEF Consistent, PrintedPrefix, Unwinding, ChildFollowsTask, ResultIsExitCode
  <2> QED
    BY <2>1, <2>2, <2>8, <2>9
<1>10. CASE LoopAgain \/ UNCHANGED vars
  <2> USE <1>10 DEF LoopAgain, vars, cmdVars, countVars, taskVars, childVars
  <2>1. TypeOK'
    BY DEF TypeOK, PCs
  <2>2. CountersAgree'
    BY CountersUnchanged
  <2> UNCHANGED <<cmdVars, countVars, taskVars, childVars>>
    OBVIOUS
  <2>3. /\ Consistent' /\ PrintedPrefix'
        /\ ChildFollowsTask' /\ ResultIsExitCode'
    <3>1. Consistent' /\ PrintedPrefix'
      BY DEF Consistent, PrintedPrefix
    <3> QED
      BY <3>1 DEF ChildFollowsTask, ResultIsExitCode
  <2>4. Unwinding' /\ ReturnIsClean'
    BY DEF Unwinding, Busy, Current, ReturnIsClean, FailedCommands
  <2> QED
    BY <2>1, <2>2, <2>3, <2>4
<1>11. CASE \E c \in Commands : ChildExits(c) \/ IoThreadDone(c)
  <2> PICK c \in Commands : ChildExits(c) \/ IoThreadDone(c)
    BY <1>11
  <2> USE DEF ChildExits, IoThreadDone, cmdVars, countVars, taskVars
  <2>1. TypeOK'
    BY DEF TypeOK
  <2>2. CountersAgree'
    BY CountersUnchanged
  <2>3. ChildFollowsTask'
    BY DEF ChildFollowsTask, TypeOK
  <2>4. ResultIsExitCode'
    <3> SUFFICES ASSUME NEW f \in bFinished
                 PROVE  /\ result[f] = "ok" => child'[f] = "ok"
                        /\ "early" \notin faults
                             => result[f] = "unset" \/ result[f] = child'[f]
      BY DEF ResultIsExitCode
    <3>1. f \in Commands /\ tstate[f] \in DoneStates
      BY DEF Consistent, TypeOK
    <3>2. CASE child'[f] = child[f]
      BY <3>2 DEF ResultIsExitCode
    <3>3. CASE child'[f] # child[f]
      <4>1. child[f] = "running"
        BY <3>1, <3>3 DEF TypeOK
      <4>2. "early" \in faults
        BY <3>1, <4>1 DEF ChildFollowsTask, DoneStates
      <4> QED
        BY <4>1, <4>2 DEF ResultIsExitCode
    <3> QED
      BY <3>2, <3>3
  <2>5. Consistent' /\ PrintedPrefix' /\ Unwinding' /\ ReturnIsClean'
    <3>1. Consistent' /\ PrintedPrefix'
      BY DEF Consistent, PrintedPrefix
    <3> QED
      BY <3>1 DEF Unwinding, Busy, Current, ReturnIsClean, FailedCommands
  <2> QED
    BY <2>1, <2>2, <2>3, <2>4, <2>5
<1> QED
  BY <1>1, <1>2, <1>3, <1>4, <1>5, <1>6, <1>7, <1>8, <1>9, <1>10, <1>11
     DEF Next, Main, TasksTick, Dispatch

----------------------------------------------------------------------------
(* The invariant of buildCommands_dispatch, its task queue and its         *)
(* children holds in every reachable state.                                *)
THEOREM Invariance == Spec => []IInv
<1>1. Init => IInv
  BY InvInit
<1>2. IInv /\ [Next]_vars => IInv'
  BY InvNext
<1> QED
  BY <1>1, <1>2, PTL DEF Spec

(* active and errorCount count the outstanding and the failed commands,    *)
(* and active never passes maxTasks.                                       *)
THEOREM CountersAlwaysAgree == Spec => []CountersAgree
<1>1. IInv => CountersAgree
  BY DEF IInv
<1> QED
  BY <1>1, Invariance, PTL

(* dispatch returns only when no task holds a pointer into its frame and   *)
(* everything it dispatched has ended and been printed.                    *)
THEOREM ReturnAlwaysClean == Spec => []ReturnIsClean
<1>1. IInv => ReturnIsClean
  BY DEF IInv
<1> QED
  BY <1>1, Invariance, PTL

(* Titles and results are printed in the order of the list.                *)
THEOREM OutputAlwaysInOrder == Spec => []OutputInOrder
<1>1. IInv => OutputInOrder
  <2> SUFFICES ASSUME IInv PROVE OutputInOrder
    OBVIOUS
  <2>1. \A c \in bTitlePrinted : 1..(c - 1) \subseteq 1..printed
    BY DEF IInv, PrintedPrefix, TypeOK
  <2> QED
    BY <2>1 DEF IInv, PrintedPrefix, OutputInOrder
<1> QED
  BY <1>1, Invariance, PTL

(* Success is reported only for a child that exited with 0.                *)
THEOREM ResultAlwaysExitCode == Spec => []ResultIsExitCode
<1>1. IInv => ResultIsExitCode
  BY DEF IInv
<1> QED
  BY <1>1, Invariance, PTL

(* maxTasks bounds the running children when IO threads are punctual: each *)
(* running child belongs to an outstanding command.                        *)
THEOREM ChildrenAlwaysBounded == Spec => []ChildrenBounded
<1>1. IInv => ChildrenBounded
  <2> SUFFICES ASSUME IInv, "early" \notin faults
               PROVE  Cardinality(RunningChildren) <= MaxTasks
    BY DEF ChildrenBounded
  <2>1. RunningChildren \subseteq Outstanding
    BY DEF IInv, RunningChildren, Outstanding, ChildFollowsTask, Consistent
  <2>2. Cardinality(RunningChildren) <= Cardinality(Outstanding)
    BY <2>1, FiniteSubsets, FS_Subset DEF Outstanding
  <2>3. Cardinality(RunningChildren) \in Nat /\ Cardinality(Outstanding) \in Nat
    BY FiniteSubsets DEF Outstanding, RunningChildren
  <2> QED
    BY <2>2, <2>3, MaxTasksAssumption DEF IInv, CountersAgree
<1> QED
  BY <1>1, Invariance, PTL

(* Only a failing spawn can make task_command_statechanged follow a link   *)
(* it has freed.                                                           *)
THEOREM CallbackAlwaysOnce == Spec => []CallbackOnce
<1>1. IInv => CallbackOnce
  BY DEF IInv, Unwinding, CallbackOnce
<1> QED
  BY <1>1, Invariance, PTL

(* No step changes what a finished command has reported.                   *)
THEOREM FinishedAlwaysFinal == Spec => FinishedIsFinal
<1> DEFINE Keeps == \A c \in bFinished : /\ c \in bFinished'
                                         /\ tstate'[c] = tstate[c]
                                         /\ result'[c] = result[c]
<1>1. IInv /\ [Next]_vars => [Keeps]_vars
  <2> SUFFICES ASSUME IInv, Next, NEW c \in bFinished
               PROVE  /\ c \in bFinished' /\ tstate'[c] = tstate[c]
                      /\ result'[c] = result[c]
    OBVIOUS
  <2>1. c \in Commands /\ tstate[c] \in DoneStates /\ link[c] = "freed" /\ c <= dispatched
    BY DEF IInv, TypeOK, Consistent, Commands
  <2>3. CASE PollDone \/ SpawnFails
    BY <2>1, <2>3 DEF PollDone, SpawnFails, CommandDone, DoneStates, IInv, TypeOK
  <2>4. CASE UnwindCallback
    BY <2>4 DEF UnwindCallback, CommandDone, IInv, Unwinding
  <2>5. CASE StartTask
    BY <2>1, <2>5 DEF StartTask, DoneStates, cmdVars, IInv, TypeOK
  <2>6. CASE DispatchNext
    BY <2>1, <2>6 DEF DispatchNext, CountDispatch, IInv, TypeOK
  <2>7. CASE EraseDone \/ SkipPending \/ PollRunning \/ EndTick \/ StartSkip \/ EndStart
    BY <2>7 DEF EraseDone, SkipPending, PollRunning, EndTick, StartSkip, EndStart,
                cmdVars, taskVars
  <2>8. CASE PrintLoop \/ DispatchNotQueued \/ Return \/ LoopAgain
    BY <2>8 DEF PrintLoop, PrintResult, EndPrint, DispatchNotQueued, CountDispatch,
                Return, LoopAgain, cmdVars, taskVars
  <2>9. CASE \E d \in Commands : ChildExits(d) \/ IoThreadDone(d)
    BY <2>9 DEF ChildExits, IoThreadDone, cmdVars, taskVars
  <2> QED
    BY <2>3, <2>4, <2>5, <2>6, <2>7, <2>8, <2>9 DEF Next, Main, TasksTick, Dispatch
<1> QED
  BY <1>1, Invariance, PTL DEF Spec, FinishedIsFinal

----------------------------------------------------------------------------
(* Refinement: dispatch implements JobRunner.                              *)

(* What the mapped status of the jobs means in terms of the code's state.  *)
LEMMA Mapping ==
  ASSUME IInv
  PROVE  /\ Jobs!Running = Outstanding
         /\ Jobs!Failed = FailedCommands
         /\ Jobs!Ended = bFinished
         /\ Jobs!Started = bDispatched
         /\ Jobs!MustStop <=> Stopped
<1> USE DEF IInv
<1>1. ASSUME NEW c \in Commands
      PROVE  /\ c \in Outstanding <=> c \in bDispatched \ bFinished
             /\ c \in bFinished => c \in bDispatched
             /\ JobStatus(c) = "running" <=> c \in bDispatched \ bFinished
             /\ JobStatus(c) \in {"ok", "failed"} <=> c \in bFinished
             /\ JobStatus(c) = "failed" <=> c \in FailedCommands
  <2>1. /\ c \in Outstanding <=> c \in bDispatched \ bFinished
        /\ c \in bFinished => c \in bDispatched
    BY DEF Consistent, Outstanding, TypeOK
  <2>2. c \in bFinished => tstate[c] \in {"Succeeded", "Failed"}
    BY DEF Consistent, DoneStates
  <2> QED
    BY <2>1, <2>2 DEF JobStatus, FailedCommands
<1>2. Jobs!Running = Outstanding
  BY <1>1 DEF Jobs!Running, Jobs!Jobs, Outstanding, Commands
<1>3. Jobs!Failed = FailedCommands
  BY <1>1 DEF Jobs!Failed, Jobs!Jobs, FailedCommands, Commands, TypeOK
<1>4. Jobs!Ended = bFinished
  BY <1>1 DEF Jobs!Ended, Jobs!Jobs, Commands, TypeOK
<1>5. Jobs!Started = bDispatched
  <2>1. bDispatched = Outstanding \cup bFinished
    BY <1>1 DEF Outstanding, TypeOK
  <2> QED
    BY <1>2, <1>4, <2>1 DEF Jobs!Started
<1>6. Jobs!MustStop <=> Stopped
  <2>1. FailedCommands # {} <=> errorCount > 0
    <3>1. IsFiniteSet(FailedCommands) /\ Cardinality(FailedCommands) \in Nat
      BY FiniteSubsets DEF FailedCommands, TypeOK
    <3> QED
      BY <3>1, FS_EmptySet DEF CountersAgree
  <2> QED
    BY <1>3, <2>1 DEF Jobs!MustStop, Stopped
<1> QED
  BY <1>2, <1>3, <1>4, <1>5, <1>6

(* At the entry of dispatch every job is waiting. *)
LEMMA RefinementInit == Init => Jobs!Init
BY DEF Init, Jobs!Init, Jobs!Jobs, Commands, JobStatus

(* The instance counts as this module does. *)
LEMMA SameCardinality == \A S : Jobs!Cardinality(S) = Cardinality(S)
BY DEF Jobs!Cardinality, Cardinality

(* A step that leaves the flags and the task states alone leaves every     *)
(* job's status alone.                                                     *)
LEMMA StatusUnchanged ==
  ASSUME UNCHANGED <<bDispatched, bFinished>>,
         \A c \in bFinished : tstate'[c] = tstate[c]
  PROVE  [c \in Commands |-> JobStatus(c)]' = [c \in Commands |-> JobStatus(c)]
BY DEF JobStatus

(* A done callback ends the job, with the status of the task's new state.  *)
LEMMA DoneIsEnd ==
  ASSUME IInv, NEW c \in Commands, NEW s \in DoneStates, NEW exit, NEW next,
         link[c] = "live", tstate' = [tstate EXCEPT ![c] = s],
         CommandDone(c, s, exit, next), next # "returned", pc # "returned",
         UNCHANGED <<bStopOnError, bDispatched, printed>>
  PROVE  \E how \in {"ok", "failed"} : Jobs!End(c, how)
<1> DEFINE how == IF s = "Succeeded" THEN "ok" ELSE "failed"
<1>1. c \in bDispatched /\ c \notin bFinished
  BY DEF IInv, Consistent, DoneStates
<1>2. bFinished' = bFinished \cup {c} /\ pc' = next
  BY DEF CommandDone
<1>3. JobStatus(c) = "running"
  BY <1>1 DEF JobStatus
<1>4. ASSUME NEW d \in Commands
      PROVE  JobStatus(d)' = IF d = c THEN how ELSE JobStatus(d)
  BY <1>1, <1>2 DEF JobStatus, DoneStates, IInv, TypeOK
<1>5. [d \in Commands |-> JobStatus(d)]'
        = [[d \in Commands |-> JobStatus(d)] EXCEPT ![c] = how]
  BY <1>4
<1> QED
  BY <1>2, <1>3, <1>5 DEF Jobs!End

(* Every step of dispatch is a step of JobRunner or leaves it unchanged.   *)
LEMMA RefinementStep == IInv /\ [Next]_vars => [Jobs!Next]_(Jobs!vars)
<1> SUFFICES ASSUME IInv, [Next]_vars PROVE [Jobs!Next]_(Jobs!vars)
  OBVIOUS
<1>s. bStopOnError' = bStopOnError
  BY SettingsKept
<1> USE <1>s
<1> DEFINE Quiet == UNCHANGED <<bDispatched, bFinished, printed>>
<1>0. ASSUME Quiet, \A c \in bFinished : tstate'[c] = tstate[c],
             pc' = "returned" <=> pc = "returned"
      PROVE  UNCHANGED Jobs!vars
  BY <1>0, StatusUnchanged DEF Jobs!vars
<1>01. Busy => Current \in Commands
  BY DEF Busy, Current, IInv, TypeOK
<1>02. \A c \in bFinished : c \in Commands /\ tstate[c] \in DoneStates
  BY DEF IInv, Consistent, TypeOK
<1>1. CASE PollDone
  <2>1. /\ Current \in Commands /\ link[Current] = "live"
        /\ ExitState(Current) \in DoneStates
    BY <1>1, <1>01 DEF PollDone, IInv, Consistent, ExitState, DoneStates
  <2>2. \E how \in {"ok", "failed"} : Jobs!End(Current, how)
    BY <1>1, <2>1, DoneIsEnd DEF PollDone
  <2> QED
    BY <2>1, <2>2 DEF Jobs!Next, Jobs!Jobs, Commands
<1>2. CASE SpawnFails
  <2>1. Current \in Commands /\ link[Current] = "live" /\ "Failed" \in DoneStates
    BY <1>2, <1>01 DEF SpawnFails, IInv, Consistent, DoneStates
  <2>2. \E how \in {"ok", "failed"} : Jobs!End(Current, how)
    BY <1>2, <2>1, DoneIsEnd DEF SpawnFails
  <2> QED
    BY <2>1, <2>2 DEF Jobs!Next, Jobs!Jobs, Commands
<1>3. CASE UnwindCallback
  <2>1. Quiet /\ UNCHANGED tstate /\ pc = "unwind" /\ pc' = "crashed"
    BY <1>3 DEF UnwindCallback, CommandDone, IInv, Unwinding
  <2> QED
    BY <1>0, <2>1
<1>4. CASE StartTask
  <2>1. Quiet /\ UNCHANGED pc
    BY <1>4 DEF StartTask, cmdVars, countVars
  <2>2. \A c \in bFinished : tstate'[c] = tstate[c]
    BY <1>4, <1>02 DEF StartTask, DoneStates, IInv, TypeOK
  <2> QED
    BY <1>0, <2>1, <2>2
<1>5. CASE \/ EraseDone \/ SkipPending \/ PollRunning \/ EndTick \/ StartSkip
           \/ EndStart \/ EndPrint \/ LoopAgain \/ UNCHANGED vars
           \/ \E c \in Commands : ChildExits(c) \/ IoThreadDone(c)
  <2>1. /\ Quiet /\ UNCHANGED tstate
        /\ pc' = "returned" <=> pc = "returned"
    BY <1>5 DEF EraseDone, SkipPending, PollRunning, EndTick, StartSkip, EndStart,
                EndPrint, LoopAgain, ChildExits, IoThreadDone,
                vars, cmdVars, countVars, taskVars
  <2> QED
    BY <1>0, <2>1
<1>6. CASE PrintResult
  <2>1. printed + 1 \in Jobs!Ended
    BY <1>6, Mapping DEF PrintResult, NextToPrint
  <2>2. UNCHANGED <<bDispatched, bFinished, tstate, pc>> /\ pc = "print"
    BY <1>6 DEF PrintResult, taskVars
  <2>3. Jobs!Report
    BY <1>6, <2>1, <2>2, StatusUnchanged DEF Jobs!Report, PrintResult
  <2> QED
    BY <2>3 DEF Jobs!Next
<1>7. CASE DispatchNext \/ DispatchNotQueued
  <2> DEFINE d == dispatched + 1
  <2>1. /\ d \in Commands /\ bDispatched = 1..(d - 1)
        /\ bDispatched' = bDispatched \cup {d}
        /\ UNCHANGED <<bFinished, printed>>
        /\ pc = "dispatch" /\ pc' = "tick" /\ CanDispatch
    <3>1. /\ bDispatched' = bDispatched \cup {d} /\ UNCHANGED <<bFinished, printed>>
          /\ pc = "dispatch" /\ pc' = "tick" /\ CanDispatch
      BY <1>7 DEF DispatchNext, DispatchNotQueued, CountDispatch
    <3>2. dispatched \in Nat /\ bDispatched = 1..dispatched
      BY DEF IInv, TypeOK, Consistent
    <3>3. d \in Commands
      BY <3>1, <3>2, CountAssumption DEF CanDispatch, Commands
    <3>4. d - 1 = dispatched
      BY <3>2
    <3> QED
      BY <3>1, <3>2, <3>3, <3>4
  <2>2. d \notin bDispatched
    BY <2>1 DEF IInv, TypeOK
  <2>3. d \notin bFinished /\ \A c \in bFinished : tstate'[c] = tstate[c]
    <3>1. d \notin bFinished
      BY <2>1, <2>2 DEF IInv, Consistent
    <3> QED
      BY <1>7, <1>02, <3>1 DEF DispatchNext, DispatchNotQueued, IInv, TypeOK
  <2>4. \A c \in Commands : JobStatus(c)' = IF c = d THEN "running" ELSE JobStatus(c)
    BY <2>1, <2>2, <2>3 DEF JobStatus
  <2>5. [c \in Commands |-> JobStatus(c)]'
          = [[c \in Commands |-> JobStatus(c)] EXCEPT ![d] = "running"]
    BY <2>4
  <2>6. Jobs!Cardinality(Jobs!Running) < MaxTasks /\ ~Jobs!MustStop /\ Jobs!Started = 1..(d - 1)
    BY <2>1, Mapping, SameCardinality DEF CanDispatch, IInv, CountersAgree
  <2>7. Jobs!Start(d)
    <3> HIDE DEF d
    <3> QED
      BY <2>1, <2>5, <2>6 DEF Jobs!Start
  <2> QED
    BY <2>1, <2>7 DEF Jobs!Next, Jobs!Jobs, Commands
<1>8. CASE Return
  <2>1. IInv'
    BY InvNext
  <2>2. ReturnIsClean' /\ PrintedPrefix' /\ pc = "dispatch" /\ pc' = "returned"
        /\ UNCHANGED <<bDispatched, bFinished, bResultPrinted, printed, tstate, link>>
    BY <1>8, <2>1 DEF IInv, Return, cmdVars, countVars, taskVars
  <2>3. /\ bDispatched = bFinished /\ bDispatched = 1..printed
        /\ bDispatched = Commands \/ (bStopOnError /\ FailedCommands # {})
    BY <2>2 DEF ReturnIsClean, PrintedPrefix, FailedCommands
  <2>4. Jobs!Running = {}
    BY <1>8, Mapping, FiniteSubsets, FS_EmptySet
       DEF Return, AllDone, IInv, CountersAgree, Outstanding
  <2>5. Jobs!Started = 1..printed /\ (Jobs!MustStop \/ Jobs!Started = Jobs!Jobs)
    BY <2>3, Mapping DEF Jobs!MustStop, Jobs!Jobs, Commands
  <2>6. Jobs!Return
    BY <2>2, <2>4, <2>5, StatusUnchanged DEF Jobs!Return
  <2> QED
    BY <2>6 DEF Jobs!Next
<1> QED
  BY <1>1, <1>2, <1>3, <1>4, <1>5, <1>6, <1>7, <1>8
     DEF Next, Main, TasksTick, PrintLoop, Dispatch

(* buildCommands_dispatch, with its queue, callbacks and children,         *)
(* implements JobRunner: jobs start in order, at most maxTasks at once and *)
(* none after a failure that must stop the list, end once, are reported in *)
(* order, and the call returns when everything it started is reported.     *)
THEOREM Refinement == Spec => ImplementsJobRunner
<1>1. IInv /\ [Next]_vars => [Jobs!Next]_(Jobs!vars)
  BY RefinementStep
<1> QED
  BY <1>1, RefinementInit, Invariance, PTL DEF Spec, ImplementsJobRunner, Jobs!Spec
=============================================================================
