----------------------------- MODULE ProcessIO -----------------------------
(***************************************************************************)
(* A tracked process (src/process_utils.c, Windows): process_spawn starts  *)
(* the child and the IO thread, process_io_thread drains the two pipes     *)
(* into stdoutThread and stderrThread, process_tick moves these to the     *)
(* buffers the caller reads and reports the exit code, process_free stops  *)
(* and joins the thread.  Three actors: the child, the IO thread, and the  *)
(* main thread; cs makes each read and each copy one step.                 *)
(*                                                                         *)
(* A pipe carries chunks, numbered in the order the child writes them.     *)
(***************************************************************************)
EXTENDS Naturals, Sequences

CONSTANTS MaxChunks,   \* most chunks the child writes to a stream
          PipeSize,    \* chunks a pipe holds before a write blocks
          FaultSets    \* which of the failures below may happen together

(* "race": the IO thread runs before process_spawn has set threadWanted.   *)
(* "thread": bbthread_create fails.  "close": the child closes a stream and*)
(* goes on.  "alloc": bba_reserve fails.                                   *)
AllFaults == {"race", "thread", "close", "alloc"}

ASSUME MaxChunksAssumption == MaxChunks \in Nat
ASSUME PipeSizeAssumption == PipeSize \in Nat \ {0}
ASSUME FaultSetsAssumption == FaultSets \subseteq SUBSET AllFaults

Streams == {"out", "err"}

VARIABLES
  faults,                   \* which of the failures above may happen
  child,                    \* "running", or how it exited
  total, wrote, open,       \* per stream: chunks it will write, has written; write end open
  pipe,                     \* per stream: what is in the pipe
  threadBuf, mainBuf,       \* stdoutThread/stderrThread, stdoutBuffer/stderrBuffer
  threadWanted, threadDone, \* the flags of win32Process_t
  io, avail,                \* IO thread: where it is, nBytesAvailable
  main, done, exitCode      \* main thread: where it is; process_t

childVars == <<faults, child, total, wrote, open>>
flagVars == <<threadWanted, threadDone>>
ioVars == <<io, avail>>
mainVars == <<main, done, exitCode>>
vars == <<childVars, pipe, threadBuf, mainBuf, flagVars, ioVars, mainVars>>

Chunks == 1..MaxChunks
Written(s) == [k \in 1..wrote[s] |-> k]

TypeOK ==
  /\ faults \subseteq AllFaults
  /\ child \in {"running", "ok", "error"}
  /\ total \in [Streams -> 0..MaxChunks] /\ wrote \in [Streams -> 0..MaxChunks]
  /\ open \in [Streams -> BOOLEAN]
  /\ pipe \in [Streams -> Seq(Chunks)]
  /\ threadBuf \in [Streams -> Seq(Chunks)] /\ mainBuf \in [Streams -> Seq(Chunks)]
  /\ threadWanted \in BOOLEAN /\ threadDone \in BOOLEAN
  /\ io \in {"none", "loop", "peek out", "read out", "peek err", "read err", "exited"}
  /\ avail \in 0..MaxChunks
  /\ main \in {"create", "want", "idle", "copy out", "copy err", "report",
               "over", "join", "freed"}
  /\ done \in BOOLEAN
  /\ exitCode \in {"none", "running", "ok", "error"}

(* CreateProcess has succeeded and win32Process_t is zeroed. *)
Init ==
  /\ faults \in FaultSets
  /\ child = "running"
  /\ total \in [Streams -> 0..MaxChunks]
  /\ wrote = [s \in Streams |-> 0]
  /\ open = [s \in Streams |-> TRUE]
  /\ pipe = [s \in Streams |-> <<>>]
  /\ threadBuf = [s \in Streams |-> <<>>] /\ mainBuf = [s \in Streams |-> <<>>]
  /\ threadWanted = FALSE /\ threadDone = FALSE
  /\ io = "none" /\ avail = 0
  /\ main = "create" /\ done = FALSE /\ exitCode = "none"

----------------------------------------------------------------------------
(* The child. *)

(* A write blocks while the pipe is full. *)
ChildWrites(s) ==
  /\ child = "running" /\ open[s] /\ main # "freed"
  /\ wrote[s] < total[s] /\ Len(pipe[s]) < PipeSize
  /\ wrote' = [wrote EXCEPT ![s] = @ + 1]
  /\ pipe' = [pipe EXCEPT ![s] = Append(@, wrote[s] + 1)]
  /\ UNCHANGED <<faults, child, total, open, threadBuf, mainBuf, flagVars, ioVars, mainVars>>

ChildCloses(s) ==
  /\ "close" \in faults
  /\ child = "running" /\ open[s] /\ wrote[s] = total[s]
  /\ open' = [open EXCEPT ![s] = FALSE]
  /\ UNCHANGED <<faults, child, total, wrote, pipe, threadBuf, mainBuf, flagVars, ioVars, mainVars>>

(* The child exits when it has written all it had to; no other process     *)
(* holds the write ends, as process_spawn closes its own.                  *)
ChildExits ==
  /\ child = "running" /\ wrote = total
  /\ child' \in {"ok", "error"}
  /\ open' = [s \in Streams |-> FALSE]
  /\ UNCHANGED <<faults, total, wrote, pipe, threadBuf, mainBuf, flagVars, ioVars, mainVars>>

----------------------------------------------------------------------------
(* process_io_thread: while(threadWanted) look at stdout, and if nothing   *)
(* was read there look at stderr.                                          *)

Peek(s) == IF s = "out" THEN "peek out" ELSE "peek err"
Read(s) == IF s = "out" THEN "read out" ELSE "read err"
AfterNothing(s) == IF s = "out" THEN "peek err" ELSE "loop"

IoLoop ==
  /\ io = "loop" /\ threadWanted
  /\ io' = "peek out"
  /\ UNCHANGED <<childVars, pipe, threadBuf, mainBuf, flagVars, avail, mainVars>>

IoExit ==
  /\ io = "loop" /\ ~threadWanted
  /\ main = "want" => "race" \in faults
  /\ io' = "exited"
  /\ threadDone' = TRUE
  /\ UNCHANGED <<childVars, pipe, threadBuf, mainBuf, threadWanted, avail, mainVars>>

(* PeekNamedPipe finds bytes. *)
PeekSome(s) ==
  /\ io = Peek(s) /\ pipe[s] # <<>>
  /\ avail' = Len(pipe[s])
  /\ io' = Read(s)
  /\ UNCHANGED <<childVars, pipe, threadBuf, mainBuf, flagVars, mainVars>>

(* Faulty variants, here and below: bugs the next definition could have    *)
(* had, and no part of the model.                                          *)
NoneIsDone(s) ==
  /\ io = Peek(s) /\ pipe[s] = <<>> /\ open[s]
  /\ threadDone' = TRUE
  /\ io' = AfterNothing(s)
  /\ UNCHANGED <<childVars, pipe, threadBuf, mainBuf, threadWanted, avail, mainVars>>

(* It finds none, and the pipe is open. *)
PeekNone(s) ==
  /\ io = Peek(s) /\ pipe[s] = <<>> /\ open[s]
  /\ io' = AfterNothing(s)
  /\ UNCHANGED <<childVars, pipe, threadBuf, mainBuf, flagVars, avail, mainVars>>

BrokenIsNothing(s) ==
  /\ io = Peek(s) /\ pipe[s] = <<>> /\ ~open[s]
  /\ io' = AfterNothing(s)
  /\ UNCHANGED <<childVars, pipe, threadBuf, mainBuf, flagVars, avail, mainVars>>

(* It fails with ERROR_BROKEN_PIPE. *)
PeekBroken(s) ==
  /\ io = Peek(s) /\ pipe[s] = <<>> /\ ~open[s]
  /\ threadDone' = TRUE
  /\ io' = AfterNothing(s)
  /\ UNCHANGED <<childVars, pipe, threadBuf, mainBuf, threadWanted, avail, mainVars>>

ReadDropsLateBytes(s) ==
  /\ io = Read(s)
  /\ threadBuf' = [threadBuf EXCEPT ![s] = @ \o SubSeq(pipe[s], 1, avail)]
  /\ pipe' = [pipe EXCEPT ![s] = <<>>]
  /\ io' = "loop"
  /\ UNCHANGED <<childVars, mainBuf, flagVars, avail, mainVars>>

(* ReadFile takes nBytesAvailable bytes, under cs. *)
ReadPipe(s) ==
  /\ io = Read(s)
  /\ threadBuf' = [threadBuf EXCEPT ![s] = @ \o SubSeq(pipe[s], 1, avail)]
  /\ pipe' = [pipe EXCEPT ![s] = SubSeq(@, avail + 1, Len(@))]
  /\ io' = "loop"
  /\ UNCHANGED <<childVars, mainBuf, flagVars, avail, mainVars>>

ReadNoMemory(s) ==
  /\ "alloc" \in faults
  /\ io = Read(s)
  /\ io' = AfterNothing(s)
  /\ UNCHANGED <<childVars, pipe, threadBuf, mainBuf, flagVars, avail, mainVars>>

----------------------------------------------------------------------------
(* The main thread. *)

(* process_spawn: the thread is created before threadWanted is set. *)
CreateThread ==
  /\ main = "create"
  /\ io' = "loop" /\ main' = "want"
  /\ UNCHANGED <<childVars, pipe, threadBuf, mainBuf, flagVars, avail, done, exitCode>>

(* hThread is 0, and nobody looks at it before process_free. *)
CreateThreadFails ==
  /\ "thread" \in faults
  /\ main = "create" /\ main' = "want"
  /\ UNCHANGED <<childVars, pipe, threadBuf, mainBuf, flagVars, ioVars, done, exitCode>>

WantThread ==
  /\ main = "want"
  /\ threadWanted' = TRUE /\ main' = "idle"
  /\ UNCHANGED <<childVars, pipe, threadBuf, mainBuf, threadDone, ioVars, done, exitCode>>

(* process_tick looks at threadDone before it looks at the buffers ... *)
TickBegins ==
  /\ main = "idle"
  /\ done' = (done \/ threadDone)
  /\ main' = "copy out"
  /\ UNCHANGED <<childVars, pipe, threadBuf, mainBuf, flagVars, ioVars, exitCode>>

(* ... moves what the IO thread has read so far ... *)
Copy(s, from, to) ==
  /\ main = from
  /\ mainBuf' = [mainBuf EXCEPT ![s] = @ \o threadBuf[s]]
  /\ threadBuf' = [threadBuf EXCEPT ![s] = <<>>]
  /\ main' = to
  /\ UNCHANGED <<childVars, pipe, flagVars, ioVars, done, exitCode>>

CopyOut == Copy("out", "copy out", "copy err")
CopyErr == Copy("err", "copy err", "report")

CopyNoMemory ==
  /\ "alloc" \in faults
  /\ \/ main = "copy out" /\ main' = "copy err"
     \/ main = "copy err" /\ main' = "report"
  /\ UNCHANGED <<childVars, pipe, threadBuf, mainBuf, flagVars, ioVars, done, exitCode>>

ReportsLateDone ==
  /\ main = "report"
  /\ done' = (done \/ threadDone)
  /\ exitCode' = IF done' THEN child ELSE exitCode
  /\ main' = IF done' THEN "over" ELSE "idle"
  /\ UNCHANGED <<childVars, pipe, threadBuf, mainBuf, flagVars, ioVars>>

(* ... and, once done, asks for the exit code; a running child gives       *)
(* STILL_ACTIVE.                                                           *)
TickReports ==
  /\ main = "report"
  /\ exitCode' = IF done THEN child ELSE exitCode
  /\ main' = IF done THEN "over" ELSE "idle"
  /\ UNCHANGED <<childVars, pipe, threadBuf, mainBuf, flagVars, ioVars, done>>

(* process_free, which joins a thread there is ... *)
Free ==
  /\ threadWanted' = IF io = "none" THEN threadWanted ELSE FALSE
  /\ main' = IF io = "none" THEN "freed" ELSE "join"
  /\ UNCHANGED <<childVars, pipe, threadBuf, mainBuf, threadDone, ioVars, done, exitCode>>

(* ... after done or, from tasks_shutdown, at any time before. *)
FreeBegins == main = "over" /\ Free
Shutdown == main = "idle" /\ Free

Joined ==
  /\ main = "join" /\ io = "exited"
  /\ main' = "freed"
  /\ UNCHANGED <<childVars, pipe, threadBuf, mainBuf, flagVars, ioVars, done, exitCode>>

----------------------------------------------------------------------------
Child == ChildExits \/ \E s \in Streams : ChildWrites(s) \/ ChildCloses(s)

IoThread ==
  \/ IoLoop \/ IoExit
  \/ \E s \in Streams : \/ PeekSome(s) \/ PeekNone(s) \/ PeekBroken(s)
                        \/ ReadPipe(s) \/ ReadNoMemory(s)

Tick == TickBegins \/ CopyOut \/ CopyErr \/ CopyNoMemory \/ TickReports
MainThread == CreateThread \/ CreateThreadFails \/ WantThread \/ Tick \/ FreeBegins \/ Joined

Next == Child \/ IoThread \/ MainThread \/ Shutdown

Spec == Init /\ [][Next]_vars

(* Each actor keeps running; the child writes what it has to and exits.    *)
Fairness ==
  /\ WF_vars(IoThread) /\ WF_vars(MainThread)
  /\ WF_vars(ChildExits \/ \E s \in Streams : ChildWrites(s))

FairSpec == Spec /\ Fairness

----------------------------------------------------------------------------
(* Properties.                                                             *)

(* No chunk is lost on the way, doubled or reordered, whatever the timing  *)
(* of reads and copies and whichever allocation fails: what the caller     *)
(* has, what the thread holds and what is in the pipe make up what the     *)
(* child wrote.                                                            *)
NothingLostOnTheWay ==
  \A s \in Streams : mainBuf[s] \o threadBuf[s] \o pipe[s] = Written(s)

(* The thread outran process_spawn: it has ended although nobody asked.    *)
Outran == io = "exited" /\ main \notin {"join", "freed"}

(* The exit code that is reported is the child's, and its own: 259 is seen *)
(* only for a child that has closed a pipe or that the thread never served.*)
ExitCodeIsReal ==
  main = "over" =>
    /\ exitCode # "running" => exitCode = child
    /\ exitCode = "running" =>
         Outran \/ \E s \in Streams : ~open[s]

(* When the process is reported done, the caller has everything the child  *)
(* wrote to at least one of the two streams - not of both - as long as     *)
(* memory lasts and the thread did not outrun process_spawn.               *)
OneStreamComplete ==
  main = "over" /\ ~Outran /\ "alloc" \notin faults =>
    \E s \in Streams : mainBuf[s] = [k \in 1..total[s] |-> k]

(* The count taken without the lock is never more than what the pipe holds *)
(* when it is read under the lock, so that ReadFile does not block there.  *)
ReadsWhatIsThere == \A s \in Streams : io = Read(s) => avail \in 1..Len(pipe[s])

IInv == TypeOK /\ ReadsWhatIsThere /\ NothingLostOnTheWay

(* No thread could be started for the process. *)
Unserved == main # "create" /\ io = "none"

(* The process is eventually reported done, and freed: the child is never  *)
(* blocked for ever on a full pipe, and the join always ends, as long as   *)
(* memory lasts and there is a thread to drain the pipes.                  *)
EndsAndIsFreed == <>(main = "freed" \/ "alloc" \in faults \/ Unserved)
=============================================================================
