# Verification of mc_common

TLA+ models of `mc_common`, a C library shared by several Windows and Linux
tools, TLC instances of the models, and proofs checked by TLAPS.  Paths are
relative to the repository's library directory: `src/tasks.c` stands for
`src/src/tasks.c` of the checkout.

## 1. The system

The library is a set of C files with little global structure.  What has state
and control worth modelling is the *task system* and what runs on it; around it
are sequential services: an updater, build helpers, containers, parsers.

| part | state it keeps | operations | talks to |
|---|---|---|---|
| task queue, `src/tasks.c` | `s_tasks`; of each task `state`, `subtasks`, `parallel` | `task_queue`, `task_queue_subtask`, `task_set_state`, `task_tick_subtasks`, `tasks_tick`, `task_discard`, `tasks_shutdown` | calls each task's `tick`, `stateChanged` and `reset` |
| process task, `src/process_task.c` | a `process_t` per task | `task_process_tick`, `_statechanged`, `_reset` | task queue, processes |
| thread task, `src/thread_task.c` | `threadDesiredState`, a thread handle | `task_thread_tick`, `_statechanged`, `_reset` | task queue, a worker thread |
| DNS task, `src/dns_task.c` | `threadExitState`, a thread handle, the answer | `dns_task_tick`, `_statechanged`, `_reset` | task queue, a resolver thread |
| processes, `src/process_utils.c` (Windows) | pipes, `stdoutThread`/`stderrThread`, `threadWanted`, `threadDone`, `done`, `exitCode` | `process_spawn`, `process_io_thread`, `process_tick`, `process_free`, `process_await` | the child, an IO thread, the main thread |
| threads, `src/bb_thread.c` | none | create, join | everything threaded |
| command runner, `src/mc_build/mc_build_commands.c` | flags per command; `active`, `dispatched`, `printed`, `errorCount` | `buildCommands_push`, `buildCommands_dispatch` | task queue, process task |
| build dependencies, `src/mc_build/mc_build_dependencies.c`, `..._structs_generated.c` | hash chains of dependencies and timestamps | insert, find, remove, `checkDeps`, `queueCommands` | file system, command runner |
| updater, `src/mc_updater/mc_updater.c`, `src/update_utils.c` | installed files, archives, manifest and version file on disk | install a version, publish a build, relaunch | file utilities, miniz |
| file utilities, `src/file_utils.c` | files on disk | read, write, write if changed, replace, delete | updater, build dependencies |
| UUID generator, `src/uuid_rfc4122/uuid.c` | statics for the clock and the last save, a stored state | `uuid_create` | system clock, a file or two callbacks |
| message boxes, `src/message_box.c` | a list whose head is shown | queue, get, remove | user interface |
| bug reporter, `src/mc_callstack/bug_reporter.c` | project strings, a lock, a connection | init, dispatch sync or async, shutdown | UUIDs, detached threads |
| dictionaries and strings, `src/sdict.c`, `sb.c`, `va.c`, `span.c`, `str.c` | arrays, buffers, a ring of sixteen temporaries | add, find, remove, sort, append | everything |
| parsers and text, `src/tokenize.c`, `py_parser.c`, `filter.c`, `cmdline.c`, `path_utils.c` | cursors, a parser state | tokenize, parse, match, resolve | callers |
| random numbers, `src/random_stream.c` | generator state | next, range | callers |
| code generator, `src/mc_preproc` | parsed headers | parse, emit C | at build time only |
| system wrappers, `src/appdata.c`, `env_utils.c`, `time_utils.c`, `output.c`, ... | little or none | I/O | callers |

**How the parts interact.**  One main thread calls `tasks_tick` again and again.
It walks `s_tasks` by index, calling `tick` of the running tasks, erasing the
done ones, and then sets the pending ones running.  A state change calls
`stateChanged`, from inside whatever set the state.  A process task owns a child
and an IO thread; a thread or DNS task owns a worker.  These threads share plain
flags (`threadWanted`, `threadDone`, `threadExitState`, `threadDesiredState`) with the main
thread; only the IO buffers have a lock.  The command runner queues one process
task per command and drives `tasks_tick` itself until everything is done.

**What is hard.**  Callbacks that run inside callbacks and inside a loop that
holds a pointer; flags read and written by two threads; a child that ends, closes
a pipe or fills one at any time; failures of any one step of several; crashes
between writes of files that belong together; a clock that goes back.
`PROJECT.json` lists the hazards at their lines with the properties that cover
them.  Smaller ones that no property covers: the pointer into `s_tasks` that
`tasks_tick` holds over a callback (tasks.c:171; no task under `src/` queues
from one), the ring of sixteen temporaries (va.c:19), the box pointer over a
queue that grows (message_box.c:32), removal by swapping (sdict.c:147), and in
modelled parts, outside their data: 16 against 14 bits of the clock sequence
(uuid.c:95), files of 4 GB (mc_updater.c:123), a `stable` mark set during a
build (mc_updater.c:243), `maxTasks` 0 with commands to run
(mc_build_commands.c:99), which spins for ever.

**What makes each part correct.**

- *Command runner*: jobs start in order and at most `maxTasks` run, each ends
  once, output comes in list order, the call returns with nothing outstanding.
- *Tasks*: sequential subtasks never overlap, a group ends after its last
  subtask with the right state, nothing is called after a reset, everything
  queued ends.
- *Processes*: no byte of output is lost, doubled or reordered; the exit code
  is the child's; no deadlock between a full pipe, the reader and the join.
- *Worker tasks*: task data outlives the worker; the answer is whole.
- *UUIDs*: no two are equal; the clock sequence changes when the clock goes back.
- *Updater*: a version is recorded only when installed; whole files stay whole;
  the next good run repairs what a failed one left.
- *Publishing*: what the manifest announces is whole and never changes; the
  latest version is the newest; a build without failures succeeds.
- *Build dependencies*: what is not compiled is current, a good build leaves a
  program made of current objects, and the build after it does nothing.
- *Bug reporter*: one thread at a time uses the connection, a packet holds what
  it announces, every report that was sent is freed.
- *Text*: the parser reads what was written, however it arrives; a path leads
  where its names lead; tokens and lines are neither lost nor doubled; a range
  of random numbers is fair.

## 2. Modules

| module | models | composed with |
|---|---|---|
| `JobRunner` | the abstract promise of `buildCommands_dispatch` | implemented by `BuildCommands` |
| `BuildCommands` | `mc_build_commands.c` with the task queue, the process task and the child | `JobRunner` through `Jobs == INSTANCE ...` |
| `ProcessIO` | one tracked process: child, IO thread, main thread | its outcomes are the fault `"early"` of `BuildCommands` |
| `Tasks` | trees of tasks and `tasks_tick` | |
| `WorkerTasks` | `dns_task.c` and `thread_task.c` | |
| `Uuid` | `uuid.c` | |
| `Updater` | `mc_updater_do_update` and `file_utils.c` | |
| `CreateBuild` | `mc_updater_create_build` and `update_utils.c` | |
| `BuildDeps` | `mc_build_dependencies.c` over a changing directory | its commands run as `JobRunner` promises |
| `BugReporter` | `bug_reporter.c` with its detached threads | |
| `PyParser` | `py_parser.c` | fed what `ProcessIO` hands over |
| `CommandLine` | `tokenize.c`, `cmdline.c`, `strunescape`, `buildCommands_printBuffer` | |
| `Paths`, `RandomRange` | `path_resolve_inplace`; the ranges of `random_stream.c` | |
| `...Proofs` | theorems about the module they are named after; `ThreadProofs` about `BugReporter` and `WorkerTasks`, `LibraryProofs` about `Uuid` and the last three rows | extend it |
| `MC...` | instances for TLC; `MCText` has the references of the last four parts, and `MCLibrary` puts them and `MCUuid` into one run | extend the module they are named after |

The faulty variants in the modules (`OneTaskTooMany`, `AlwaysPlain`, ...) are
bugs the definition below them could have had.  No action uses them; each
property was seen to fail when one of them replaced the real definition.

### BuildCommands and JobRunner

The main thread is a program counter: `tick` and `start` are the two loops of
`tasks_tick`, `unwind` the outer frame of a nested state callback, `print` and
`dispatch` the two halves of the loop in `buildCommands_dispatch`.  `cursor` is
the index into `s_tasks`; the flags of `buildCommand_t` are sets of commands.
The `buildCommandLink_t` of a command is `none`, `live`, `freed` or `leaked`, which
is what has become of the pointers into the stack frame and into the list; a
callback that follows a freed link goes to `crashed`.  Children exit and IO
threads report between any two steps.  `Init` chooses the stop mode
(`bStopOnError`) and which failures may happen (`faults`): `spawn` (no process),
`alloc` (`s_tasks` cannot grow), `early` (an IO thread reports before its child
has exited; `ProcessIO` shows when).

`JobRunner` knows waiting, running and ended jobs, a count of reported ones, and
whether the call is over.  The refinement mapping takes a command for running
from its dispatch to its done callback.

One consequence: with `spawn`, `task_command_statechanged` runs inside itself -
`task_process_statechanged` sets the task failed, the inner call frees the link
and sets `userData` to NULL, and the outer call asks `task_done` and reads
`link->command` through NULL (mc_build_commands.c:26-29).  `CallbackOnce`
is stated, and proved, for programs without that fault, and only for them.

### ProcessIO

Chunks numbered as the child writes them go from a bounded pipe to the IO
thread's buffer and from there to the caller's.  Peek and read are two steps,
the second under the lock; `process_tick` is four, as it reads `threadDone`,
copies under the lock twice, and then asks for the exit code.  `CreateThread` and
`WantThread` are separate steps, since `process_spawn` sets `threadWanted` after it
has created the thread.  Three things the code does not promise show in the
properties: a process may be reported done with output of *one* stream missing
(`OneStreamComplete`), a thread that outruns `process_spawn` reports exit code
259 and no output (`Outran`), and when `bbthread_create` fails
(process_utils.c:180, fault `thread`) nobody drains the pipes or sets `threadDone`:
the child may block for ever, and the process is only freed when its owner frees
it unasked (`Unserved`).

### Tasks

`kids` are the subtask arrays, `root` the top of a task's tree, `queue` is
`s_tasks`.  A call of `task_tick_subtasks` is a frame on `stack` - subtask index,
whether it was ticked in this turn, states counted so far - so that groups in
groups recurse as in C.  A task is a `leaf`, a `group` (its tick is
`task_tick_subtasks`) or `own` (a tick of its own that calls it, as
`task_process_tick` and `dns_task_tick` do).  Between ticks the program queues, adds
subtasks, late ones too, and shuts down.  A group queued empty never ends;
`QueuedIsReset` names that exception.

### WorkerTasks

One task of either kind and its worker.  For `dns_task` the steps between
`bbthread_create` and `threadExitState = Running` are separate (`CreateThread`,
`MarkRunning`): with `overtake` the worker may report before the main thread
overwrites its report, and the task never ends.  `MustJoin` is the condition under
which a reset joins.

`dns_task_tick` reads the worker's report and then calls `task_tick_subtasks`
(dns_task.c:60).  Of the subtasks `WorkerTasks` knows only what that call may set
the task to (`OfSubtasks`; `Tasks` has the rest).  Two `task_set_state` in one tick
(`Ticked`) make two calls of `finishedFunc` when they set different done states, and
subtasks may end the task while the worker is still pushing addresses: so
`FinishedOnce` allows a task with subtasks a second call, with another state, and
`AnswerIsWhole` vouches, for such a task, only for the first of two.  `reports` is the
sequence of these calls.

### Uuid

`uuid_create` holds `s_uuid_cs` throughout and is one step.  A timestamp is the
clock reading plus the count within the reading; a clock sequence is the draw of
`true_random` it came from and its increments.  A setting is a store (file or
callbacks), a clock, by the units between two readings (`resolution`, fewer than
`UUIDS_PER_TICK` or more), and what may happen (`back`, `crash`, `nowrite`).  A write
that fails, or dies, behind `fopen("wb")` leaves an empty file (`StoreEmptied`), which
`read_state` opens and reads nothing from.  `get_current_time` stalls at
`UUIDS_PER_TICK` UUIDs more than the first at one reading, whatever the clock; where that is too
late, a reading gives timestamps that belong to a later one (`overran`).  `Unique`
and `SequenceChangesWhenClockGoesBack` name that case, `NeverTwice` does not and is
violated by it (section 6), and `RepeatsOnlyTheLast` says what is the worst that
happens in a program with a state file.

### Updater and CreateBuild

A file that is open for writing is `torn` from the step that empties it until
the step that has written it.  `Updater` models the listing and deletion of the
target directory (not of what is below it), the loop over the archive, the
temporary name that `fileData_write` uses when the file can be read, and the record
of the version, with `success` as in the code.  Whether a file that is there can be
read is open at every write (`OpenFile`): one that cannot - held by another program,
closed to this user - is written over in place (`overwrite`, file_utils.c:61-64), and a
crash there leaves it torn, which `WholeFilesStayWhole` names as its exception.  `CreateBuild` models number,
archive, index of the directory and manifest; version numbers are compared as
text, digit by digit, as `strcmp` does.  Building the archive in memory either
gives one, lacking files or not, or fails as a whole (`BeginFails`, which stands for
the or-ed status and for `mz_zip_writer_end` as well).

### BuildDeps

A directory of sources, headers, objects and a program, each with the two times
`GetFileTimeMilliseconds` takes the later of, and a build over it: a scan that
fills the two tables (`times` and `deps`, where an insert of a key that is there
changes nothing), `checkDeps` for each source, compilations, and the link.
A dependency file is kept as the names in it (`dfile`); when it is read, the text
the compiler writes for them (`FileOf`: tokens that end with a colon, a backslash
or the end of a line) is trimmed mark by mark as the code does.  Meanwhile an
editor changes files and what they include, deletes a header, and restores it
with its old time; compilations fail and the build is killed.  `made` and `linked`
remember from which versions an object and the program really are: the times
the code compares are checked against them.

What is external, and so assumed: the compiler reads all it needs when it starts
and replaces its object at the end; an object has a name of its own; the program
that builds makes new tables each time, with at least a millisecond between two
builds (`Begin` waits for it); the commands run several at once, as
`JobRunner` says.  A file that is saved while it is being compiled, up to and in
the millisecond in which the object is written, is newer than what the compiler
read and older than the object: the code cannot notice it, and the properties
name it (`late`).  A header that came to be included that way is in no
dependency file, so what is changed in it afterwards, or comes in through it, is not
noticed either until the source is compiled again: with one header this cannot
happen, with two TLC finds it, and `late` takes it in.  The same goes for a copy with an older time over a file that
stays there; in the model an old time only comes with a file that was away.

### BugReporter

Reports are made, abandoned, sent by the main thread or given to a detached
thread.  The steps of `bug_report_dispatch_sync` are separate: counting the
strings, writing them (the assignee is looked at in both, without the lock),
entering the critical section, connecting, sending, closing, leaving, freeing.
`bug_reporter_shutdown` is three steps; a lock that was deleted may let anyone
in.  The program may shut the reporter down, or call `bug_reporter_init` again, with
a report alive, which nothing in the code prevents; `early` remembers it, and the
properties are about programs that do not do it, or until they do.  A main thread that sends is in the call and does
nothing else.

### Text and numbers

`PyParser` is a state machine: bytes arrive in pieces of any size, and
`py_parser_tick` reads a pair if all of it is there; allocations may fail.  The
writer is the reference: what `p4 -G` prints is written by it as real bytes, with
lengths and numbers in four of them, foreign types and an error message included.  `p4`'s output comes through `ProcessIO`,
which may lose the end of one stream, hence the prefixes in the property.
`CommandLine`, `Paths` and `RandomRange` are operators for functions without
state, compared in `MCText` with a reference: tokens cut from the untouched
buffer, a walk over the names, lines between their ends, equally many words for
each number of a range.  The buffer that `cmdline_init_composite` rewrites while
it reads is modelled as it is rewritten: behind a token in quotes with another
right after it, cmdline.c:97 steps over a character that belongs to the next, and
`ArgsAreTokens` names that exception.

## 3. Runs

| run | question | instance |
|---|---|---|
| `commands` | order, results, bounds, links, return, `JobRunner`, in both stop modes and with every set of faults | 3 commands, 2 at once, fair |
| `pio` | is output intact, the exit code real, and does it end, under each fault and three pairs? | 3 chunks per stream, pipe of 2, fair |
| `tasks` | what holds in every tree, and is every queued task reset? | sequential and parallel group, own task, leaf; late, empty, failing allocations; fair |
| `worker` | both kinds of worker task, with and without subtasks, every set of faults | 2 addresses, fair |
| `uuid_callback` | *violated*: clock set back, state in callbacks | 5 ticks, 5 UUIDs |
| `uuid_fine` | *violated*: a clock finer than `UUIDS_PER_TICK` | 6 ticks, 6 UUIDs |
| `updater` | installing, with failures and crashes | 3 runs, 2 versions, 3 files |
| `builds` | publishing, versions of one digit | versions 6 to 9, 3 trees |
| `builds_ten` | *violated*: publishing after version 9 | versions 9 to 12 |
| `deps` | is what is passed over current, and the next build idle? | 2 sources, 2 headers, 2 edits, 2 ms, both ends of line |
| `reports` | connection, packets and freeing, over a shutdown and a restart | 2 reports, 2 starts, fair |
| `library` | what stands alone: UUIDs in eleven settings; do parser, paths, command line, lines and ranges agree with their references? | 10 units of time, 5 UUIDs, limit 2, resolutions 1 to 3, period 4; and below |

**What they show.**  All properties of the passing runs hold; the three
others are findings (section 6).  The parts in `library` share nothing, and one of
them moves while the other is as it began: the run has about as many states as the two
have together.

**Why the bounds are enough.**  Two tasks at once and three commands give an idle
slot, a full one, commands that finish out of order, and a last command while
earlier ones run.  Three chunks for a pipe of two: a pipe is empty, partly and
quite full, receives bytes between peek and read, and a child with more to write
meets a full one, on either stream and on both.  Four tasks make trees
three deep with siblings, and a group of either kind in the other.  Two versions
with a dropped file and a file below the directory, installed three times, give
a good, a broken and a repairing run.  With a limit of 2, resolutions of
1, 2 and 3 are those finer than the limit, equal to it and coarser; five UUIDs reach the
limit, overrun a fine clock and go on at the next reading, and a save period of 4
is longer than the time between two readings, so that UUIDs come between saves.
Four versions let one build fail between two good ones.  Two
edits delete a header and restore it, or change a text during a compilation
and again after it, or let one header bring in the other; in two milliseconds that
happens before, during and between two builds.  Longer histories of builds are
left to the proof.  Two reports and two starts let the two threads compete for one reporter,
and reports of a first reporter be followed by some of a second.  (A thread of the first
that meets the second has made `early` true: the properties do not cover it.)  In
`library`, p4 prints up to two dicts with one
entry or one with two, with contents that look like types, cut anywhere; paths
have up to five names of two directories and both dots; lines have six
characters, which holds two tokens with escaped quotes; words have 32 values
(`Half` is 16), so that ranges below and above half of the words, and signed ones that
wrap, all occur.  Deadlock checking is off only where a model really stops: a call that
has returned, a freed process or task, all tasks reset, a bound reached.

**Fairness.**  `BuildCommands`: the main thread spins and never blocks; children
exit; an IO thread polls at least every 16 ms.  `ProcessIO`: each thread keeps
running and the child writes what it has to and exits; nothing is assumed of
closing or shutting down.  `Tasks`: `tasks_tick` is called for ever, and a leaf or
own task that is ticked again and again ends at some time - strong fairness, as
it is ticked only now and then.  `WorkerTasks`: both threads run, `getaddrinfo`
returns, and the program's function says how it ends and returns; subtasks may stay
open for ever.
`BugReporter`: a thread that sends keeps running; nothing is assumed of the
program's own choices.  The others promise nothing in time and have no fairness.

## 4. Proofs

Each proof has one lemma per part of the next-state relation and rests on the
`ASSUME`s of its module, which only give the constants their types (and names
like `"none"` that no content has).

`BuildCommandsProofs` holds for every list length, every `maxTasks` (0 included),
both stop modes and every set of faults.  The counters alone are not inductive:
that `active` counts the outstanding links needs to know that a callback only
ever comes for a live link.  So `IInv` adds `Consistent` (flags, task state and
link of a command tell the same story), `PrintedPrefix` (the print cursor splits
the list), `Unwinding` (in the outer callback frame the link is already gone, and
only with a failing spawn), and `ChildFollowsTask` (a running child belongs to a
running task).  The lemma `CommandDoneCounts` does the arithmetic of a done
callback once.  From `Spec => []IInv` follow the invariants of the run,
`FinishedAlwaysFinal` (no step changes what a finished command has reported) and
`Refinement`: `Spec => Jobs!Spec`, one step per action.

`ProcessIOProofs` holds for any output, any pipe and every set of faults.  That
pipe, thread buffer and caller's buffer together are what the child has written
is a statement about sequences: `AppendToLast`, `MoveFirst` and `MoveAll` say what
each kind of step does to three sequences in a row.  What is reported at the end
needs a second invariant, `DInv`: the thread is created once, a stream the thread
found broken had been closed and emptied, `threadDone` has a reason, and what the
main thread saw it has copied.

`TasksProofs` holds for any tasks in any trees and every use of them.  `IInv` says
that subtasks form forests (`Forest`: a subtask has one parent and its
tree's top), that `s_tasks` holds each tree once at its top and none that was
reset (`QueueOfTrees`), that only what is queued is started (`StartedInQueue`),
that the frames on the stack go down one path (`FramesOK`), and that a sequential
task has started no subtask whose elder is not done (`Elders`).  On top of it `CInv` says
that the states a running call has counted are those its subtasks have now, which
gives the outcome of groups and that a task is seen done once.

`LibraryProofs` has five parts, one for each that works alone.

- *Uuid*, for any clock, limit, period, either store, failing writes and any
  course of events under `Supportable`: a clock is set back only in a program that
  keeps its state in a file and does not restart - with callbacks, and over a
  restart, the last time is that of the last save, and what the theorems say is
  false (`uuid_callback`).  Nothing is assumed of `UUIDS_PER_TICK` against the
  resolution: `AlwaysUnique` has the overrun fine clock in its statement,
  `OnlyTheLastIsRepeated` bounds it, and only `CoarseClocksNeverRepeat`, that no UUID
  ever comes twice, asks for more units between two readings than the limit.
  `UuidInv` says that in a program with a file each run's UUIDs are in the order of
  sequences and timestamps, the last of them in `st` (`InOrder`), that without a clock set
  back no timestamp is more than the limit ahead of the clock (`Forwards`), and that
  the store lags by less than a save period unless a write failed (`Saved`).  `StoreAlwaysRecent` also needs a
  period greater than 0.
- *PyParser*, for any dictionaries p4 may print, of any number, length and content,
  and a text cut anywhere.  `ParserInv` says that while no memory was missing the
  parser stands at the beginning of a dict or an entry, or at the end of a
  dict, and has read just what comes before.  It rests on where things are in
  the bytes: `FlattenLayout` (what is joined has a layout), `ReadU32` and
  `ReadString` (a number or string is read where it was written), and `ReadPair` (a
  pair is taken when all of it has arrived, and only then).
- *RandomRange*, for words of any even number of values: each remainder occurs
  equally often behind the threshold (`Shares`, by a bijection), and the
  conversions between signed and unsigned lose nothing (`Signed`).
- *Paths*, for paths of any length.  The loop of `path_resolve_inplace` stands at
  the last name of where the first `p` names lead or right behind it, and then the
  next name does not lead back (`AtRound`); each round brings it nearer to the end, two
  for each name at most.  So `NamesResolved`: what is left is where the names lead.
- *CommandLine*, for texts of any length.  The loop of
  `buildCommands_printBuffer` stands behind an end and has printed the lines of the
  ends before it, or is through (`IsAtLine`); a call finds the next end and no other
  (`LineEndIs`), and prints what is between (`LineIs`).  So `LinesPrinted`.  The second
  pass of `cmdline_init_composite` stands where the first has stood, or on the blank
  behind it, and from there on the buffer is as it was (`ArgsReady`): what is written
  stays in the place of the token (`CutOutIs`, since `strunescape` makes nothing longer)
  and what was cut out before ends before it (`StillStands`).  So `ArgumentsCut`.

The prover has no induction that takes a formula, so these use the least number
that is not in a set (`AllNumbers`), and with it show that a function defined by
recursion over the numbers exists (`Repetition`, `Recursion`).

`UpdaterProofs` holds for any files, archives and number of runs.  `IInv` says that
the file being written is of the archive and whole before it replaces another
(`BeingWritten`), that without an error what is no longer to extract is in place
(`InPlace`), and that while nothing has failed the directory holds what is still to
delete, and then only what was extracted (`Clean`).

`CreateBuildProofs` holds for any trees, failures and removals, and versions of one
digit (`OneDigit`), where text and number agree (`AfterIsGreater`).  `IInv` says that
up to the latest version the archives are those announced and not removed, none
of them torn, with at most one after it, and that a build goes by the manifest it has
read.  From it a build finds one archive more than it knew (`OneMoreIsFound`).

`ThreadProofs` is about the two parts whose threads share plain flags.  For
`WorkerTasks` it holds for both kinds of task and any number of addresses.
`NoUseAfterFree` is not inductive: a `dns_task` is freed without a join when it has told
its end, so the invariant adds `Telling` (a worker that works has not told, but for the
moment between creation and `MarkRunning`), `Handles` (where the two threads can be
together) and `Reporting` (a dns task without subtasks that is done has a worker that
has left).  What a tick adds to the calls of `finishedFunc` is said once, in
`TickReports`: none, one, or two with different states.
For `BugReporter` it holds for any reports, and any number of calls of init and
shutdown: the one in the critical section holds the lock, and an orderly shutdown or
restart finds no report alive.

`BuildDepsProofs` holds for any sources, headers and commands at once, and any
number of edits at any time, over any number of builds that go well, fail or are
killed.  What makes `TimesTell` and the others inductive is what the times say
of names the object was not made from: `NeedsShow` (what a source has come to
need shows as an edit that is newer than its object, or is late), `FileShows` (the same
for what the dependency file names, which after a killed build is newer than the
object) and `RunningTell` (what a compilation has read is current or late).  During a
scan, `Scanning` says of each object that it is current or that one of its names
will be found newer or missing (`Doomed`), whatever is changed meanwhile;
`QuietTells` says why nothing is built twice.  `FileParsed` shows that trimming the
text of a dependency file gives the names in it, for both ends of line.

**Only model-checked**: liveness (`DispatchReturns`, the three `...IsFreed` and
`QueuedIsReset`), which is out of the prover's reach.  Every other property of a run
that passes is stated by a theorem.

## 5. Plan

What is left, in the order of its worth: `update_resolve_version` and `-p4` of the updater, with two builds from two
machines; the POSIX file utilities as a second variant of `Updater`;
dictionaries with unique keys and removal by swapping; the ring of temporaries
and the message boxes, each small and sequential.

## 6. Findings

- *State callbacks and a clock that goes back* (`uuid_callback`).  With callbacks,
  `uuid_create` compares with the time that was saved last, up to ten seconds
  ago, and not with that of the last UUID: a clock set back in between is not
  noticed, and the clock sequence is not changed as the comment at
  `uuid.c:90` says.
- *A fine clock* (`uuid_fine`).  `UUIDS_PER_TICK` is 1024, while the POSIX clock has
  ten units between two readings (sysdep.c:72) and sysdep.h:23 asks for the two to be
  equal.  `get_current_time` stalls far too late, and a later reading gives the last UUID
  a second time, where RFC 4122 says it must stall (rfc4122.txt:593).  With equal
  numbers it still happens, as uuid.c:213 counts from 0 up to and including the limit.
- *The tenth version* (`builds_ten`).  `strcmp` sorts 9 before 10 in the manifest's
  newest-first order, so that after version 10 the latest is still 9, the next
  build takes the number 10 again, writes over the published archive if the tree
  has changed, and fails as no version was added (`mc_updater.c:244`).

Hazards that the properties name as exceptions rather than hide: the nested
callback of a failing spawn, a spawn outrun by its IO thread, the last output of
one of two streams, a DNS worker that overtakes its creator, a thread task
without a thread, a process without its IO thread, a dns task that its subtasks
end, a clock set back over a restart, a file that is there but cannot be read, an empty
group, a removed archive, a reporter shut down or started anew while a report is
alive, a token right behind a closing quote, a file saved while it is compiled.

## 7. Not modelled

Failing `malloc` of links and task data (the code does not look at it either);
identifiers, names and parent pointers of tasks, and addresses as such, so that
pointers into `s_tasks` that move are beyond the models; one-shot processes and
process enumeration; a child that waits for its standard input to be closed; a
network card that changes and the wrap of the clock sequence; POSIX file
functions, of which `fileData_write` never sets the result it returns
(file_utils.c:168); files of 4 GB and more; string buffers, temporaries, message
boxes and the parts of the dictionaries nothing under `src/` uses, which are
sequential containers; filters and options by name; the generators of random
bits; the crash handler, digests, JSON, the code generator and the thin wrappers
of the operating system, which have no control worth a model; `submodules` and
vendored code - SQLite and miniz, which make up two thirds of the checkout.
