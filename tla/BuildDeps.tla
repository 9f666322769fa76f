----------------------------- MODULE BuildDeps -----------------------------
(***************************************************************************)
(* Incremental builds (src/mc_build/mc_build_dependencies.c): a scan reads *)
(* the time of every source, header and object and the dependency file the *)
(* compiler wrote beside each object; queueCommands compiles what is not   *)
(* up to date; the program is linked again when an object is newer.        *)
(* Meanwhile files are edited, deleted and restored, compilations fail and *)
(* a build is killed.                                                      *)
(*                                                                         *)
(* The caller, the compiler and the editor are not under src/.  Commands   *)
(* run as JobRunner says: in order, several at once.  A table is a map: an *)
(* insert of a key it holds changes nothing.                               *)
(***************************************************************************)
EXTENDS Naturals, Sequences, FiniteSets

CONSTANTS Sources, Headers,
          Includes,      \* source -> the headers it needs at first
          Object,        \* source -> the path of its object
          Exe,           \* the path of the program
          EndOfLine,     \* source -> the marks its compiler ends a line with
          MaxTasks,      \* commands that run at once
          MaxTime, MaxEdits

Files == Sources \cup Headers
Objects == {Object[s] : s \in Sources}
Paths == Files \cup Objects \cup {Exe}

(* Two sources of one name in different directories would share an object. *)
ASSUME ObjectAssumption ==
  /\ \A s, t \in Sources : Object[s] = Object[t] => s = t
  /\ Files \cap (Objects \cup {Exe}) = {} /\ Exe \notin Objects

ASSUME IncludesAssumption == Includes \in [Sources -> SUBSET Headers]
ASSUME EndOfLineAssumption == EndOfLine \in [Sources -> {<<"lf">>, <<"cr", "lf">>}]
ASSUME MarksAssumption == Paths \cap {"lf", "cr", "backslash", "colon"} = {}
ASSUME BoundsAssumption == MaxTime \in Nat \ {0} /\ MaxEdits \in Nat

VARIABLES
  now, edits,        \* the clock, in milliseconds; how many edits there were
  text, includes,    \* file -> version of its text, 0 if absent; source -> headers it needs
  created, written,  \* path -> its times, 0 if absent
  dfile,             \* source -> the names in its dependency file, {} if it has none
  made,              \* source -> the versions its object was made from
  linked,            \* sources whose object, as it is, is in the program
  phase,             \* where the build is
  todo, times, deps, \* paths still to scan; the two tables
  queue, kept,       \* sources to compile; sources found up to date
  running,           \* source -> the compilation under way
  failed,            \* a compilation of this build failed
  unseen, late, quiet \* history: see below

(* unseen[s]: what s needs that was changed, or came to be needed, since   *)
(* the build began.  late[s]: the same since the compiler read it for the  *)
(* object of s, up to and in the millisecond it wrote the object; and what *)
(* came to be needed, at any time since, through a late file the           *)
(* dependency file does not name.  quiet: nothing was changed since a      *)
(* build that went well, or may yet, began.                                *)
diskVars == <<now, edits, text, includes, created, written>>
tableVars == <<todo, times, deps>>
outVars == <<dfile, made, linked>>
vars == <<diskVars, tableVars, outVars, phase, queue, kept, running, failed,
          unseen, late, quiet>>

Needs(s) == {s} \cup includes[s]

(* Faulty variants, here and below: bugs the next definition could have    *)
(* had, and no part of the model.                                          *)
WriteTimeOnly(p) == written[p]

(* GetFileTimeMilliseconds *)
Stamp(p) == IF created[p] > written[p] THEN created[p] ELSE written[p]

None == [x \in {} |-> x]  \* a map with nothing in it

Init ==
  /\ now = 1 /\ edits = 0
  /\ text = [f \in Files |-> 1]
  /\ includes = Includes
  /\ created = [p \in Paths |-> IF p \in Files THEN 1 ELSE 0] /\ written = created
  /\ dfile = [s \in Sources |-> {}]
  /\ made = [s \in Sources |-> None] /\ linked = {}
  /\ phase = "idle"
  /\ todo = {} /\ times = None /\ deps = None
  /\ queue = {} /\ kept = {} /\ running = None /\ failed = FALSE
  /\ unseen = [s \in Sources |-> {}] /\ late = [s \in Sources |-> {}] /\ quiet = "no"

----------------------------------------------------------------------------
(* The editor, at any time. *)

Tick ==
  /\ now < MaxTime
  /\ now' = now + 1
  /\ UNCHANGED <<edits, text, includes, created, written, tableVars, outVars, phase, queue, kept,
                 running, failed, unseen, late, quiet>>

(* What is changed while it is compiled, or just after, is late, and so is *)
(* what only then comes to be included, and what that brings with it.      *)
Changed(f) ==
  /\ edits < MaxEdits /\ edits' = edits + 1
  /\ LET seen(s)  == {f} \cup (includes'[s] \ includes[s])
         slips(s) == now = Stamp(Object[s]) \/ f \in late[s] \ dfile[s]
     IN  /\ late' = [s \in Sources |-> late[s] \cup (IF slips(s) THEN seen(s) ELSE {})]
         /\ running' = [s \in DOMAIN running |->
                          [from |-> running[s].from, late |-> running[s].late \cup seen(s)]]
         /\ unseen' = [s \in Sources |->
                         IF phase = "idle" THEN {} ELSE unseen[s] \cup seen(s)]
  /\ quiet' = "no"
  /\ UNCHANGED <<now, tableVars, outVars, phase, queue, kept, failed>>

(* A new text may change what the sources that need the file include. *)
NewText(f) ==
  /\ text' = [text EXCEPT ![f] = edits + 2]
  /\ includes' \in [Sources -> SUBSET Headers]
  /\ \A s \in Sources : IF f \in Needs(s) THEN f \in Headers => f \in includes'[s]
                                          ELSE includes'[s] = includes[s]

Edit(f) ==
  /\ text[f] # 0 /\ NewText(f) /\ Changed(f)
  /\ written' = [written EXCEPT ![f] = now]
  /\ UNCHANGED created

Delete(h) ==
  /\ text[h] # 0 /\ UNCHANGED includes /\ Changed(h)
  /\ text' = [text EXCEPT ![h] = 0]
  /\ created' = [created EXCEPT ![h] = 0] /\ written' = [written EXCEPT ![h] = 0]

(* A copy of an older file: the time of its writing is copied with it. *)
Restore(h) ==
  /\ text[h] = 0 /\ NewText(h) /\ Changed(h)
  /\ created' = [created EXCEPT ![h] = now] /\ written' = [written EXCEPT ![h] = 1]

----------------------------------------------------------------------------
(* The compiler and the linker. *)

Busy == DOMAIN running
Reads(s) == DOMAIN running[s].from

(* Made beside the old one, which it then replaces. *)
Touch(p) == created' = [created EXCEPT ![p] = now] /\ written' = [written EXCEPT ![p] = now]

(* An insert never replaces. *)
Insert(table, k, v) ==
  IF k \in DOMAIN table THEN table
  ELSE [x \in DOMAIN table \cup {k} |-> IF x = k THEN v ELSE table[x]]

(* A command of the queue starts, which is in the order of the directory;  *)
(* the compiler reads all it needs.                                        *)
Start(s) ==
  /\ phase = "dispatch" /\ s \in queue /\ Cardinality(Busy) < MaxTasks
  /\ running' = Insert(running, s, [from |-> [f \in Needs(s) |-> text[f]], late |-> {}])
  /\ queue' = queue \ {s}
  /\ UNCHANGED <<diskVars, tableVars, outVars, phase, kept, failed, unseen, late, quiet>>

StillRunning(s) == [t \in Busy \ {s} |-> running[t]]

Compiled(s) ==
  /\ s \in Busy /\ \A f \in Reads(s) : running[s].from[f] # 0
  /\ dfile' = [dfile EXCEPT ![s] = Reads(s)]
  /\ Touch(Object[s])
  /\ made' = [made EXCEPT ![s] = running[s].from]
  /\ late' = [late EXCEPT ![s] = running[s].late]
  /\ linked' = linked \ {s}
  /\ running' = StillRunning(s)
  /\ UNCHANGED <<now, edits, text, includes, tableVars, phase, queue, kept, failed,
                 unseen, quiet>>

(* A compilation that fails leaves what was there. *)
CompileFails(s) ==
  /\ s \in Busy
  /\ running' = StillRunning(s) /\ failed' = TRUE
  /\ UNCHANGED <<diskVars, outVars, tableVars, phase, queue, kept, unseen, late, quiet>>

----------------------------------------------------------------------------
(* The tables. *)

(* sourceTimestampTable_insert of a path, when it has a time. *)
WithTime(table, p) == IF Stamp(p) = 0 THEN table ELSE Insert(table, p, Stamp(p))

(* A new table with the times of all paths of a set that have one. *)
TimesOf(P) == [p \in {q \in P : Stamp(q) # 0} |-> Stamp(p)]

(* A dependency file as the compiler writes it, cut at spaces: the object, *)
(* then the names of what it was made from, in any order and one to a      *)
(* line; a token may end with the marks of the end of a line.              *)
FileOf(s, names) ==
  LET last == CHOOSE f \in names : f = s => names = {s}
      more == IF names = {s} THEN {} ELSE {<<"backslash">> \o EndOfLine[s]}
  IN  [first |-> <<Object[s], "colon">>,
       rest  |-> {<<f>> : f \in names \ {last}} \cup more \cup {<<last>> \o EndOfLine[s]}]

TrimEnd(t, c) == IF t # <<>> /\ t[Len(t)] = c THEN SubSeq(t, 1, Len(t) - 1) ELSE t

NewlineLast(t) == TrimEnd(TrimEnd(TrimEnd(TrimEnd(t, "backslash"), "cr"), "lf"), "colon")

(* buildDependencyTable_trimToken: each mark at most once, in this order. *)
Trim(t) == TrimEnd(TrimEnd(TrimEnd(TrimEnd(t, "lf"), "cr"), "backslash"), "colon")

Names(tokens) == {Trim(t) : t \in tokens} \ {<<>>}

(* buildDependencyTable_insertFromFile: the first name is the key. *)
WithFile(table, file) ==
  LET key == Trim(file.first)
  IN  IF Len(key) = 1 THEN Insert(table, key[1], Names(file.rest)) ELSE table

(* A name that was not trimmed to a path is not in the table. *)
Known(name) == Len(name) = 1 /\ name[1] \in DOMAIN times

UnknownIsOld(p) ==
  /\ p \in DOMAIN times /\ p \in DOMAIN deps
  /\ \A name \in deps[p] : Known(name) => times[name[1]] <= times[p]

(* buildDependencyTable_checkDeps *)
UpToDate(p) ==
  /\ p \in DOMAIN times /\ p \in DOMAIN deps
  /\ \A name \in deps[p] : Known(name) /\ times[name[1]] <= times[p]

----------------------------------------------------------------------------
(* One build. *)

(* The tables are new, and the directory of the objects comes first; a     *)
(* build begins later than the one before wrote.                           *)
Begin ==
  /\ phase = "idle" /\ \A p \in Objects \cup {Exe} : Stamp(p) < now
  /\ phase' = "scan"
  /\ todo' = Files /\ times' = TimesOf(Objects)
  /\ quiet' = IF quiet = "no" THEN "so far" ELSE quiet
  /\ UNCHANGED <<diskVars, deps, outVars, queue, kept, running, failed, unseen, late>>

(* buildDependencyTable_insertDir, one entry of a directory: its time goes *)
(* into the one table, its dependency file into the other.  A file that is *)
(* not there when its turn comes has neither.                              *)
Scan(f) ==
  /\ phase = "scan" /\ f \in todo
  /\ todo' = todo \ {f}
  /\ times' = WithTime(times, f)
  /\ deps' = IF f \in Sources /\ dfile[f] # {} THEN WithFile(deps, FileOf(f, dfile[f])) ELSE deps
  /\ UNCHANGED <<diskVars, outVars, phase, queue, kept, running, failed, unseen,
                 late, quiet>>

(* buildDependencyTable_queueCommands *)
QueueCommands(upToDate) ==
  /\ phase = "scan" /\ todo = {}
  /\ kept' = upToDate
  /\ queue' = Sources \ kept'
  /\ phase' = "dispatch"
  /\ UNCHANGED <<diskVars, tableVars, outVars, running, failed, unseen, late>>

Queue == QueueCommands({s \in Sources : UpToDate(Object[s])}) /\ UNCHANGED quiet

(* With kBuildDep_Rebuild. *)
QueueAll == QueueCommands({}) /\ quiet' = IF quiet = "yes" THEN "so far" ELSE quiet

(* The build ends, and its tables and lists with it. *)
Over ==
  /\ phase' = "idle" /\ unseen' = [s \in Sources |-> {}]
  /\ todo' = {} /\ times' = None /\ deps' = None
  /\ queue' = {} /\ kept' = {} /\ running' = None /\ failed' = FALSE

StillQuiet == IF quiet = "yes" THEN "yes" ELSE "no"

(* A command failed: the caller gives up when those under way have ended. *)
GiveUp ==
  /\ phase = "dispatch" /\ failed /\ Busy = {}
  /\ Over /\ quiet' = StillQuiet
  /\ UNCHANGED <<diskVars, outVars, late>>

OldObjectTimes ==
  /\ phase = "dispatch" /\ ~failed /\ queue = {} /\ Busy = {}
  /\ times' = WithTime(times, Exe)
  /\ deps' = Insert(deps, Exe, {<<o>> : o \in Objects})
  /\ phase' = "link"
  /\ UNCHANGED <<diskVars, outVars, todo, queue, kept, running, failed, unseen, late,
                 quiet>>

(* The times of the objects are read again, into a new table, and          *)
(* buildDependencyTable_addDeps makes the program depend on them.          *)
AddDeps ==
  /\ phase = "dispatch" /\ ~failed /\ queue = {} /\ Busy = {}
  /\ times' = TimesOf(Objects \cup {Exe})
  /\ deps' = Insert(deps, Exe, {<<o>> : o \in Objects})
  /\ phase' = "link"
  /\ UNCHANGED <<diskVars, outVars, todo, queue, kept, running, failed, unseen, late,
                 quiet>>

Link ==
  /\ phase = "link"
  /\ IF UpToDate(Exe) THEN UNCHANGED <<linked, created, written>>
                      ELSE linked' = Sources /\ Touch(Exe)
  /\ Over
  /\ quiet' = IF quiet = "no" THEN "no" ELSE "yes"
  /\ UNCHANGED <<now, edits, text, includes, dfile, made, late>>

(* The build is killed with its compilers; these write the dependency file *)
(* before the object.                                                      *)
Killed ==
  /\ phase \in {"scan", "dispatch"}
  /\ \E S \in SUBSET {s \in Busy : \A f \in Reads(s) : running[s].from[f] # 0} :
       dfile' = [s \in Sources |-> IF s \in S THEN Reads(s) ELSE dfile[s]]
  /\ Over /\ quiet' = StillQuiet
  /\ UNCHANGED <<diskVars, made, linked, late>>

----------------------------------------------------------------------------
Editor == Tick \/ (\E f \in Files : Edit(f)) \/ \E h \in Headers : Delete(h) \/ Restore(h)
Commands == \E s \in Sources : Start(s) \/ Compiled(s) \/ CompileFails(s)
Build ==
  \/ Begin \/ (\E f \in Files : Scan(f)) \/ Queue \/ QueueAll
  \/ GiveUp \/ AddDeps \/ Link \/ Killed

Next == Editor \/ Commands \/ Build

Spec == Init /\ [][Next]_vars

----------------------------------------------------------------------------
(* Properties.                                                             *)

(* The object of s holds the present text of f, unless f was changed while *)
(* s was being compiled, or since this build began.                        *)
Current(s, f) ==
  \/ f \in DOMAIN made[s] /\ made[s][f] = text[f]
  \/ f \in late[s] \cup unseen[s]

TypeOK ==
  /\ now \in 1..MaxTime /\ edits \in 0..MaxEdits
  /\ text \in [Files -> 0..(MaxEdits + 1)] /\ includes \in [Sources -> SUBSET Headers]
  /\ created \in [Paths -> 0..now] /\ written \in [Paths -> 0..now]
  /\ phase \in {"idle", "scan", "dispatch", "link"} /\ quiet \in {"no", "so far", "yes"}
  /\ dfile \in [Sources -> SUBSET Files] /\ todo \subseteq Files
  /\ DOMAIN times \subseteq Paths
  /\ DOMAIN deps \subseteq Objects \cup {Exe}
  /\ queue \cup kept \cup Busy \cup linked \subseteq Sources /\ failed \in BOOLEAN
  /\ late \in [Sources -> SUBSET Files] /\ unseen \in [Sources -> SUBSET Files]

(* The times on the disk tell what an object is too old for: what it was   *)
(* made from is unchanged, or newer, or was changed while the compiler     *)
(* already had it.                                                         *)
TimesTell ==
  /\ TypeOK
  /\ \A s \in Sources : \A f \in DOMAIN made[s] :
       \/ text[f] \in {made[s][f], 0} \/ f \in late[s]
       \/ Stamp(f) > Stamp(Object[s])

(* A source is passed over only when its object was made from the present  *)
(* text of the source and of all it includes now, although the dependency  *)
(* file says what it included then, and although builds fail, are killed   *)
(* and restored files carry old times (mc_build_dependencies.c:299).       *)
PassedOverIsCurrent ==
  [][\A s \in kept' \ kept : \A f \in Needs(s) : Current(s, f)]_vars

(* A build after one that went well, with no change since that one began,  *)
(* compiles and links nothing.                                             *)
NothingTwice ==
  [][quiet = "yes" /\ quiet' = "yes" => queue' = {} /\ written'[Exe] = written[Exe]]_vars

(* A build that goes well leaves a program made from the objects there     *)
(* are, and these from the present texts.                                  *)
GoodBuildIsCurrent ==
  [][phase = "link" /\ phase' = "idle" =>
       linked' = Sources /\ \A s \in Sources : \A f \in Needs(s) : Current(s, f)]_vars
=============================================================================
