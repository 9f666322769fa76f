-------------------------- MODULE BuildDepsProofs --------------------------
(* Proofs about incremental builds, for any sources, headers and commands  *)
(* at once, any number of edits at any time, and any number of builds that *)
(* go well, fail or are killed.                                            *)
EXTENDS BuildDeps, SequenceTheorems, TLAPS

(* The state is well-formed: what a table or a running compilation holds.  *)
WellFormed ==
  /\ TypeOK
  /\ made = [s \in Sources |-> made[s]]
  /\ \A s \in Sources : DOMAIN made[s] \subseteq Files
  /\ \A s \in Busy : /\ Reads(s) \subseteq Files /\ s \in Reads(s)
                     /\ running[s].late \subseteq Files
  /\ \A s \in Sources : dfile[s] # {} => s \in dfile[s]
  /\ \A f \in Files : text[f] = 0 <=> Stamp(f) = 0

(* The object of s has a time; g was changed after the object was written. *)
Built(s) == Stamp(Object[s]) # 0
New(s, g) == Stamp(g) > Stamp(Object[s]) \/ (text[g] = 0 /\ now > Stamp(Object[s]))

(* What a running compilation has read is current, but for what is late.   *)
RunningTell ==
  \A s \in Busy :
    /\ \A f \in Reads(s) : running[s].from[f] = text[f] \/ f \in running[s].late
    /\ Needs(s) \subseteq Reads(s) \cup running[s].late
    /\ Built(s) /\ ~(Needs(s) \subseteq Reads(s)) => \E f \in Reads(s) : New(s, f)

(* What s needs beyond what its object was made from came in with an edit  *)
(* that shows, or is late.                                                 *)
NeedsShow ==
  \A s \in Sources : Built(s) =>
    \/ Needs(s) \subseteq DOMAIN made[s] \cup late[s]
    \/ \E g \in Needs(s) : New(s, g)

(* The same for the dependency file, which may be newer than the object.   *)
FileShows ==
  \A s \in Sources : Built(s) =>
    \/ Needs(s) \subseteq (DOMAIN made[s] \cap dfile[s]) \cup late[s]
    \/ \E g \in dfile[s] : New(s, g)

CurrentAll(s) == \A f \in Needs(s) : Current(s, f)

(* When its turn comes, something the dependency file of s names will be   *)
(* found newer than the object, or missing.                                *)
Doomed(s) ==
  \E g \in dfile[s] :
    IF g \in todo THEN New(s, g)
                   ELSE g \notin DOMAIN times \/ ~(times[g] <= Stamp(Object[s]))

(* While the directory is scanned: what the tables hold, and what they     *)
(* will tell of each object.                                               *)
Scanning ==
  phase = "scan" =>
    /\ queue = {} /\ kept = {} /\ Busy = {} /\ ~failed
    /\ Stamp(Exe) < now
    /\ DOMAIN times \subseteq Objects \cup (Files \ todo)
    /\ \A s \in Sources :
         /\ Stamp(Object[s]) < now
         /\ Object[s] \in DOMAIN times <=> Built(s)
         /\ Built(s) => times[Object[s]] = Stamp(Object[s])
         /\ Object[s] \in DOMAIN deps <=> s \notin todo /\ dfile[s] # {}
         /\ Object[s] \in DOMAIN deps => deps[Object[s]] = {<<f>> : f \in dfile[s]}
         /\ Built(s) => Doomed(s) \/ CurrentAll(s)
    /\ Exe \notin DOMAIN deps

(* While commands run: what is neither waiting nor running is current,     *)
(* unless a compilation has failed.                                        *)
Dispatching ==
  phase = "dispatch" =>
    /\ todo = {} /\ queue \cap Busy = {} /\ kept \cap (queue \cup Busy) = {}
    /\ Stamp(Exe) < now /\ Exe \notin DOMAIN deps
    /\ \A s \in queue \cup Busy : Stamp(Object[s]) < now
    /\ \A s \in Sources \ (queue \cup Busy) : failed \/ CurrentAll(s)

Linking ==
  phase = "link" =>
    /\ queue = {} /\ Busy = {} /\ ~failed
    /\ times = TimesOf(Objects \cup {Exe})
    /\ Exe \in DOMAIN deps /\ deps[Exe] = {<<o>> : o \in Objects}
    /\ \A s \in Sources : CurrentAll(s)

(* The program holds the present object, or is seen to be older.           *)
ProgramShows ==
  \A s \in Sources :
    s \in linked \/ Stamp(Object[s]) > Stamp(Exe) \/ Stamp(Exe) = 0

Idle ==
  phase = "idle" =>
    /\ queue = {} /\ kept = {} /\ Busy = {} /\ ~failed /\ todo = {}
    /\ times = None /\ deps = None /\ \A s \in Sources : unseen[s] = {}

(* An object checkDeps finds up to date, as long as nothing changes.       *)
Fresh(s) ==
  /\ Built(s) /\ dfile[s] # {}
  /\ \A g \in dfile[s] : text[g] # 0 /\ Stamp(g) <= Stamp(Object[s])

(* Since the build began nothing has changed.                              *)
Undisturbed ==
  /\ phase = "scan" =>
       \A f \in Files \ todo : IF text[f] = 0 THEN f \notin DOMAIN times
                               ELSE f \in DOMAIN times /\ times[f] = Stamp(f)
  /\ phase = "dispatch" =>
       /\ \A s \in Sources \ (queue \cup Busy) : failed \/ Fresh(s)
       /\ \A s \in Busy : \A f \in Reads(s) : running[s].from[f] = text[f]

(* Nothing has changed since a build that went well began.                 *)
AllDone ==
  /\ \A s \in Sources : Fresh(s) /\ Stamp(Object[s]) <= Stamp(Exe)
  /\ Stamp(Exe) # 0
  /\ phase = "dispatch" => queue = {} /\ Busy = {} /\ ~failed

QuietTells ==
  /\ quiet # "no" => Undisturbed
  /\ quiet # "no" /\ phase = "link" => \A s \in Sources : Fresh(s)
  /\ quiet = "so far" => phase # "idle"
  /\ quiet = "yes" => AllDone

IInv ==
  /\ WellFormed /\ TimesTell /\ RunningTell /\ NeedsShow /\ FileShows
  /\ Scanning /\ Dispatching /\ Linking /\ Idle
  /\ ProgramShows /\ QuietTells

----------------------------------------------------------------------------
(* What trimming leaves of each kind of token of a dependency file: the    *)
(* name before its marks, or nothing.                                      *)
Marks == {"lf", "cr", "backslash", "colon"}

LEMMA Cut ==
  /\ \A y : SubSeq(<<y>>, 1, 0) = <<>>
  /\ \A y, u : SubSeq(<<y, u>>, 1, 1) = <<y>>
  /\ \A y, u, v : SubSeq(<<y, u, v>>, 1, 2) = <<y, u>>
  <1>1. \A y : SubSeq(<<y>>, 1, 0) = <<>>
    BY SubSeqEmpty
  <1>2. ASSUME NEW y, NEW u PROVE SubSeq(<<y, u>>, 1, 1) = <<y>>
    <2> DEFINE S == {y, u}
               t == SubSeq(<<y, u>>, 1, 1)
    <2>1. \A i \in 1..1 : <<y, u>>[i] \in S
      OBVIOUS
    <2>2. t \in Seq(S) /\ Len(t) = 1 /\ \A i \in 1..1 : t[i] = <<y, u>>[i + 1 - 1]
      BY <2>1, SubSeqProperties
    <2>3. t[1] = y
      BY <2>2
    <2>4. <<y>> \in Seq(S) /\ Len(<<y>>) = 1 /\ <<y>>[1] = y
      OBVIOUS
    <2> HIDE DEF t, S
    <2>5. t = <<y>>
      BY <2>2, <2>3, <2>4, SeqEqual
    <2> QED
      BY <2>5 DEF t
  <1>3. ASSUME NEW y, NEW u, NEW v PROVE SubSeq(<<y, u, v>>, 1, 2) = <<y, u>>
    <2> DEFINE S == {y, u, v}
               t == SubSeq(<<y, u, v>>, 1, 2)
    <2>1. \A i \in 1..2 : <<y, u, v>>[i] \in S
      OBVIOUS
    <2>2. t \in Seq(S) /\ Len(t) = 2 /\ \A i \in 1..2 : t[i] = <<y, u, v>>[i + 1 - 1]
      BY <2>1, SubSeqProperties
    <2>3. t[1] = y /\ t[2] = u
      BY <2>2
    <2>4. <<y, u>> \in Seq(S) /\ Len(<<y, u>>) = 2 /\ <<y, u>>[1] = y /\ <<y, u>>[2] = u
      OBVIOUS
    <2> HIDE DEF t, S
    <2>5. t = <<y, u>>
      BY <2>2, <2>3, <2>4, SeqEqual
    <2> QED
      BY <2>5 DEF t
  <1> QED
    BY <1>1, <1>2, <1>3

LEMMA Joined ==
  ASSUME NEW y, NEW u
  PROVE  <<y>> \o <<u>> = <<y, u>> /\ \A v : <<y>> \o <<u, v>> = <<y, u, v>>
  <1> SUFFICES ASSUME NEW v
               PROVE  <<y>> \o <<u>> = <<y, u>> /\ <<y>> \o <<u, v>> = <<y, u, v>>
    OBVIOUS
  <1> DEFINE S == {y, u, v}
             two == <<y>> \o <<u>>
             three == <<y>> \o <<u, v>>
  <1>1. <<y>> \in Seq(S) /\ <<u>> \in Seq(S) /\ <<u, v>> \in Seq(S)
    OBVIOUS
  <1>2. Len(<<y>>) = 1 /\ Len(<<u>>) = 1 /\ Len(<<u, v>>) = 2
    OBVIOUS
  <1>3. two \in Seq(S) /\ Len(two) = 2 /\ two[1] = y /\ two[2] = u
    BY <1>1, <1>2, ConcatProperties
  <1>4. three \in Seq(S) /\ Len(three) = 3 /\ three[1] = y /\ three[2] = u /\ three[3] = v
    BY <1>1, <1>2, ConcatProperties
  <1>5. <<y, u>> \in Seq(S) /\ Len(<<y, u>>) = 2 /\ <<y, u>>[1] = y /\ <<y, u>>[2] = u
    OBVIOUS
  <1>6. /\ <<y, u, v>> \in Seq(S) /\ Len(<<y, u, v>>) = 3
        /\ <<y, u, v>>[1] = y /\ <<y, u, v>>[2] = u /\ <<y, u, v>>[3] = v
    OBVIOUS
  <1> HIDE DEF two, three, S
  <1>7. two = <<y, u>> /\ three = <<y, u, v>>
    BY <1>3, <1>4, <1>5, <1>6, SeqEqual
  <1> QED
    BY <1>7 DEF two, three

LEMMA Trimmed ==
  ASSUME NEW x, x \notin Marks
  PROVE  /\ Trim(<<x>>) = <<x>> /\ Trim(<<x, "colon">>) = <<x>>
         /\ Trim(<<x, "lf">>) = <<x>> /\ Trim(<<x, "cr", "lf">>) = <<x>>
         /\ Trim(<<"backslash", "lf">>) = <<>> /\ Trim(<<"backslash", "cr", "lf">>) = <<>>
  <1>1. \A y : TrimEnd(<<y>>, y) = <<>> /\ \A z : y # z => TrimEnd(<<y>>, z) = <<y>>
    BY Cut DEF TrimEnd
  <1>2. \A y, u : /\ TrimEnd(<<y, u>>, u) = <<y>>
                  /\ \A z : u # z => TrimEnd(<<y, u>>, z) = <<y, u>>
    <2> TAKE y, u
    <2>1. <<y, u>> # <<>> /\ Len(<<y, u>>) = 2 /\ <<y, u>>[2] = u /\ 2 - 1 = 1
      OBVIOUS
    <2> QED
      BY <2>1, Cut DEF TrimEnd
  <1>3. \A y, u, v : TrimEnd(<<y, u, v>>, v) = <<y, u>>
    <2> TAKE y, u, v
    <2>1. <<y, u, v>> # <<>> /\ Len(<<y, u, v>>) = 3 /\ <<y, u, v>>[3] = v /\ 3 - 1 = 2
      OBVIOUS
    <2> QED
      BY <2>1, Cut DEF TrimEnd
  <1>4. \A z : TrimEnd(<<>>, z) = <<>>
    BY DEF TrimEnd
  <1>5. x # "lf" /\ x # "cr" /\ x # "backslash" /\ x # "colon"
    BY DEF Marks
  <1> QED
    BY <1>1, <1>2, <1>3, <1>4, <1>5 DEF Trim

(* What the compiler lists is what the table then holds.                   *)
LEMMA FileParsed ==
  ASSUME NEW table, NEW s \in Sources, NEW names \in SUBSET Files, s \in names
  PROVE  WithFile(table, FileOf(s, names)) = Insert(table, Object[s], {<<f>> : f \in names})
  <1> DEFINE last == CHOOSE f \in names : f = s => names = {s}
             more == IF names = {s} THEN {} ELSE {<<"backslash">> \o EndOfLine[s]}
             rest == {<<f>> : f \in names \ {last}} \cup more \cup {<<last>> \o EndOfLine[s]}
  <1>1. last \in names
    OBVIOUS
  <1>2. \A x \in Paths : x \notin Marks
    BY MarksAssumption DEF Marks
  <1>3. Object[s] \in Paths /\ \A f \in names : f \in Paths
    BY DEF Paths, Objects
  <1>4. /\ \A f \in names : <<f>> # <<>>
        /\ \A f \in names : Trim(<<f>>) = <<f>>
        /\ Trim(<<Object[s], "colon">>) = <<Object[s]>>
    BY <1>2, <1>3, Trimmed
  <1>5. /\ Trim(<<last>> \o EndOfLine[s]) = <<last>>
        /\ Trim(<<"backslash">> \o EndOfLine[s]) = <<>>
    <2>1. CASE EndOfLine[s] = <<"lf">>
      <3>1. <<last>> \o <<"lf">> = <<last, "lf">>
        BY Joined
      <3>2. <<"backslash">> \o <<"lf">> = <<"backslash", "lf">>
        BY Joined
      <3> QED
        BY <1>1, <1>2, <1>3, <2>1, <3>1, <3>2, Trimmed
    <2>2. CASE EndOfLine[s] = <<"cr", "lf">>
      <3>1. <<last>> \o <<"cr", "lf">> = <<last, "cr", "lf">>
        BY Joined
      <3>2. <<"backslash">> \o <<"cr", "lf">> = <<"backslash", "cr", "lf">>
        BY Joined
      <3> QED
        BY <1>1, <1>2, <1>3, <2>2, <3>1, <3>2, Trimmed
    <2> QED
      BY <2>1, <2>2, EndOfLineAssumption
  <1>6. Names(rest) = {<<f>> : f \in names}
    <2> HIDE DEF last
    <2>1. ASSUME NEW t \in rest PROVE Trim(t) \in {<<f>> : f \in names} \cup {<<>>}
      BY <1>1, <1>4, <1>5
    <2>2. ASSUME NEW f \in names PROVE \E t \in rest : Trim(t) = <<f>>
      BY <1>4, <1>5
    <2> HIDE DEF rest
    <2>3. Names(rest) \subseteq {<<f>> : f \in names}
      BY <2>1 DEF Names
    <2>4. {<<f>> : f \in names} \subseteq Names(rest)
      BY <2>2, <1>4 DEF Names
    <2> QED
      BY <2>3, <2>4
  <1>7. FileOf(s, names) = [first |-> <<Object[s], "colon">>, rest |-> rest]
    BY DEF FileOf
  <1> HIDE DEF rest
  <1>8. FileOf(s, names).first = <<Object[s], "colon">> /\ FileOf(s, names).rest = rest
    BY <1>7
  <1>9. Len(<<Object[s]>>) = 1 /\ <<Object[s]>>[1] = Object[s]
    OBVIOUS
  <1> QED
    BY <1>4, <1>6, <1>8, <1>9 DEF WithFile

----------------------------------------------------------------------------
(* Times.                                                                  *)

LEMMA StampType ==
  ASSUME TypeOK
  PROVE  now \in Nat /\ now >= 1 /\ \A p \in Paths : Stamp(p) \in Nat /\ Stamp(p) <= now
  <1>1. now \in 1..MaxTime /\ created \in [Paths -> 0..now] /\ written \in [Paths -> 0..now]
    BY DEF TypeOK
  <1>2. now \in Nat /\ now >= 1
    BY <1>1, BoundsAssumption
  <1> QED
    BY <1>1, <1>2 DEF Stamp

LEMMA ObjectPaths ==
  /\ \A s \in Sources : Object[s] \in Paths /\ Object[s] \in Objects /\ Object[s] # Exe
  /\ \A s \in Sources : Object[s] \notin Files
  /\ Exe \in Paths /\ Exe \notin Files /\ \A f \in Files : f \in Paths
  /\ \A s \in Sources : s \in Files
  BY ObjectAssumption DEF Paths, Objects, Files

(* What is written gets the present time, and nothing else another.        *)
LEMMA TouchStamps ==
  ASSUME TypeOK, NEW p \in Paths, Touch(p)
  PROVE  \A q \in Paths : Stamp(q)' = IF q = p THEN now ELSE Stamp(q)
  BY BoundsAssumption DEF TypeOK, Touch, Stamp

(* One edit of f: Edit, Delete or Restore.                                 *)
EditOf(f) == Edit(f) \/ (f \in Headers /\ (Delete(f) \/ Restore(f)))

LEMMA EditStamps ==
  ASSUME TypeOK, NEW f \in Files, EditOf(f)
  PROVE  /\ \A q \in Paths : q # f => Stamp(q)' = Stamp(q)
         /\ \/ text'[f] = 0 /\ Stamp(f)' = 0
            \/ text'[f] # 0 /\ Stamp(f)' = now
         /\ \A q \in Files : q # f => text'[q] = text[q]
         /\ now' = now
  <1>1. /\ f \in Paths /\ now \in Nat /\ now >= 1 /\ edits \in Nat
        /\ created \in [Paths -> 0..now] /\ written \in [Paths -> 0..now]
        /\ text \in [Files -> 0..(MaxEdits + 1)]
    <2>1. f \in Paths /\ now \in Nat /\ now >= 1
      BY StampType DEF Paths
    <2>2. /\ edits \in 0..MaxEdits
          /\ created \in [Paths -> 0..now] /\ written \in [Paths -> 0..now]
          /\ text \in [Files -> 0..(MaxEdits + 1)]
      BY DEF TypeOK
    <2>3. edits \in Nat
      BY <2>2, BoundsAssumption
    <2> QED
      BY <2>1, <2>2, <2>3
  <1>2. CASE Edit(f)
    <2>1. /\ text' = [text EXCEPT ![f] = edits + 2] /\ written' = [written EXCEPT ![f] = now]
          /\ created' = created /\ now' = now
      BY <1>2 DEF Edit, NewText, Changed
    <2> QED
      BY <1>1, <2>1 DEF Stamp
  <1>3. CASE Delete(f)
    <2>1. /\ text' = [text EXCEPT ![f] = 0] /\ written' = [written EXCEPT ![f] = 0]
          /\ created' = [created EXCEPT ![f] = 0] /\ now' = now
      BY <1>3 DEF Delete, Changed
    <2> QED
      BY <1>1, <2>1 DEF Stamp
  <1>4. CASE Restore(f)
    <2>1. /\ text' = [text EXCEPT ![f] = edits + 2] /\ written' = [written EXCEPT ![f] = 1]
          /\ created' = [created EXCEPT ![f] = now] /\ now' = now
      BY <1>4 DEF Restore, NewText, Changed
    <2> QED
      BY <1>1, <2>1 DEF Stamp
  <1> QED
    BY <1>2, <1>3, <1>4 DEF EditOf

(* What s needs that an edit of f changes, or brings in.                   *)
Seen(s, f) == {f} \cup (includes'[s] \ includes[s])

LEMMA EditNeeds ==
  ASSUME TypeOK, NEW f \in Files, EditOf(f), NEW s \in Sources
  PROVE  /\ includes' \in [Sources -> SUBSET Headers]
         /\ Needs(s)' \subseteq Needs(s) \cup Seen(s, f)
         /\ IF f \in Needs(s) THEN f \in Needs(s)' ELSE Needs(s)' = Needs(s)
  <1>1. includes \in [Sources -> SUBSET Headers]
    BY DEF TypeOK
  <1>2. CASE NewText(f)
    <2>1. /\ includes' \in [Sources -> SUBSET Headers]
          /\ IF f \in Needs(s) THEN f \in Headers => f \in includes'[s]
                               ELSE includes'[s] = includes[s]
      BY <1>2 DEF NewText
    <2>2. f \in Needs(s) => f \in {s} \cup includes'[s]
      BY <2>1, <1>1 DEF Needs, Files
    <2> QED
      BY <2>1, <2>2, <1>1 DEF Needs, Seen
  <1>3. CASE UNCHANGED includes
    BY <1>1, <1>3 DEF Needs, Seen
  <1> QED
    BY <1>2, <1>3 DEF EditOf, Edit, Delete, Restore

LEMMA EditHistory ==
  ASSUME TypeOK, NEW f \in Files, EditOf(f)
  PROVE  /\ \A s \in Sources :
              /\ late[s] \subseteq late'[s]
              /\ now = Stamp(Object[s]) \/ f \in late[s] \ dfile[s] =>
                   late'[s] = late[s] \cup Seen(s, f)
              /\ phase # "idle" => unseen'[s] = unseen[s] \cup Seen(s, f)
              /\ phase = "idle" => unseen'[s] = {}
         /\ Busy' = Busy
         /\ \A s \in Busy : /\ running'[s].from = running[s].from
                            /\ running'[s].late = running[s].late \cup Seen(s, f)
         /\ quiet' = "no" /\ edits' \in 0..MaxEdits
         /\ UNCHANGED <<now, tableVars, outVars, phase, queue, kept, failed>>
         /\ late' \in [Sources -> SUBSET Files] /\ unseen' \in [Sources -> SUBSET Files]
  <1>1. Changed(f)
    BY DEF EditOf, Edit, Delete, Restore
  <1>2. \A s \in Sources : Seen(s, f) \subseteq Files
    BY EditNeeds DEF Seen, Files
  <1>3. edits' \in 0..MaxEdits
    <2>1. edits \in 0..MaxEdits /\ edits < MaxEdits /\ edits' = edits + 1
      BY <1>1 DEF Changed, TypeOK
    <2> QED
      BY <2>1, BoundsAssumption
  <1>4. late \in [Sources -> SUBSET Files] /\ unseen \in [Sources -> SUBSET Files]
    BY DEF TypeOK
  <1>5. \A s \in Sources :
           late'[s] = late[s] \cup (IF now = Stamp(Object[s]) \/ f \in late[s] \ dfile[s]
                                    THEN Seen(s, f) ELSE {})
    BY <1>1 DEF Changed, Seen
  <1>6. \A s \in Sources : unseen'[s] = IF phase = "idle" THEN {} ELSE unseen[s] \cup Seen(s, f)
    BY <1>1 DEF Changed, Seen
  <1>7. late' = [s \in Sources |-> late'[s]] /\ unseen' = [s \in Sources |-> unseen'[s]]
    BY <1>1 DEF Changed
  <1>8. late' \in [Sources -> SUBSET Files]
    BY <1>2, <1>4, <1>5, <1>7
  <1>9. unseen' \in [Sources -> SUBSET Files]
    BY <1>2, <1>4, <1>6, <1>7
  <1>10. running' = [s \in Busy |-> [from |-> running[s].from,
                                     late |-> running[s].late \cup Seen(s, f)]]
    BY <1>1 DEF Changed, Seen, Busy
  <1>11. /\ Busy' = Busy
         /\ \A s \in Busy : /\ running'[s].from = running[s].from
                            /\ running'[s].late = running[s].late \cup Seen(s, f)
    BY <1>10 DEF Busy
  <1>12. quiet' = "no" /\ UNCHANGED <<now, tableVars, outVars, phase, queue, kept, failed>>
    BY <1>1 DEF Changed
  <1> QED
    BY <1>3, <1>5, <1>6, <1>8, <1>9, <1>11, <1>12

LEMMA EditNew ==
  ASSUME WellFormed, NEW f \in Files, EditOf(f), NEW s \in Sources, Stamp(Object[s]) < now
  PROVE  /\ New(s, f)'
         /\ \A g \in Files : New(s, g) => New(s, g)'
  <1>1. Stamp(Object[s])' = Stamp(Object[s]) /\ now' = now
    BY EditStamps, ObjectPaths DEF WellFormed
  <1>2. New(s, f)'
    BY <1>1, EditStamps DEF New, WellFormed
  <1>3. ASSUME NEW g \in Files, g # f PROVE Stamp(g)' = Stamp(g) /\ text'[g] = text[g]
    BY <1>3, EditStamps, ObjectPaths DEF WellFormed
  <1> QED
    BY <1>1, <1>2, <1>3 DEF New

(* An edit leaves what was current current, or to be built once more.      *)
LEMMA EditCurrent ==
  ASSUME WellFormed, NEW f \in Files, EditOf(f), NEW s \in Sources, phase # "idle",
         CurrentAll(s)
  PROVE  CurrentAll(s)'
  <1> SUFFICES ASSUME NEW g \in Needs(s)' PROVE Current(s, g)'
    BY DEF CurrentAll
  <1>1. TypeOK
    BY DEF WellFormed
  <1>2. /\ late[s] \subseteq late'[s] /\ unseen'[s] = unseen[s] \cup Seen(s, f)
        /\ made' = made
    BY <1>1, EditHistory DEF outVars
  <1>3. CASE g \in Seen(s, f)
    BY <1>2, <1>3 DEF Current
  <1>4. CASE g \notin Seen(s, f)
    <2>1. g \in Needs(s) /\ g # f
      BY <1>1, <1>4, EditNeeds DEF Seen
    <2>2. g \in Files
      BY <1>1, <2>1 DEF TypeOK, Needs, Files
    <2>3. text'[g] = text[g]
      BY <1>1, <2>1, <2>2, EditStamps
    <2>4. Current(s, g)
      BY <2>1 DEF CurrentAll
    <2> QED
      BY <1>2, <2>3, <2>4 DEF Current
  <1> QED
    BY <1>3, <1>4

LEMMA NeedsFiles == TypeOK => \A s \in Sources : Needs(s) \subseteq Files /\ s \in Needs(s)
  BY DEF TypeOK, Needs, Files

LEMMA EditRunning ==
  ASSUME IInv, NEW f \in Files, EditOf(f)
  PROVE  RunningTell'
  <1>1. TypeOK /\ WellFormed /\ RunningTell
    BY DEF IInv, WellFormed
  <1>2. /\ Busy' = Busy
        /\ \A s \in Busy : /\ running'[s].from = running[s].from
                           /\ running'[s].late = running[s].late \cup Seen(s, f)
    BY <1>1, EditHistory
  <1> SUFFICES ASSUME NEW s \in Busy
               PROVE  /\ \A g \in Reads(s)' : \/ running'[s].from[g] = text'[g]
                                              \/ g \in running'[s].late
                      /\ Needs(s)' \subseteq Reads(s)' \cup running'[s].late
                      /\ Built(s)' /\ ~(Needs(s)' \subseteq Reads(s)') =>
                           \E g \in Reads(s)' : New(s, g)'
    BY <1>2 DEF RunningTell
  <1>3. s \in Sources /\ Reads(s) \subseteq Files /\ Reads(s)' = Reads(s)
    BY <1>1, <1>2 DEF TypeOK, WellFormed, Reads
  <1>4. Stamp(Object[s]) < now /\ Stamp(Object[s])' = Stamp(Object[s])
    <2>1. phase = "dispatch"
      BY <1>1 DEF IInv, TypeOK, Scanning, Linking, Idle
    <2>2. Stamp(Object[s]) < now
      BY <2>1 DEF IInv, Dispatching
    <2> QED
      BY <1>1, <1>3, <2>2, EditStamps, ObjectPaths
  <1>5. ASSUME NEW g \in Reads(s)
        PROVE  running'[s].from[g] = text'[g] \/ g \in running'[s].late
    <2>1. running[s].from[g] = text[g] \/ g \in running[s].late
      BY <1>1 DEF RunningTell
    <2>2. g \in Files
      BY <1>3
    <2>3. g # f => text'[g] = text[g]
      BY <1>1, <2>2, EditStamps
    <2>4. f \in Seen(s, f)
      BY DEF Seen
    <2> QED
      BY <1>2, <2>1, <2>3, <2>4
  <1>6. Needs(s)' \subseteq Reads(s)' \cup running'[s].late
    <2>1. Needs(s) \subseteq Reads(s) \cup running[s].late
      BY <1>1 DEF RunningTell
    <2>2. Needs(s)' \subseteq Needs(s) \cup Seen(s, f)
      BY <1>1, <1>3, EditNeeds
    <2> QED
      BY <1>2, <1>3, <2>1, <2>2
  <1>7. ASSUME Built(s)', ~(Needs(s)' \subseteq Reads(s)')
        PROVE  \E g \in Reads(s) : New(s, g)'
    <2>1. Built(s)
      BY <1>4, <1>7 DEF Built
    <2>2. \A g \in Files : New(s, g) => New(s, g)'
      BY <1>1, <1>3, <1>4, EditNew
    <2>3. New(s, f)'
      BY <1>1, <1>3, <1>4, EditNew
    <2>4. f \notin Needs(s) => Needs(s)' = Needs(s)
      BY <1>1, <1>3, EditNeeds
    <2>5. ~(Needs(s) \subseteq Reads(s)) => \E g \in Reads(s) : New(s, g)
      BY <1>1, <2>1 DEF RunningTell
    <2>6. CASE Needs(s) \subseteq Reads(s)
      BY <1>7, <1>3, <2>3, <2>4, <2>6
    <2>7. CASE ~(Needs(s) \subseteq Reads(s))
      BY <1>3, <2>2, <2>5, <2>7
    <2> QED
      BY <2>6, <2>7
  <1> QED
    BY <1>3, <1>5, <1>6, <1>7

LEMMA EditShows ==
  ASSUME IInv, NEW f \in Files, EditOf(f), NEW s \in Sources
  PROVE  /\ \A g \in DOMAIN made[s] :
              \/ text'[g] \in {made[s][g], 0} \/ g \in late'[s]
              \/ Stamp(g)' > Stamp(Object[s])'
         /\ Built(s)' =>
              \/ Needs(s)' \subseteq DOMAIN made[s] \cup late'[s]
              \/ \E g \in Needs(s)' : New(s, g)'
         /\ Built(s)' =>
              \/ Needs(s)' \subseteq (DOMAIN made[s] \cap dfile[s]) \cup late'[s]
              \/ \E g \in dfile[s] : New(s, g)'
  <1>1. TypeOK /\ WellFormed
    BY DEF IInv, WellFormed
  <1>2. /\ Stamp(Object[s])' = Stamp(Object[s]) /\ now' = now
        /\ Stamp(Object[s]) \in Nat /\ now \in Nat /\ Stamp(Object[s]) <= now
    BY <1>1, EditStamps, StampType, ObjectPaths
  <1>3. DOMAIN made[s] \subseteq Files /\ dfile[s] \subseteq Files /\ Needs(s) \subseteq Files
    BY <1>1, NeedsFiles DEF WellFormed, TypeOK
  <1>4. /\ late[s] \subseteq late'[s]
        /\ now = Stamp(Object[s]) \/ f \in late[s] \ dfile[s] =>
             late'[s] = late[s] \cup Seen(s, f)
        /\ f \in Seen(s, f)
    BY <1>1, EditHistory DEF Seen
  <1>5. /\ Needs(s)' \subseteq Needs(s) \cup Seen(s, f)
        /\ f \in Needs(s) => f \in Needs(s)'
        /\ f \notin Needs(s) => Needs(s)' = Needs(s)
    BY <1>1, EditNeeds
  <1>6. \A g \in Files : Stamp(g) \in Nat /\ Stamp(g) <= now
    BY <1>1, StampType, ObjectPaths
  <1>7. now = Stamp(Object[s]) => \A g \in Files : ~New(s, g)
    BY <1>2, <1>6 DEF New
  <1>8. now # Stamp(Object[s]) => New(s, f)' /\ \A g \in Files : New(s, g) => New(s, g)'
    <2> SUFFICES ASSUME now # Stamp(Object[s])
                 PROVE  New(s, f)' /\ \A g \in Files : New(s, g) => New(s, g)'
      OBVIOUS
    <2>1. Stamp(Object[s]) < now
      BY <1>2
    <2> QED
      BY <2>1, <1>1, EditNew
  <1>9. ASSUME NEW g \in DOMAIN made[s]
        PROVE  \/ text'[g] \in {made[s][g], 0} \/ g \in late'[s]
               \/ Stamp(g)' > Stamp(Object[s])'
    <2>1. CASE g # f
      <3>1. text'[g] = text[g] /\ Stamp(g)' = Stamp(g)
        BY <1>1, <1>3, <2>1, EditStamps, ObjectPaths
      <3>2. \/ text[g] \in {made[s][g], 0} \/ g \in late[s]
            \/ Stamp(g) > Stamp(Object[s])
        BY DEF IInv, TimesTell
      <3> QED
        BY <1>2, <1>4, <3>1, <3>2
    <2>2. CASE g = f
      <3>1. text'[f] = 0 \/ Stamp(f)' = now
        BY <1>1, EditStamps
      <3> QED
        BY <1>2, <1>4, <2>2, <3>1
    <2> QED
      BY <2>1, <2>2
  <1>10. ASSUME Built(s)'
         PROVE  \/ Needs(s)' \subseteq DOMAIN made[s] \cup late'[s]
                \/ \E g \in Needs(s)' : New(s, g)'
    <2>1. \/ Needs(s) \subseteq DOMAIN made[s] \cup late[s]
          \/ \E g \in Needs(s) : New(s, g)
      BY <1>2, <1>10 DEF IInv, NeedsShow, Built
    <2>2. CASE now = Stamp(Object[s])
      BY <1>3, <1>4, <1>5, <1>7, <2>1, <2>2
    <2>3. CASE now # Stamp(Object[s]) /\ f \in Needs(s)
      BY <1>5, <1>8, <2>3
    <2>4. CASE now # Stamp(Object[s]) /\ f \notin Needs(s)
      BY <1>3, <1>4, <1>5, <1>8, <2>1, <2>4
    <2> QED
      BY <2>2, <2>3, <2>4
  <1>11. ASSUME Built(s)'
         PROVE  \/ Needs(s)' \subseteq (DOMAIN made[s] \cap dfile[s]) \cup late'[s]
                \/ \E g \in dfile[s] : New(s, g)'
    <2>1. \/ Needs(s) \subseteq (DOMAIN made[s] \cap dfile[s]) \cup late[s]
          \/ \E g \in dfile[s] : New(s, g)
      BY <1>2, <1>11 DEF IInv, FileShows, Built
    <2>2. CASE now = Stamp(Object[s])
      BY <1>3, <1>4, <1>5, <1>7, <2>1, <2>2
    <2>3. CASE now # Stamp(Object[s]) /\ f \in dfile[s]
      BY <1>8, <2>3
    <2>4. CASE now # Stamp(Object[s]) /\ f \notin dfile[s]
      <3>1. CASE \E g \in dfile[s] : New(s, g)
        BY <1>3, <1>8, <2>4, <3>1
      <3>2. CASE Needs(s) \subseteq (DOMAIN made[s] \cap dfile[s]) \cup late[s]
        <4>1. f \in Needs(s) => f \in late[s] \ dfile[s]
          BY <2>4, <3>2
        <4> QED
          BY <1>4, <1>5, <3>2, <4>1
      <3> QED
        BY <2>1, <3>1, <3>2
    <2> QED
      BY <2>2, <2>3, <2>4
  <1> QED
    BY <1>9, <1>10, <1>11

(* A step that leaves the disk, the outcomes and late as they are.         *)
LEMMA SameDisk ==
  ASSUME IInv, UNCHANGED <<diskVars, outVars, late>>
  PROVE  /\ \A p : Stamp(p)' = Stamp(p)
         /\ \A s \in Sources : /\ Needs(s)' = Needs(s) /\ Built(s)' = Built(s)
                               /\ Fresh(s)' = Fresh(s)
                               /\ \A g : New(s, g)' = New(s, g)
         /\ TypeOK' => TimesTell'
         /\ NeedsShow' /\ FileShows' /\ ProgramShows'
         /\ made' = [s \in Sources |-> made'[s]]
         /\ \A s \in Sources : DOMAIN made'[s] \subseteq Files
         /\ \A s \in Sources : dfile'[s] # {} => s \in dfile'[s]
         /\ \A f \in Files : text'[f] = 0 <=> Stamp(f)' = 0
  <1>1. /\ UNCHANGED <<now, text, includes, created, written, dfile, made, linked, late>>
        /\ IInv
    BY DEF diskVars, outVars
  <1>2. \A p : Stamp(p)' = Stamp(p)
    BY <1>1 DEF Stamp
  <1>3. \A s \in Sources : Needs(s)' = Needs(s) /\ Built(s)' = Built(s) /\ Fresh(s)' = Fresh(s)
    BY <1>1, <1>2 DEF Needs, Built, Fresh
  <1>4. \A s \in Sources : \A g : New(s, g)' = New(s, g)
    BY <1>1, <1>2 DEF New
  <1>5. TypeOK' => TimesTell'
    BY <1>1, <1>2 DEF TimesTell, IInv
  <1>6. NeedsShow' /\ FileShows' /\ ProgramShows'
    BY <1>1, <1>2, <1>3, <1>4 DEF NeedsShow, FileShows, ProgramShows, IInv
  <1> QED
    BY <1>1, <1>2, <1>3, <1>4, <1>5, <1>6 DEF IInv, WellFormed

----------------------------------------------------------------------------
(* Every step keeps the invariant.                                         *)

LEMMA EditStep ==
  ASSUME IInv, NEW f \in Files, EditOf(f)
  PROVE  IInv'
  <1>1. TypeOK /\ WellFormed
    BY DEF IInv, WellFormed
  <1>2. /\ UNCHANGED <<now, todo, times, deps, dfile, made, linked, phase, queue, kept, failed>>
        /\ Busy' = Busy /\ quiet' = "no"
        /\ \A s \in Busy : /\ running'[s].from = running[s].from
                           /\ running'[s].late = running[s].late \cup Seen(s, f)
        /\ \A s \in Sources : late[s] \subseteq late'[s]
    BY <1>1, EditHistory DEF outVars, tableVars
  <1>3. \A q \in Paths : q # f => Stamp(q)' = Stamp(q)
    BY <1>1, EditStamps
  <1>4. \A s \in Sources : Stamp(Object[s])' = Stamp(Object[s]) /\ Built(s)' = Built(s)
    BY <1>3, ObjectPaths DEF Built
  <1>5. Stamp(Exe)' = Stamp(Exe)
    BY <1>3, ObjectPaths
  <1>6. TypeOK'
    <2>1. text' \in [Files -> 0..(MaxEdits + 1)] /\ created' \in [Paths -> 0..now]
          /\ written' \in [Paths -> 0..now]
      <3>1. /\ text \in [Files -> 0..(MaxEdits + 1)]
            /\ created \in [Paths -> 0..now] /\ written \in [Paths -> 0..now]
            /\ edits \in 0..MaxEdits
        BY <1>1 DEF TypeOK
      <3>2. now \in Nat /\ now >= 1
        BY <1>1, StampType
      <3>3. edits < MaxEdits
        BY DEF EditOf, Edit, Delete, Restore, Changed
      <3>4. /\ edits + 2 \in 0..(MaxEdits + 1) /\ 0 \in 0..(MaxEdits + 1)
            /\ 0 \in 0..now /\ 1 \in 0..now /\ now \in 0..now
        BY <3>1, <3>2, <3>3, BoundsAssumption
      <3>5. text' = [text EXCEPT ![f] = edits + 2] \/ text' = [text EXCEPT ![f] = 0]
        BY DEF EditOf, Edit, Delete, Restore, NewText
      <3>6. \/ created' = created \/ created' = [created EXCEPT ![f] = 0]
            \/ created' = [created EXCEPT ![f] = now]
        BY DEF EditOf, Edit, Delete, Restore
      <3>7. \/ written' = [written EXCEPT ![f] = now] \/ written' = [written EXCEPT ![f] = 0]
            \/ written' = [written EXCEPT ![f] = 1]
        BY DEF EditOf, Edit, Delete, Restore
      <3>8. text' \in [Files -> 0..(MaxEdits + 1)]
        BY <3>1, <3>4, <3>5
      <3>9. created' \in [Paths -> 0..now]
        BY <3>1, <3>4, <3>6
      <3>10. written' \in [Paths -> 0..now]
        BY <3>1, <3>4, <3>7
      <3> QED
        BY <3>8, <3>9, <3>10
    <2>2. includes' \in [Sources -> SUBSET Headers]
      <3>1. CASE NewText(f)
        BY <3>1 DEF NewText
      <3>2. CASE UNCHANGED includes
        BY <3>2, <1>1 DEF TypeOK
      <3> QED
        BY <3>1, <3>2 DEF EditOf, Edit, Delete, Restore
    <2>3. /\ late' \in [Sources -> SUBSET Files] /\ unseen' \in [Sources -> SUBSET Files]
          /\ edits' \in 0..MaxEdits
      BY <1>1, EditHistory
    <2>4. /\ now \in 1..MaxTime /\ phase \in {"idle", "scan", "dispatch", "link"}
          /\ dfile \in [Sources -> SUBSET Files] /\ todo \subseteq Files
          /\ DOMAIN times \subseteq Paths /\ DOMAIN deps \subseteq Objects \cup {Exe}
          /\ queue \cup kept \cup Busy \cup linked \subseteq Sources /\ failed \in BOOLEAN
      BY <1>1 DEF TypeOK
    <2> HIDE DEF Busy
    <2> QED
      BY <1>2, <2>1, <2>2, <2>3, <2>4 DEF TypeOK
  <1>7. WellFormed'
    <2>1. \A g \in Files : text'[g] = 0 <=> Stamp(g)' = 0
      <3>1. \A g \in Files : text[g] = 0 <=> Stamp(g) = 0
        BY <1>1 DEF WellFormed
      <3>2. now # 0
        BY <1>1, StampType
      <3>3. \A g \in Files : g # f => Stamp(g)' = Stamp(g) /\ text'[g] = text[g]
        BY <1>1, EditStamps, ObjectPaths
      <3>4. text'[f] = 0 <=> Stamp(f)' = 0
        BY <1>1, <3>2, EditStamps
      <3> QED
        BY <3>1, <3>3, <3>4
    <2>2. \A s \in Busy : Reads(s)' = Reads(s)
      BY <1>2 DEF Reads
    <2>3. \A s \in Busy : /\ Reads(s)' \subseteq Files /\ s \in Reads(s)'
                          /\ running'[s].late \subseteq Files
      <3>1. \A s \in Busy : s \in Sources
        BY <1>1 DEF TypeOK
      <3>2. \A s \in Sources : Seen(s, f) \subseteq Files
        BY <1>1, EditNeeds DEF Seen, Files
      <3> QED
        BY <1>1, <1>2, <2>2, <3>1, <3>2 DEF WellFormed
    <2>4. /\ made = [s \in Sources |-> made[s]]
          /\ \A s \in Sources : DOMAIN made[s] \subseteq Files
          /\ \A s \in Sources : dfile[s] # {} => s \in dfile[s]
      BY <1>1 DEF WellFormed
    <2> QED
      BY <1>2, <1>6, <2>1, <2>3, <2>4 DEF WellFormed
  <1>8. TimesTell' /\ NeedsShow' /\ FileShows'
    BY <1>2, <1>6, EditShows DEF TimesTell, NeedsShow, FileShows
  <1>9. RunningTell'
    BY EditRunning
  <1>10. \A s \in Sources : phase # "idle" /\ CurrentAll(s) => CurrentAll(s)'
    BY <1>1, EditCurrent
  <1>11. Scanning'
    <2> SUFFICES ASSUME phase = "scan" PROVE Scanning'
      BY <1>2 DEF Scanning
    <2>1. \A s \in Sources : Doomed(s) => Doomed(s)'
      <3> SUFFICES ASSUME NEW s \in Sources, Doomed(s) PROVE Doomed(s)'
        OBVIOUS
      <3>1. Stamp(Object[s]) < now
        BY DEF IInv, Scanning
      <3>2. PICK g \in dfile[s] :
              IF g \in todo THEN New(s, g)
                   ELSE g \notin DOMAIN times \/ ~(times[g] <= Stamp(Object[s]))
        BY DEF Doomed
      <3>3. g \in Files
        BY <1>1 DEF TypeOK
      <3>4. New(s, g) => New(s, g)'
        BY <1>1, <3>1, <3>3, EditNew
      <3> QED
        BY <1>2, <1>4, <3>2, <3>4 DEF Doomed
    <2>2. DOMAIN times \subseteq Objects \cup (Files \ todo) /\ Scanning
      BY DEF IInv, Scanning
    <2> QED
      BY <1>2, <1>4, <1>5, <1>10, <2>1, <2>2 DEF Scanning
  <1>12. Dispatching'
    <2>1. \A s \in queue \cup Busy : s \in Sources
      BY <1>1 DEF TypeOK
    <2> QED
      BY <1>2, <1>4, <1>5, <1>10, <2>1 DEF Dispatching, IInv
  <1>13. Linking'
    <2>1. \A P : P \subseteq Objects \cup {Exe} => TimesOf(P)' = TimesOf(P)
      <3>1. \A p \in Objects \cup {Exe} : Stamp(p)' = Stamp(p)
        BY <1>4, <1>5 DEF Objects
      <3> QED
        BY <3>1 DEF TimesOf
    <2> QED
      BY <1>2, <1>10, <2>1 DEF Linking, IInv
  <1>14. Idle' /\ ProgramShows' /\ QuietTells'
    <2>1. phase = "idle" => \A s \in Sources : unseen'[s] = {}
      BY <1>1, EditHistory
    <2> QED
      BY <1>2, <1>4, <1>5, <2>1 DEF Idle, ProgramShows, QuietTells, IInv
  <1> QED
    BY <1>7, <1>8, <1>9, <1>11, <1>12, <1>13, <1>14 DEF IInv

LEMMA TickStep == IInv /\ Tick => IInv'
  <1> SUFFICES ASSUME IInv, Tick PROVE IInv'
    OBVIOUS
  <1>1. /\ now' = now + 1 /\ now < MaxTime
        /\ UNCHANGED <<edits, text, includes, created, written, todo, times, deps, dfile, made,
                       linked, phase, queue, kept, running, failed, unseen, late, quiet>>
    BY DEF Tick, tableVars, outVars
  <1>2. TypeOK /\ now \in Nat /\ \A p \in Paths : Stamp(p) \in Nat /\ Stamp(p) <= now
    BY StampType DEF IInv, WellFormed
  <1>3. /\ \A p : Stamp(p)' = Stamp(p) /\ \A P : TimesOf(P)' = TimesOf(P)
        /\ Busy' = Busy /\ \A s : Reads(s)' = Reads(s) /\ Needs(s)' = Needs(s)
        /\ \A s : CurrentAll(s)' = CurrentAll(s) /\ Fresh(s)' = Fresh(s) /\ Built(s)' = Built(s)
    BY <1>1 DEF Stamp, TimesOf, Busy, Reads, Needs, CurrentAll, Current, Fresh, Built
  <1>4. \A p \in Paths : Stamp(p) < now => Stamp(p)' < now'
    BY <1>1, <1>2, <1>3
  <1>5. \A s \in Sources : \A g : New(s, g) => New(s, g)'
    BY <1>1, <1>3, <1>4, ObjectPaths DEF New
  <1>6. TypeOK'
    <2>1. /\ now \in 1..MaxTime
          /\ created \in [Paths -> 0..now] /\ written \in [Paths -> 0..now]
      BY <1>2 DEF TypeOK
    <2>2. now' \in 1..MaxTime /\ \A x \in 0..now : x \in 0..now'
      BY <1>1, <2>1, BoundsAssumption
    <2>3. created' \in [Paths -> 0..now'] /\ written' \in [Paths -> 0..now']
      BY <1>1, <2>1, <2>2
    <2> HIDE DEF Busy
    <2> QED
      BY <1>1, <1>2, <1>3, <2>2, <2>3 DEF TypeOK
  <1>7. WellFormed' /\ TimesTell'
    BY <1>1, <1>3, <1>6 DEF IInv, WellFormed, TimesTell
  <1>8. RunningTell' /\ NeedsShow' /\ FileShows'
    <2>1. \A s \in Busy : s \in Sources
      BY <1>2 DEF TypeOK
    <2>2. RunningTell'
      BY <1>1, <1>3, <1>5, <2>1 DEF IInv, RunningTell
    <2>3. NeedsShow' /\ FileShows'
      BY <1>1, <1>3, <1>5 DEF IInv, NeedsShow, FileShows
    <2> QED
      BY <2>2, <2>3
  <1>9. Scanning'
    <2>1. \A s \in Sources : Doomed(s) => Doomed(s)'
      BY <1>1, <1>3, <1>5 DEF Doomed
    <2> QED
      BY <1>1, <1>3, <1>4, <2>1, ObjectPaths DEF IInv, Scanning
  <1>10. Dispatching'
    <2>1. \A s \in queue \cup Busy : s \in Sources
      BY <1>2 DEF TypeOK
    <2> QED
      BY <1>1, <1>3, <1>4, <2>1, ObjectPaths DEF IInv, Dispatching
  <1>11. Linking' /\ Idle' /\ ProgramShows' /\ QuietTells'
    BY <1>1, <1>3 DEF IInv, Linking, Idle, ProgramShows, QuietTells, Undisturbed, AllDone
  <1> QED
    BY <1>7, <1>8, <1>9, <1>10, <1>11 DEF IInv

(* Compilations run, or wait, only while commands are dispatched.          *)
LEMMA BusyDispatches == IInv /\ Busy # {} => phase = "dispatch"
  BY DEF IInv, WellFormed, TypeOK, Scanning, Linking, Idle

LEMMA StartStep == ASSUME IInv, NEW s \in Sources, Start(s) PROVE IInv'
  <1>1. /\ phase = "dispatch" /\ s \in queue
        /\ queue' = queue \ {s}
        /\ UNCHANGED <<diskVars, todo, times, deps, outVars, phase, kept, failed, unseen, late,
                       quiet>>
        /\ UNCHANGED <<now, edits, text, includes, created, written, dfile, made, linked>>
    BY DEF Start, diskVars, tableVars, outVars
  <1>2. TypeOK /\ WellFormed /\ Dispatching /\ queue \cap Busy = {}
    BY <1>1 DEF IInv, WellFormed, Dispatching
  <1>3. s \notin DOMAIN running /\ queue \subseteq Sources /\ Busy \subseteq Sources
    BY <1>1, <1>2 DEF Busy, TypeOK
  <1>4. /\ Busy' = Busy \cup {s}
        /\ running'[s] = [from |-> [f \in Needs(s) |-> text[f]], late |-> {}]
        /\ \A t \in Busy : running'[t] = running[t]
    BY <1>3 DEF Start, Insert, Busy
  <1>5. Reads(s)' = Needs(s) /\ \A t \in Busy : Reads(t)' = Reads(t)
    BY <1>4 DEF Reads
  <1>6. TypeOK'
    <2> HIDE DEF Busy
    <2> QED
      BY <1>1, <1>2, <1>3, <1>4 DEF TypeOK
  <1>7. /\ \A p : Stamp(p)' = Stamp(p)
        /\ \A t \in Sources : /\ Needs(t)' = Needs(t) /\ Built(t)' = Built(t)
                              /\ Fresh(t)' = Fresh(t)
                              /\ \A g : New(t, g)' = New(t, g)
        /\ TimesTell' /\ NeedsShow' /\ FileShows' /\ ProgramShows'
    BY <1>1, <1>6, SameDisk
  <1>8. WellFormed'
    <2>1. /\ made' = [t \in Sources |-> made'[t]]
          /\ \A t \in Sources : DOMAIN made'[t] \subseteq Files
          /\ \A t \in Sources : dfile'[t] # {} => t \in dfile'[t]
          /\ \A f \in Files : text'[f] = 0 <=> Stamp(f)' = 0
      BY <1>1, SameDisk
    <2>2. Needs(s) \subseteq Files /\ s \in Needs(s)
      BY <1>2, NeedsFiles
    <2>3. running'[s].late = {}
      BY <1>4
    <2> QED
      BY <1>2, <1>4, <1>5, <1>6, <2>1, <2>2, <2>3 DEF WellFormed
  <1>9. RunningTell'
    <2>1. running'[s].from = [f \in Needs(s) |-> text[f]] /\ running'[s].late = {}
      BY <1>4
    <2>2. RunningTell
      BY DEF IInv
    <2> QED
      BY <1>1, <1>3, <1>4, <1>5, <1>7, <2>1, <2>2 DEF RunningTell
  <1>10. \A t : CurrentAll(t)' = CurrentAll(t)
    BY <1>1 DEF CurrentAll, Current, Needs
  <1>11. Scanning' /\ Linking' /\ Idle'
    BY <1>1 DEF Scanning, Linking, Idle
  <1>12. Sources \ (queue \cup Busy)' = Sources \ (queue \cup Busy)
    BY <1>1, <1>4
  <1>13. Dispatching'
    BY <1>1, <1>2, <1>4, <1>7, <1>10, <1>12 DEF Dispatching
  <1>14. QuietTells'
    <2>1. QuietTells
      BY DEF IInv
    <2>2. quiet # "yes"
      BY <1>1, <2>1 DEF QuietTells, AllDone
    <2>3. running'[s].from = [f \in Needs(s) |-> text[f]]
      BY <1>4
    <2>4. Undisturbed => Undisturbed'
      BY <1>1, <1>4, <1>5, <1>7, <1>12, <2>3 DEF Undisturbed
    <2> QED
      BY <1>1, <2>1, <2>2, <2>4 DEF QuietTells
  <1> QED
    BY <1>7, <1>8, <1>9, <1>11, <1>13, <1>14 DEF IInv

(* A compilation has ended: what is still running is as it was.            *)
LEMMA Ended ==
  ASSUME NEW s \in Busy, running' = StillRunning(s)
  PROVE  /\ Busy' = Busy \ {s}
         /\ \A t \in Busy \ {s} : running'[t] = running[t] /\ Reads(t)' = Reads(t)
  BY DEF StillRunning, Busy, Reads

LEMMA FailStep == ASSUME IInv, NEW s \in Sources, CompileFails(s) PROVE IInv'
  <1>1. /\ s \in Busy /\ running' = StillRunning(s) /\ failed' = TRUE
        /\ UNCHANGED <<diskVars, todo, times, deps, outVars, phase, queue, kept, unseen, late,
                       quiet>>
        /\ UNCHANGED <<now, edits, text, includes, created, written, dfile, made, linked>>
    BY DEF CompileFails, diskVars, tableVars, outVars
  <1>2. TypeOK /\ WellFormed /\ phase = "dispatch" /\ Dispatching
    BY <1>1, BusyDispatches DEF IInv, WellFormed
  <1>3. /\ Busy' = Busy \ {s}
        /\ \A t \in Busy \ {s} : running'[t] = running[t] /\ Reads(t)' = Reads(t)
    BY <1>1, Ended
  <1>4. TypeOK'
    <2> HIDE DEF Busy
    <2> QED
      BY <1>1, <1>2, <1>3 DEF TypeOK
  <1>5. /\ \A p : Stamp(p)' = Stamp(p)
        /\ \A t \in Sources : /\ Needs(t)' = Needs(t) /\ Built(t)' = Built(t)
                              /\ \A g : New(t, g)' = New(t, g)
        /\ TimesTell' /\ NeedsShow' /\ FileShows' /\ ProgramShows'
        /\ made' = [t \in Sources |-> made'[t]]
        /\ \A t \in Sources : DOMAIN made'[t] \subseteq Files
        /\ \A t \in Sources : dfile'[t] # {} => t \in dfile'[t]
        /\ \A f \in Files : text'[f] = 0 <=> Stamp(f)' = 0
    BY <1>1, <1>4, SameDisk
  <1>6. WellFormed'
    BY <1>2, <1>3, <1>4, <1>5 DEF WellFormed
  <1>7. RunningTell'
    <2>1. Busy \subseteq Sources /\ RunningTell
      BY <1>2 DEF TypeOK, IInv
    <2> QED
      BY <1>1, <1>3, <1>5, <2>1 DEF RunningTell
  <1>8. Dispatching'
    <2>1. Busy \subseteq Sources /\ queue \subseteq Sources
      BY <1>2 DEF TypeOK
    <2> QED
      BY <1>1, <1>2, <1>3, <1>5, <2>1 DEF Dispatching
  <1>9. Scanning' /\ Linking' /\ Idle'
    BY <1>1, <1>2 DEF Scanning, Linking, Idle
  <1>10. QuietTells'
    <2>1. QuietTells
      BY DEF IInv
    <2>2. quiet # "yes"
      BY <1>1, <1>2, <2>1 DEF QuietTells, AllDone
    <2>3. Undisturbed => Undisturbed'
      BY <1>1, <1>2, <1>3 DEF Undisturbed
    <2> QED
      BY <1>1, <1>2, <2>1, <2>2, <2>3 DEF QuietTells
  <1> QED
    BY <1>5, <1>6, <1>7, <1>8, <1>9, <1>10 DEF IInv

LEMMA CompiledStep == ASSUME IInv, NEW s \in Sources, Compiled(s) PROVE IInv'
  <1>1. /\ s \in Busy /\ running' = StillRunning(s) /\ Touch(Object[s])
        /\ \A f \in Reads(s) : running[s].from[f] # 0
        /\ dfile' = [dfile EXCEPT ![s] = Reads(s)]
        /\ made' = [made EXCEPT ![s] = running[s].from]
        /\ late' = [late EXCEPT ![s] = running[s].late]
        /\ linked' = linked \ {s}
        /\ UNCHANGED <<now, edits, text, includes, todo, times, deps, phase, queue, kept,
                       failed, unseen, quiet>>
    BY DEF Compiled, tableVars
  <1>2. /\ TypeOK /\ WellFormed /\ phase = "dispatch" /\ Dispatching
        /\ Busy \subseteq Sources /\ queue \subseteq Sources
    BY <1>1, BusyDispatches DEF IInv, WellFormed, TypeOK
  <1>3. /\ Busy' = Busy \ {s}
        /\ \A t \in Busy \ {s} : running'[t] = running[t] /\ Reads(t)' = Reads(t)
    BY <1>1, Ended
  <1>4. \A q \in Paths : Stamp(q)' = IF q = Object[s] THEN now ELSE Stamp(q)
    BY <1>1, <1>2, TouchStamps, ObjectPaths
  <1>5. /\ Stamp(Object[s])' = now /\ Stamp(Exe)' = Stamp(Exe)
        /\ \A f \in Files : Stamp(f)' = Stamp(f)
        /\ \A t \in Sources \ {s} : Stamp(Object[t])' = Stamp(Object[t])
    BY <1>4, ObjectPaths, ObjectAssumption
  <1>6. /\ Reads(s) \subseteq Files /\ s \in Reads(s) /\ running[s].late \subseteq Files
        /\ dfile \in [Sources -> SUBSET Files] /\ late \in [Sources -> SUBSET Files]
        /\ made = [t \in Sources |-> made[t]]
    BY <1>1, <1>2 DEF WellFormed, TypeOK
  <1>7. /\ dfile'[s] = Reads(s) /\ late'[s] = running[s].late
        /\ made'[s] = running[s].from /\ DOMAIN made'[s] = Reads(s)
        /\ \A t \in Sources \ {s} :
             dfile'[t] = dfile[t] /\ late'[t] = late[t] /\ made'[t] = made[t]
    BY <1>1, <1>6 DEF Reads
  <1>8. /\ \A t \in Sources : Needs(t)' = Needs(t) /\ Needs(t) \subseteq Files
        /\ \A t \in Sources \ {s} : /\ Built(t)' = Built(t)
                                    /\ \A g \in Files : New(t, g)' = New(t, g)
    BY <1>1, <1>2, <1>5, NeedsFiles DEF Needs, Built, New
  <1>9. TypeOK'
    <2>1. created' \in [Paths -> 0..now] /\ written' \in [Paths -> 0..now]
      <3>1. created \in [Paths -> 0..now] /\ written \in [Paths -> 0..now]
        BY <1>2 DEF TypeOK
      <3>2. now \in 0..now
        BY <1>2, StampType
      <3> QED
        BY <1>1, <3>1, <3>2 DEF Touch
    <2>2. dfile' \in [Sources -> SUBSET Files] /\ late' \in [Sources -> SUBSET Files]
      BY <1>1, <1>6
    <2> HIDE DEF Busy
    <2> QED
      BY <1>1, <1>2, <1>3, <2>1, <2>2 DEF TypeOK
  <1>10. WellFormed'
    <2>1. made' = [t \in Sources |-> made'[t]]
      BY <1>1, <1>6
    <2>2. \A t \in Sources : DOMAIN made'[t] \subseteq Files
      BY <1>2, <1>6, <1>7 DEF WellFormed
    <2> QED
      BY <1>1, <1>2, <1>3, <1>5, <1>6, <1>7, <1>9, <2>1, <2>2 DEF WellFormed
  <1>11. /\ \A f \in Reads(s) : running[s].from[f] = text[f] \/ f \in running[s].late
         /\ Needs(s) \subseteq Reads(s) \cup running[s].late
    BY <1>1 DEF IInv, RunningTell
  <1>12. TimesTell'
    <2> SUFFICES ASSUME NEW t \in Sources, NEW f \in DOMAIN made'[t]
                 PROVE  \/ text'[f] \in {made'[t][f], 0} \/ f \in late'[t]
                        \/ Stamp(f)' > Stamp(Object[t])'
      BY <1>9 DEF TimesTell
    <2>1. CASE t = s
      BY <1>1, <1>7, <1>11, <2>1
    <2>2. CASE t # s
      <3>1. f \in DOMAIN made[t] /\ f \in Files
        BY <1>2, <1>7, <2>2 DEF WellFormed
      <3>2. \/ text[f] \in {made[t][f], 0} \/ f \in late[t] \/ Stamp(f) > Stamp(Object[t])
        BY <3>1 DEF IInv, TimesTell
      <3> QED
        BY <1>1, <1>5, <1>7, <2>2, <3>1, <3>2
    <2> QED
      BY <2>1, <2>2
  <1>13. RunningTell'
    <2>1. RunningTell
      BY DEF IInv
    <2>2. \A t \in Busy : Reads(t) \subseteq Files
      BY <1>2 DEF WellFormed
    <2> QED
      BY <1>1, <1>2, <1>3, <1>8, <2>1, <2>2 DEF RunningTell
  <1>14. NeedsShow'
    <2>1. Needs(s)' \subseteq DOMAIN made'[s] \cup late'[s]
      BY <1>7, <1>8, <1>11
    <2>2. NeedsShow
      BY DEF IInv
    <2> QED
      BY <1>7, <1>8, <2>1, <2>2 DEF NeedsShow
  <1>15. FileShows'
    <2>1. Needs(s)' \subseteq (DOMAIN made'[s] \cap dfile'[s]) \cup late'[s]
      BY <1>7, <1>8, <1>11
    <2>2. FileShows /\ \A t \in Sources : dfile[t] \subseteq Files
      BY <1>6 DEF IInv
    <2> QED
      BY <1>7, <1>8, <2>1, <2>2 DEF FileShows
  <1>16. Dispatching'
    <2>1. CurrentAll(s)'
      BY <1>1, <1>7, <1>8, <1>11 DEF CurrentAll, Current
    <2>2. \A t \in Sources \ {s} : CurrentAll(t)' = CurrentAll(t)
      BY <1>1, <1>7, <1>8 DEF CurrentAll, Current
    <2> QED
      BY <1>1, <1>2, <1>3, <1>5, <2>1, <2>2 DEF Dispatching
  <1>17. Scanning' /\ Linking' /\ Idle'
    BY <1>1, <1>2 DEF Scanning, Linking, Idle
  <1>18. ProgramShows'
    <2>1. Stamp(Object[s])' > Stamp(Exe)'
      BY <1>2, <1>5, StampType, ObjectPaths DEF Dispatching
    <2> QED
      BY <1>1, <1>5, <2>1 DEF ProgramShows, IInv
  <1>19. QuietTells'
    <2>1. QuietTells
      BY DEF IInv
    <2>2. quiet # "yes"
      BY <1>1, <1>2, <2>1 DEF QuietTells, AllDone
    <2>3. ASSUME Undisturbed PROVE Undisturbed'
      <3>1. Fresh(s)'
        <4>1. Built(s)'
          BY <1>2, <1>5, StampType DEF Built
        <4>2. \A g \in Reads(s) : text'[g] # 0
          BY <1>1, <1>2, <2>3 DEF Undisturbed
        <4>3. \A g \in Reads(s) : Stamp(g)' <= Stamp(Object[s])'
          BY <1>2, <1>5, <1>6, StampType, ObjectPaths
        <4> QED
          BY <1>6, <1>7, <4>1, <4>2, <4>3 DEF Fresh
      <3>2. \A t \in Sources \ {s} : Fresh(t)' = Fresh(t)
        <4>1. \A t \in Sources : dfile[t] \subseteq Files
          BY <1>6
        <4> QED
          BY <1>1, <1>5, <1>7, <1>8, <4>1 DEF Fresh
      <3> QED
        BY <1>1, <1>2, <1>3, <2>3, <3>1, <3>2 DEF Undisturbed
    <2> QED
      BY <1>1, <1>2, <2>1, <2>2, <2>3 DEF QuietTells
  <1> QED
    BY <1>10, <1>12, <1>13, <1>14, <1>15, <1>16, <1>17, <1>18, <1>19 DEF IInv

(* A list of times of paths holds those that have one.                     *)
LEMMA TimesOfType ==
  ASSUME NEW P
  PROVE  /\ DOMAIN TimesOf(P) = {q \in P : Stamp(q) # 0}
         /\ \A p \in DOMAIN TimesOf(P) : TimesOf(P)[p] = Stamp(p)
  BY DEF TimesOf

(* What an object was made from, of what its dependency file names, is as  *)
(* it was, or was late, or is newer now.                                   *)
LEMMA ToldByFile ==
  ASSUME IInv, NEW s \in Sources, Built(s), Stamp(Object[s]) < now
  PROVE  (\E g \in dfile[s] : New(s, g)) \/ CurrentAll(s)
  <1> SUFFICES ASSUME Needs(s) \subseteq (DOMAIN made[s] \cap dfile[s]) \cup late[s],
                      ~ \E g \in dfile[s] : New(s, g)
               PROVE  CurrentAll(s)
    BY DEF IInv, FileShows
  <1> SUFFICES ASSUME NEW f \in DOMAIN made[s], f \in dfile[s]
               PROVE  made[s][f] = text[f] \/ f \in late[s]
    BY DEF CurrentAll, Current
  <1>1. \/ text[f] \in {made[s][f], 0} \/ f \in late[s] \/ Stamp(f) > Stamp(Object[s])
    BY DEF IInv, TimesTell
  <1>2. ~New(s, f)
    OBVIOUS
  <1> QED
    BY <1>1, <1>2 DEF New

LEMMA BeginStep == IInv /\ Begin => IInv'
  <1> SUFFICES ASSUME IInv, Begin PROVE IInv'
    OBVIOUS
  <1>1. /\ phase = "idle" /\ phase' = "scan" /\ todo' = Files /\ times' = TimesOf(Objects)
        /\ \A p \in Objects \cup {Exe} : Stamp(p) < now
        /\ quiet' = IF quiet = "no" THEN "so far" ELSE quiet
        /\ UNCHANGED <<deps, queue, kept, running, failed, unseen>>
        /\ UNCHANGED <<diskVars, outVars, late>>
        /\ UNCHANGED <<now, edits, text, includes, created, written, dfile, made, linked>>
    BY DEF Begin, diskVars, outVars
  <1>2. TypeOK /\ WellFormed /\ Idle
    BY DEF IInv, WellFormed
  <1>3. /\ DOMAIN TimesOf(Objects) = {q \in Objects : Stamp(q) # 0}
        /\ \A p \in DOMAIN TimesOf(Objects) : TimesOf(Objects)[p] = Stamp(p)
    BY TimesOfType
  <1>4. deps' = None /\ DOMAIN deps' = {} /\ Busy' = {} /\ Busy = {}
    BY <1>1, <1>2 DEF Idle, None, Busy
  <1>5. TypeOK'
    <2>1. DOMAIN times' \subseteq Paths
      BY <1>1, <1>3 DEF Paths
    <2> HIDE DEF Busy
    <2> QED
      BY <1>1, <1>2, <1>4, <2>1 DEF TypeOK
  <1>6. /\ \A p : Stamp(p)' = Stamp(p)
        /\ \A t \in Sources : /\ Needs(t)' = Needs(t) /\ Built(t)' = Built(t)
                              /\ Fresh(t)' = Fresh(t)
                              /\ \A g : New(t, g)' = New(t, g)
        /\ TimesTell' /\ NeedsShow' /\ FileShows' /\ ProgramShows'
        /\ made' = [t \in Sources |-> made'[t]]
        /\ \A t \in Sources : DOMAIN made'[t] \subseteq Files
        /\ \A t \in Sources : dfile'[t] # {} => t \in dfile'[t]
        /\ \A f \in Files : text'[f] = 0 <=> Stamp(f)' = 0
    BY <1>1, <1>5, SameDisk
  <1>7. WellFormed' /\ RunningTell'
    BY <1>4, <1>5, <1>6 DEF WellFormed, RunningTell
  <1>8. Scanning'
    <2>1. \A s \in Sources : Object[s] \in Objects
      BY ObjectPaths
    <2>2. ASSUME NEW s \in Sources
          PROVE  /\ Object[s] \in DOMAIN times' <=> Built(s)
                 /\ Built(s) => times'[Object[s]] = Stamp(Object[s])
      BY <1>1, <1>3, <2>1 DEF Built
    <2>3. ASSUME NEW s \in Sources, Built(s) PROVE Doomed(s)' \/ CurrentAll(s)'
      <3>1. (\E g \in dfile[s] : New(s, g)) \/ CurrentAll(s)
        BY <1>1, <2>1, <2>3, ToldByFile
      <3>2. CurrentAll(s)' = CurrentAll(s)
        BY <1>1 DEF CurrentAll, Current, Needs
      <3>3. dfile[s] \subseteq Files
        BY <1>2 DEF TypeOK
      <3> QED
        BY <1>1, <1>6, <3>1, <3>2, <3>3 DEF Doomed
    <2>4. DOMAIN times' \subseteq Objects
      BY <1>1, <1>3
    <2>5. \A s \in Sources : s \in Files
      BY ObjectPaths
    <2> QED
      BY <1>1, <1>2, <1>4, <1>6, <2>1, <2>2, <2>3, <2>4, <2>5 DEF Scanning, Idle
  <1>9. Dispatching' /\ Linking' /\ Idle'
    BY <1>1 DEF Dispatching, Linking, Idle
  <1>10. QuietTells'
    <2>1. Undisturbed'
      BY <1>1 DEF Undisturbed
    <2>2. QuietTells
      BY DEF IInv
    <2> QED
      BY <1>1, <1>6, <2>1, <2>2 DEF QuietTells, AllDone
  <1> QED
    BY <1>6, <1>7, <1>8, <1>9, <1>10 DEF IInv

(* What one entry of the directory adds to the tables.                     *)
LEMMA ScanTables ==
  ASSUME IInv, NEW f \in Files, Scan(f)
  PROVE  /\ f \notin DOMAIN times
         /\ DOMAIN times' = DOMAIN times \cup (IF Stamp(f) = 0 THEN {} ELSE {f})
         /\ Stamp(f) # 0 => times'[f] = Stamp(f)
         /\ \A p \in DOMAIN times : times'[p] = times[p]
         /\ DOMAIN deps' = DOMAIN deps \cup
              {Object[s] : s \in {t \in Sources : t = f /\ dfile[t] # {}}}
         /\ f \in Sources /\ dfile[f] # {} => deps'[Object[f]] = {<<g>> : g \in dfile[f]}
         /\ \A p \in DOMAIN deps : deps'[p] = deps[p]
  <1>1. /\ phase = "scan" /\ f \in todo /\ times' = WithTime(times, f)
        /\ deps' = IF f \in Sources /\ dfile[f] # {}
                   THEN WithFile(deps, FileOf(f, dfile[f])) ELSE deps
    BY DEF Scan
  <1>2. /\ DOMAIN times \subseteq Objects \cup (Files \ todo)
        /\ \A s \in Sources : Object[s] \in DOMAIN deps <=> s \notin todo /\ dfile[s] # {}
    BY <1>1 DEF IInv, Scanning
  <1>3. f \notin DOMAIN times
    BY <1>1, <1>2, ObjectAssumption
  <1>4. /\ DOMAIN times' = DOMAIN times \cup (IF Stamp(f) = 0 THEN {} ELSE {f})
        /\ Stamp(f) # 0 => times'[f] = Stamp(f)
        /\ \A p \in DOMAIN times : times'[p] = times[p]
    BY <1>1, <1>3 DEF WithTime, Insert
  <1>5. CASE f \in Sources /\ dfile[f] # {}
    <2>1. dfile[f] \in SUBSET Files /\ f \in dfile[f]
      BY <1>5 DEF IInv, WellFormed, TypeOK
    <2>2. deps' = Insert(deps, Object[f], {<<g>> : g \in dfile[f]})
      BY <1>1, <1>5, <2>1, FileParsed
    <2>3. Object[f] \notin DOMAIN deps
      BY <1>1, <1>2, <1>5
    <2>4. /\ DOMAIN deps' = DOMAIN deps \cup {Object[f]}
          /\ deps'[Object[f]] = {<<g>> : g \in dfile[f]}
          /\ \A p \in DOMAIN deps : deps'[p] = deps[p]
      BY <2>2, <2>3 DEF Insert
    <2>5. {Object[s] : s \in {t \in Sources : t = f /\ dfile[t] # {}}} = {Object[f]}
      BY <1>5
    <2> QED
      BY <1>3, <1>4, <2>4, <2>5
  <1>6. CASE ~(f \in Sources /\ dfile[f] # {})
    <2>1. deps' = deps
      BY <1>1, <1>6
    <2>2. {t \in Sources : t = f /\ dfile[t] # {}} = {}
      BY <1>6
    <2> QED
      BY <1>3, <1>4, <1>6, <2>1, <2>2
  <1> QED
    BY <1>5, <1>6

LEMMA ScanStep == ASSUME IInv, NEW f \in Files, Scan(f) PROVE IInv'
  <1>1. /\ phase = "scan" /\ f \in todo /\ todo' = todo \ {f}
        /\ UNCHANGED <<phase, queue, kept, running, failed, unseen, quiet>>
        /\ UNCHANGED <<diskVars, outVars, late>>
        /\ UNCHANGED <<now, edits, text, includes, created, written, dfile, made, linked>>
    BY DEF Scan, diskVars, outVars
  <1>2. /\ TypeOK /\ WellFormed /\ Scanning /\ Busy = {} /\ Busy' = {}
        /\ DOMAIN times \subseteq Objects \cup (Files \ todo)
    BY <1>1 DEF IInv, WellFormed, Scanning, Busy
  <1>3. /\ f \notin DOMAIN times
        /\ DOMAIN times' = DOMAIN times \cup (IF Stamp(f) = 0 THEN {} ELSE {f})
        /\ Stamp(f) # 0 => times'[f] = Stamp(f)
        /\ \A p \in DOMAIN times : times'[p] = times[p]
        /\ DOMAIN deps' = DOMAIN deps \cup
             {Object[s] : s \in {t \in Sources : t = f /\ dfile[t] # {}}}
        /\ f \in Sources /\ dfile[f] # {} => deps'[Object[f]] = {<<g>> : g \in dfile[f]}
        /\ \A p \in DOMAIN deps : deps'[p] = deps[p]
    BY ScanTables
  <1>4. TypeOK'
    <2>1. DOMAIN times' \subseteq Paths /\ DOMAIN deps' \subseteq Objects \cup {Exe}
      <3>1. DOMAIN times \subseteq Paths /\ DOMAIN deps \subseteq Objects \cup {Exe} /\ f \in Paths
        BY <1>2, ObjectPaths DEF TypeOK
      <3> QED
        BY <1>3, <3>1, ObjectPaths
    <2> HIDE DEF Busy
    <2> QED
      BY <1>1, <1>2, <2>1 DEF TypeOK
  <1>5. /\ \A p : Stamp(p)' = Stamp(p)
        /\ \A t \in Sources : /\ Needs(t)' = Needs(t) /\ Built(t)' = Built(t)
                              /\ Fresh(t)' = Fresh(t)
                              /\ \A g : New(t, g)' = New(t, g)
        /\ TimesTell' /\ NeedsShow' /\ FileShows' /\ ProgramShows'
        /\ made' = [t \in Sources |-> made'[t]]
        /\ \A t \in Sources : DOMAIN made'[t] \subseteq Files
        /\ \A t \in Sources : dfile'[t] # {} => t \in dfile'[t]
        /\ \A g \in Files : text'[g] = 0 <=> Stamp(g)' = 0
    BY <1>1, <1>4, SameDisk
  <1>6. WellFormed' /\ RunningTell'
    BY <1>2, <1>4, <1>5 DEF WellFormed, RunningTell
  <1>7. ASSUME NEW s \in Sources, Doomed(s) PROVE Doomed(s)'
    <2>1. PICK g \in dfile[s] :
            IF g \in todo THEN New(s, g)
                   ELSE g \notin DOMAIN times \/ ~(times[g] <= Stamp(Object[s]))
      BY <1>7 DEF Doomed
    <2>2. CASE g # f
      <3>1. g \in DOMAIN times' <=> g \in DOMAIN times
        BY <1>3, <2>2
      <3> QED
        BY <1>1, <1>3, <1>5, <2>1, <2>2, <3>1 DEF Doomed
    <2>3. CASE g = f
      <3>1. New(s, f) /\ (text[f] = 0 => Stamp(f) = 0)
        BY <1>1, <1>2, <2>1, <2>3 DEF WellFormed
      <3>2. Stamp(f) = 0 => f \notin DOMAIN times'
        BY <1>3
      <3>3. Stamp(f) # 0 => f \in DOMAIN times' /\ ~(times'[f] <= Stamp(Object[s]))
        <4>1. Stamp(f) \in Nat /\ Stamp(Object[s]) \in Nat
          BY <1>2, StampType, ObjectPaths
        <4> QED
          BY <1>3, <3>1, <4>1 DEF New
      <3> QED
        BY <1>1, <1>5, <2>1, <2>3, <3>2, <3>3 DEF Doomed
    <2> QED
      BY <2>2, <2>3
  <1>8. Scanning'
    <2>1. DOMAIN times' \subseteq Objects \cup (Files \ todo')
      BY <1>1, <1>2, <1>3
    <2>2. Exe \notin DOMAIN deps'
      <3>1. Exe \notin DOMAIN deps
        BY <1>1, <1>2 DEF Scanning
      <3> QED
        BY <1>3, <3>1, ObjectPaths
    <2> SUFFICES ASSUME NEW s \in Sources
                 PROVE  /\ Object[s] \in DOMAIN times' <=> Built(s)
                        /\ Built(s) => times'[Object[s]] = Stamp(Object[s])
                        /\ Object[s] \in DOMAIN deps' <=> s \notin todo' /\ dfile[s] # {}
                        /\ Object[s] \in DOMAIN deps' =>
                             deps'[Object[s]] = {<<g>> : g \in dfile[s]}
                        /\ Built(s) => Doomed(s)' \/ CurrentAll(s)'
      BY <1>1, <1>2, <1>5, <2>1, <2>2 DEF Scanning
    <2>3. /\ Object[s] \in DOMAIN times <=> Built(s)
          /\ Built(s) => times[Object[s]] = Stamp(Object[s])
          /\ Object[s] \in DOMAIN deps <=> s \notin todo /\ dfile[s] # {}
          /\ Object[s] \in DOMAIN deps => deps[Object[s]] = {<<g>> : g \in dfile[s]}
          /\ Built(s) => Doomed(s) \/ CurrentAll(s)
      BY <1>1, <1>2 DEF Scanning
    <2>4. Object[s] # f
      BY ObjectPaths
    <2>5. Object[s] \in {Object[u] : u \in {t \in Sources : t = f /\ dfile[t] # {}}}
            <=> s = f /\ dfile[s] # {}
      BY ObjectAssumption
    <2>6. CurrentAll(s)' = CurrentAll(s)
      BY <1>1 DEF CurrentAll, Current, Needs
    <2>7. Object[s] \in DOMAIN times' <=> Built(s)
      BY <1>3, <2>3, <2>4
    <2>8. Built(s) => times'[Object[s]] = Stamp(Object[s])
      BY <1>3, <2>3
    <2>9. Object[s] \in DOMAIN deps' <=> s \notin todo' /\ dfile[s] # {}
      BY <1>1, <1>3, <2>3, <2>5
    <2>10. Object[s] \in DOMAIN deps' => deps'[Object[s]] = {<<g>> : g \in dfile[s]}
      BY <1>3, <2>3, <2>5
    <2> QED
      BY <1>7, <2>3, <2>6, <2>7, <2>8, <2>9, <2>10
  <1>9. Dispatching' /\ Linking' /\ Idle'
    BY <1>1 DEF Dispatching, Linking, Idle
  <1>10. QuietTells'
    <2>1. QuietTells
      BY DEF IInv
    <2>2. ASSUME Undisturbed PROVE Undisturbed'
      <3> SUFFICES ASSUME NEW g \in Files \ todo'
                   PROVE  IF text[g] = 0 THEN g \notin DOMAIN times'
                          ELSE g \in DOMAIN times' /\ times'[g] = Stamp(g)
        BY <1>1, <1>5 DEF Undisturbed
      <3>1. CASE g = f
        BY <1>2, <1>3, <3>1 DEF WellFormed
      <3>2. CASE g # f
        <4>1. IF text[g] = 0 THEN g \notin DOMAIN times
              ELSE g \in DOMAIN times /\ times[g] = Stamp(g)
          BY <1>1, <2>2, <3>2 DEF Undisturbed
        <4> QED
          BY <1>3, <3>2, <4>1
      <3> QED
        BY <3>1, <3>2
    <2>3. AllDone => AllDone'
      BY <1>1, <1>5 DEF AllDone
    <2> QED
      BY <1>1, <1>5, <2>1, <2>2, <2>3 DEF QuietTells
  <1> QED
    BY <1>5, <1>6, <1>8, <1>9, <1>10 DEF IInv

(* When all is scanned, checkDeps passes over nothing that is not current. *)
LEMMA UpToDateIsCurrent ==
  ASSUME IInv, phase = "scan", todo = {}, NEW s \in Sources, UpToDate(Object[s])
  PROVE  CurrentAll(s)
  <1>1. /\ Object[s] \in DOMAIN times /\ Object[s] \in DOMAIN deps
        /\ \A name \in deps[Object[s]] : Known(name) /\ times[name[1]] <= times[Object[s]]
    BY DEF UpToDate
  <1>2. /\ Built(s) /\ times[Object[s]] = Stamp(Object[s])
        /\ deps[Object[s]] = {<<f>> : f \in dfile[s]}
        /\ Doomed(s) \/ CurrentAll(s)
    BY <1>1 DEF IInv, Scanning
  <1>3. ASSUME NEW g \in dfile[s]
        PROVE  g \in DOMAIN times /\ times[g] <= Stamp(Object[s])
    <2>1. <<g>>[1] = g /\ <<g>> \in deps[Object[s]]
      BY <1>2
    <2>2. g \in DOMAIN times /\ times[g] <= times[Object[s]]
      BY <1>1, <2>1 DEF Known
    <2> QED
      BY <1>2, <2>2
  <1>4. ~Doomed(s)
    BY <1>3 DEF Doomed
  <1> QED
    BY <1>2, <1>4

LEMMA QueueKeeps ==
  ASSUME IInv, NEW U \in SUBSET Sources, QueueCommands(U), \A s \in U : CurrentAll(s),
         quiet' \in {"no", "so far", "yes"},
         QuietTells'
  PROVE  IInv'
  <1>1. /\ phase = "scan" /\ todo = {} /\ phase' = "dispatch"
        /\ kept' = U /\ queue' = Sources \ U
        /\ UNCHANGED <<todo, times, deps, running, failed, unseen>>
        /\ UNCHANGED <<diskVars, outVars, late>>
        /\ UNCHANGED <<now, edits, text, includes, created, written, dfile, made, linked>>
    BY DEF QueueCommands, diskVars, outVars, tableVars
  <1>2. /\ TypeOK /\ WellFormed /\ Scanning /\ Busy = {} /\ Busy' = {}
    BY <1>1 DEF IInv, WellFormed, Scanning, Busy
  <1>3. TypeOK'
    <2> HIDE DEF Busy
    <2> QED
      BY <1>1, <1>2 DEF TypeOK
  <1>4. /\ \A p : Stamp(p)' = Stamp(p)
        /\ TimesTell' /\ NeedsShow' /\ FileShows' /\ ProgramShows'
        /\ made' = [t \in Sources |-> made'[t]]
        /\ \A t \in Sources : DOMAIN made'[t] \subseteq Files
        /\ \A t \in Sources : dfile'[t] # {} => t \in dfile'[t]
        /\ \A g \in Files : text'[g] = 0 <=> Stamp(g)' = 0
    BY <1>1, <1>3, SameDisk
  <1>5. WellFormed' /\ RunningTell'
    BY <1>2, <1>3, <1>4 DEF WellFormed, RunningTell
  <1>6. Dispatching'
    <2>1. \A s : CurrentAll(s)' = CurrentAll(s)
      BY <1>1 DEF CurrentAll, Current, Needs
    <2>2. /\ Stamp(Exe) < now /\ Exe \notin DOMAIN deps
          /\ \A s \in Sources : Stamp(Object[s]) < now
      BY <1>1, <1>2 DEF Scanning
    <2> QED
      BY <1>1, <1>2, <1>4, <2>1, <2>2 DEF Dispatching
  <1>7. Scanning' /\ Linking' /\ Idle'
    BY <1>1 DEF Scanning, Linking, Idle
  <1> QED
    BY <1>4, <1>5, <1>6, <1>7 DEF IInv

(* While nothing has changed, checkDeps finds up to date what is fresh.    *)
LEMMA FreshIsUpToDate ==
  ASSUME IInv, phase = "scan", todo = {}, Undisturbed, NEW s \in Sources
  PROVE  /\ Fresh(s) => UpToDate(Object[s])
         /\ UpToDate(Object[s]) => Fresh(s)
  <1>1. /\ Object[s] \in DOMAIN times <=> Built(s)
        /\ Built(s) => times[Object[s]] = Stamp(Object[s])
        /\ Object[s] \in DOMAIN deps <=> dfile[s] # {}
        /\ Object[s] \in DOMAIN deps => deps[Object[s]] = {<<f>> : f \in dfile[s]}
    BY DEF IInv, Scanning
  <1>2. \A g \in dfile[s] : IF text[g] = 0 THEN g \notin DOMAIN times
                            ELSE g \in DOMAIN times /\ times[g] = Stamp(g)
    BY DEF Undisturbed, IInv, WellFormed, TypeOK
  <1>3. \A g : <<g>>[1] = g /\ Len(<<g>>) = 1
    OBVIOUS
  <1>4. ASSUME Fresh(s) PROVE UpToDate(Object[s])
    <2>1. /\ Built(s) /\ dfile[s] # {}
          /\ \A g \in dfile[s] : text[g] # 0 /\ Stamp(g) <= Stamp(Object[s])
      BY <1>4 DEF Fresh
    <2>2. ASSUME NEW name \in deps[Object[s]]
          PROVE  Known(name) /\ times[name[1]] <= times[Object[s]]
      <3>1. PICK g \in dfile[s] : name = <<g>>
        BY <1>1, <2>1
      <3>2. g \in DOMAIN times /\ times[g] <= times[Object[s]]
        BY <1>1, <1>2, <2>1
      <3> QED
        BY <1>3, <3>1, <3>2 DEF Known
    <2> QED
      BY <1>1, <2>1, <2>2 DEF UpToDate
  <1>5. ASSUME UpToDate(Object[s]) PROVE Fresh(s)
    <2>1. /\ Object[s] \in DOMAIN times /\ Object[s] \in DOMAIN deps
          /\ \A name \in deps[Object[s]] : Known(name) /\ times[name[1]] <= times[Object[s]]
      BY <1>5 DEF UpToDate
    <2>2. ASSUME NEW g \in dfile[s] PROVE text[g] # 0 /\ Stamp(g) <= Stamp(Object[s])
      <3>1. <<g>> \in deps[Object[s]]
        BY <1>1, <2>1
      <3>2. g \in DOMAIN times /\ times[g] <= times[Object[s]]
        BY <1>3, <2>1, <3>1 DEF Known
      <3> QED
        BY <1>1, <1>2, <2>1, <3>2
    <2> QED
      BY <1>1, <2>1, <2>2 DEF Fresh
  <1> QED
    BY <1>4, <1>5

LEMMA QueueStep == IInv /\ (Queue \/ QueueAll) => IInv'
  <1> DEFINE U == {s \in Sources : UpToDate(Object[s])}
  <1>1. ASSUME IInv, Queue PROVE IInv'
    <2>1. /\ QueueCommands(U) /\ quiet' = quiet
          /\ phase = "scan" /\ todo = {} /\ phase' = "dispatch" /\ queue' = Sources \ U
          /\ UNCHANGED <<running, failed>>
          /\ UNCHANGED <<diskVars, outVars, late>>
      BY <1>1 DEF Queue, QueueCommands
    <2>2. \A s \in U : CurrentAll(s)
      BY <1>1, <2>1, UpToDateIsCurrent
    <2>3. Busy' = {} /\ Busy = {} /\ ~failed'
      BY <1>1, <2>1 DEF IInv, Scanning, Busy
    <2>4. /\ \A p : Stamp(p)' = Stamp(p)
          /\ \A t \in Sources : Fresh(t)' = Fresh(t)
      BY <1>1, <2>1, SameDisk
    <2>5. ASSUME quiet # "no" PROVE Undisturbed /\ \A s \in Sources : s \in U <=> Fresh(s)
      <3>1. Undisturbed
        BY <1>1, <2>5 DEF IInv, QuietTells
      <3> QED
        BY <1>1, <2>1, <3>1, FreshIsUpToDate
    <2>6. quiet # "no" => Undisturbed'
      BY <2>1, <2>3, <2>4, <2>5 DEF Undisturbed
    <2>7. quiet = "yes" => AllDone'
      <3> SUFFICES ASSUME quiet = "yes" PROVE AllDone'
        OBVIOUS
      <3>1. AllDone
        BY <1>1 DEF IInv, QuietTells
      <3>2. queue' = {}
        BY <2>1, <2>5, <3>1 DEF AllDone
      <3> QED
        BY <2>3, <2>4, <3>1, <3>2 DEF AllDone
    <2>8. QuietTells'
      BY <2>1, <2>6, <2>7 DEF QuietTells
    <2>9. quiet' \in {"no", "so far", "yes"}
      BY <1>1, <2>1 DEF IInv, WellFormed, TypeOK
    <2> HIDE DEF U
    <2>10. U \in SUBSET Sources
      BY DEF U
    <2> QED
      BY <1>1, <2>1, <2>2, <2>8, <2>9, <2>10, QueueKeeps
  <1>2. ASSUME IInv, QueueAll PROVE IInv'
    <2>1. /\ QueueCommands({}) /\ quiet' = IF quiet = "yes" THEN "so far" ELSE quiet
          /\ phase = "scan" /\ phase' = "dispatch" /\ queue' = Sources
          /\ UNCHANGED running
      BY <1>2 DEF QueueAll, QueueCommands
    <2>2. Busy' = {}
      BY <1>2, <2>1 DEF IInv, Scanning, Busy
    <2>3. quiet' # "yes" /\ quiet' \in {"no", "so far", "yes"}
      BY <1>2, <2>1 DEF IInv, WellFormed, TypeOK
    <2>4. Undisturbed'
      BY <2>1, <2>2 DEF Undisturbed
    <2>5. QuietTells'
      BY <2>1, <2>3, <2>4 DEF QuietTells
    <2> QED
      BY <1>2, <2>1, <2>3, <2>5, QueueKeeps
  <1> QED
    BY <1>1, <1>2

LEMMA AddDepsStep == IInv /\ AddDeps => IInv'
  <1> SUFFICES ASSUME IInv, AddDeps PROVE IInv'
    OBVIOUS
  <1> DEFINE objects == {<<o>> : o \in Objects}
  <1>1. /\ phase = "dispatch" /\ ~failed /\ queue = {} /\ Busy = {} /\ phase' = "link"
        /\ times' = TimesOf(Objects \cup {Exe})
        /\ deps' = Insert(deps, Exe, objects)
        /\ UNCHANGED <<todo, queue, kept, running, failed, unseen, quiet>>
        /\ UNCHANGED <<diskVars, outVars, late>>
        /\ UNCHANGED <<now, edits, text, includes, created, written, dfile, made, linked>>
    BY DEF AddDeps, diskVars, outVars
  <1>2. TypeOK /\ WellFormed /\ Dispatching /\ Busy' = {}
    BY <1>1 DEF IInv, WellFormed, Busy
  <1>3. Exe \notin DOMAIN deps
    BY <1>1, <1>2 DEF Dispatching
  <1> HIDE DEF objects
  <1>4. DOMAIN deps' = DOMAIN deps \cup {Exe} /\ deps'[Exe] = objects
    BY <1>1, <1>3 DEF Insert
  <1>5. TypeOK'
    <2>1. DOMAIN times' \subseteq Paths
      BY <1>1 DEF TimesOf, Paths
    <2>2. DOMAIN deps \subseteq Objects \cup {Exe}
      BY <1>2 DEF TypeOK
    <2>3. DOMAIN deps' \subseteq Objects \cup {Exe}
      BY <1>4, <2>2
    <2> HIDE DEF Busy
    <2> QED
      BY <1>1, <1>2, <2>1, <2>3 DEF TypeOK
  <1>6. /\ \A p : Stamp(p)' = Stamp(p)
        /\ \A t \in Sources : Fresh(t)' = Fresh(t)
        /\ TimesTell' /\ NeedsShow' /\ FileShows' /\ ProgramShows'
        /\ made' = [t \in Sources |-> made'[t]]
        /\ \A t \in Sources : DOMAIN made'[t] \subseteq Files
        /\ \A t \in Sources : dfile'[t] # {} => t \in dfile'[t]
        /\ \A g \in Files : text'[g] = 0 <=> Stamp(g)' = 0
    BY <1>1, <1>5, SameDisk
  <1>7. WellFormed' /\ RunningTell'
    BY <1>2, <1>5, <1>6 DEF WellFormed, RunningTell
  <1>8. Linking'
    <2>1. TimesOf(Objects \cup {Exe})' = TimesOf(Objects \cup {Exe})
      BY <1>6 DEF TimesOf
    <2>2. \A s \in Sources : CurrentAll(s)
      BY <1>1, <1>2 DEF Dispatching
    <2>3. \A s : CurrentAll(s)' = CurrentAll(s)
      BY <1>1 DEF CurrentAll, Current, Needs
    <2> QED
      BY <1>1, <1>2, <1>4, <2>1, <2>2, <2>3 DEF Linking, objects
  <1>9. Scanning' /\ Dispatching' /\ Idle'
    BY <1>1 DEF Scanning, Dispatching, Idle
  <1>10. QuietTells'
    <2>1. QuietTells
      BY DEF IInv
    <2>2. quiet # "no" => \A s \in Sources : Fresh(s)
      BY <1>1, <2>1 DEF QuietTells, Undisturbed
    <2>3. Undisturbed'
      BY <1>1 DEF Undisturbed
    <2>4. AllDone => AllDone'
      BY <1>1, <1>6 DEF AllDone
    <2> QED
      BY <1>1, <1>6, <2>1, <2>2, <2>3, <2>4 DEF QuietTells
  <1> QED
    BY <1>6, <1>7, <1>8, <1>9, <1>10 DEF IInv

(* The end of a build, however it ends.                                    *)
LEMMA OverKeeps ==
  ASSUME IInv, Over, TimesTell', NeedsShow', FileShows', ProgramShows',
         now' = now,
         /\ made' = [t \in Sources |-> made'[t]]
         /\ \A t \in Sources : DOMAIN made'[t] \subseteq Files
         /\ \A t \in Sources : dfile'[t] # {} => t \in dfile'[t]
         /\ \A g \in Files : text'[g] = 0 <=> Stamp(g)' = 0,
         quiet' \in {"no", "yes"}, quiet' = "yes" => AllDone'
  PROVE  IInv'
  <1>1. /\ phase' = "idle" /\ todo' = {} /\ times' = None /\ deps' = None
        /\ queue' = {} /\ kept' = {} /\ Busy' = {} /\ ~failed'
        /\ \A s \in Sources : unseen'[s] = {}
    BY DEF Over, None, Busy
  <1>2. WellFormed' /\ RunningTell'
    BY <1>1 DEF WellFormed, RunningTell, TimesTell
  <1>3. Scanning' /\ Dispatching' /\ Linking' /\ Idle'
    BY <1>1 DEF Scanning, Dispatching, Linking, Idle
  <1>4. QuietTells'
    BY <1>1 DEF QuietTells, Undisturbed
  <1> QED
    BY <1>2, <1>3, <1>4 DEF IInv

LEMMA OverType ==
  ASSUME TypeOK, Over, quiet' \in {"no", "yes"},
         UNCHANGED <<now, edits, text, includes, late>>,
         dfile' \in [Sources -> SUBSET Files], linked' \subseteq Sources,
         created' \in [Paths -> 0..now], written' \in [Paths -> 0..now]
  PROVE  TypeOK'
  <1>1. /\ phase' = "idle" /\ todo' = {} /\ DOMAIN times' = {} /\ DOMAIN deps' = {}
        /\ queue' = {} /\ kept' = {} /\ Busy' = {} /\ failed' = FALSE
        /\ unseen' = [s \in Sources |-> {}]
    BY DEF Over, None, Busy
  <1>2. unseen' \in [Sources -> SUBSET Files]
    BY <1>1
  <1> HIDE DEF Busy
  <1> QED
    BY <1>1, <1>2 DEF TypeOK

LEMMA GiveUpStep == IInv /\ GiveUp => IInv'
  <1> SUFFICES ASSUME IInv, GiveUp PROVE IInv'
    OBVIOUS
  <1>1. /\ phase = "dispatch" /\ failed /\ Over /\ quiet' = StillQuiet
        /\ UNCHANGED <<diskVars, outVars, late>>
        /\ UNCHANGED <<now, edits, text, includes, created, written, dfile, made, linked>>
    BY DEF GiveUp, diskVars, outVars
  <1>2. quiet' = "no"
    BY <1>1 DEF IInv, QuietTells, AllDone, StillQuiet
  <1>3. TypeOK'
    <2>1. /\ TypeOK /\ dfile' \in [Sources -> SUBSET Files] /\ linked' \subseteq Sources
          /\ created' \in [Paths -> 0..now] /\ written' \in [Paths -> 0..now]
      BY <1>1 DEF IInv, WellFormed, TypeOK
    <2> QED
      BY <1>1, <1>2, <2>1, OverType
  <1> QED
    BY <1>1, <1>2, <1>3, SameDisk, OverKeeps

LEMMA KilledStep == IInv /\ Killed => IInv'
  <1> SUFFICES ASSUME IInv, Killed PROVE IInv'
    OBVIOUS
  <1>1. /\ phase \in {"scan", "dispatch"} /\ Over /\ quiet' = StillQuiet
        /\ UNCHANGED <<now, edits, text, includes, created, written, made, linked, late>>
    BY DEF Killed, diskVars
  <1>2. PICK S \in SUBSET Busy :
          dfile' = [s \in Sources |-> IF s \in S THEN Reads(s) ELSE dfile[s]]
    BY DEF Killed
  <1>3. TypeOK /\ WellFormed
    BY DEF IInv, WellFormed
  <1>4. /\ \A s \in Busy : s \in Sources /\ Reads(s) \subseteq Files /\ s \in Reads(s)
        /\ dfile \in [Sources -> SUBSET Files]
    BY <1>3 DEF TypeOK, WellFormed
  <1>5. /\ \A s \in S : dfile'[s] = Reads(s)
        /\ \A s \in Sources \ S : dfile'[s] = dfile[s]
    BY <1>2, <1>4
  <1>6. \A p : Stamp(p)' = Stamp(p)
    BY <1>1 DEF Stamp
  <1>7. \A s \in Sources : /\ Needs(s)' = Needs(s) /\ Built(s)' = Built(s)
                           /\ \A g : New(s, g)' = New(s, g)
    BY <1>1, <1>6 DEF Needs, Built, New
  <1>8. quiet' \in {"no", "yes"}
    BY <1>1 DEF StillQuiet
  <1>9. TypeOK'
    <2>1. /\ linked' \subseteq Sources
          /\ created' \in [Paths -> 0..now] /\ written' \in [Paths -> 0..now]
      BY <1>1, <1>3 DEF TypeOK
    <2>2. dfile' \in [Sources -> SUBSET Files]
      BY <1>2, <1>4
    <2> QED
      BY <1>1, <1>3, <1>8, <2>1, <2>2, OverType
  <1>10. TimesTell'
    BY <1>1, <1>6, <1>9 DEF IInv, TimesTell
  <1>11. NeedsShow' /\ ProgramShows'
    BY <1>1, <1>6, <1>7 DEF IInv, NeedsShow, ProgramShows
  <1>12. FileShows'
    <2> SUFFICES ASSUME NEW s \in Sources, Built(s)
                 PROVE  \/ Needs(s) \subseteq (DOMAIN made[s] \cap dfile'[s]) \cup late[s]
                        \/ \E g \in dfile'[s] : New(s, g)
      BY <1>1, <1>7 DEF FileShows
    <2>1. CASE s \notin S
      BY <1>5, <2>1 DEF IInv, FileShows
    <2>2. CASE s \in S
      <3>1. \/ Needs(s) \subseteq DOMAIN made[s] \cup late[s]
            \/ \E g \in Needs(s) : New(s, g)
        BY DEF IInv, NeedsShow
      <3>2. ~(Needs(s) \subseteq Reads(s)) => \E g \in Reads(s) : New(s, g)
        BY <1>2, <2>2 DEF IInv, RunningTell
      <3>3. dfile'[s] = Reads(s)
        BY <1>5, <2>2
      <3> QED
        BY <3>1, <3>2, <3>3
    <2> QED
      BY <2>1, <2>2
  <1>13. /\ made' = [t \in Sources |-> made'[t]]
         /\ \A t \in Sources : DOMAIN made'[t] \subseteq Files
         /\ \A t \in Sources : dfile'[t] # {} => t \in dfile'[t]
         /\ \A g \in Files : text'[g] = 0 <=> Stamp(g)' = 0
    BY <1>1, <1>2, <1>3, <1>4, <1>5, <1>6 DEF WellFormed
  <1>14. quiet' = "yes" => AllDone'
    <2> SUFFICES ASSUME quiet' = "yes" PROVE AllDone'
      OBVIOUS
    <2>1. AllDone
      BY <1>1 DEF IInv, QuietTells, StillQuiet
    <2>2. S = {}
      BY <1>1, <1>2, <2>1 DEF AllDone, IInv, Scanning
    <2>3. \A t \in Sources : Fresh(t)' = Fresh(t)
      BY <1>1, <1>5, <1>6, <1>7, <2>2 DEF Fresh
    <2>4. phase' = "idle"
      BY <1>1 DEF Over
    <2> QED
      BY <1>6, <2>1, <2>3, <2>4 DEF AllDone
  <1> QED
    BY <1>1, <1>8, <1>10, <1>11, <1>12, <1>13, <1>14, OverKeeps

(* What checkDeps tells of the program, when it is to be linked.           *)
LEMMA ProgramTold ==
  ASSUME IInv, phase = "link"
  PROVE  UpToDate(Exe) <=> /\ Stamp(Exe) # 0
                           /\ \A s \in Sources : Built(s) /\ Stamp(Object[s]) <= Stamp(Exe)
  <1>1. /\ times = TimesOf(Objects \cup {Exe})
        /\ Exe \in DOMAIN deps /\ deps[Exe] = {<<o>> : o \in Objects}
    BY DEF IInv, Linking
  <1>2. /\ \A p \in Objects \cup {Exe} : p \in DOMAIN times <=> Stamp(p) # 0
        /\ \A p \in DOMAIN times : times[p] = Stamp(p)
    BY <1>1 DEF TimesOf
  <1>3. \A o : <<o>>[1] = o /\ Len(<<o>>) = 1
    OBVIOUS
  <1>4. ASSUME UpToDate(Exe)
        PROVE  /\ Stamp(Exe) # 0
               /\ \A s \in Sources : Built(s) /\ Stamp(Object[s]) <= Stamp(Exe)
    <2>1. /\ Exe \in DOMAIN times
          /\ \A name \in deps[Exe] : Known(name) /\ times[name[1]] <= times[Exe]
      BY <1>4 DEF UpToDate
    <2>2. ASSUME NEW s \in Sources PROVE Built(s) /\ Stamp(Object[s]) <= Stamp(Exe)
      <3>1. Object[s] \in Objects /\ <<Object[s]>> \in deps[Exe]
        BY <1>1, ObjectPaths
      <3>2. Object[s] \in DOMAIN times /\ times[Object[s]] <= times[Exe]
        BY <1>3, <2>1, <3>1 DEF Known
      <3> QED
        BY <1>2, <2>1, <3>1, <3>2 DEF Built
    <2> QED
      BY <1>2, <2>1, <2>2
  <1>5. ASSUME Stamp(Exe) # 0,
               \A s \in Sources : Built(s) /\ Stamp(Object[s]) <= Stamp(Exe)
        PROVE  UpToDate(Exe)
    <2>1. ASSUME NEW name \in deps[Exe] PROVE Known(name) /\ times[name[1]] <= times[Exe]
      <3>1. PICK s \in Sources : name = <<Object[s]>>
        BY <1>1 DEF Objects
      <3>2. Object[s] \in Objects /\ Built(s) /\ Stamp(Object[s]) <= Stamp(Exe)
        BY <1>5, ObjectPaths
      <3>3. Object[s] \in DOMAIN times /\ times[Object[s]] <= times[Exe]
        BY <1>2, <1>5, <3>2 DEF Built
      <3> QED
        BY <1>3, <3>1, <3>3 DEF Known
    <2> QED
      BY <1>1, <1>2, <1>5, <2>1 DEF UpToDate
  <1> QED
    BY <1>4, <1>5

LEMMA LinkStep == IInv /\ Link => IInv'
  <1> SUFFICES ASSUME IInv, Link PROVE IInv'
    OBVIOUS
  <1>1. /\ phase = "link" /\ Over
        /\ IF UpToDate(Exe) THEN UNCHANGED <<linked, created, written>>
                            ELSE linked' = Sources /\ Touch(Exe)
        /\ quiet' = IF quiet = "no" THEN "no" ELSE "yes"
        /\ UNCHANGED <<now, edits, text, includes, dfile, made, late>>
    BY DEF Link
  <1>2. /\ TypeOK /\ WellFormed /\ phase' = "idle"
    BY <1>1 DEF IInv, WellFormed, Over
  <1>3. \A q \in Paths : q # Exe => Stamp(q)' = Stamp(q)
    <2>1. CASE UpToDate(Exe)
      BY <1>1, <2>1 DEF Stamp
    <2>2. CASE ~UpToDate(Exe)
      BY <1>1, <1>2, <2>2, TouchStamps, ObjectPaths
    <2> QED
      BY <2>1, <2>2
  <1>4. ~UpToDate(Exe) => linked' = Sources /\ Stamp(Exe)' = now
    BY <1>1, <1>2, TouchStamps, ObjectPaths
  <1>5. UpToDate(Exe) => linked' = linked /\ Stamp(Exe)' = Stamp(Exe)
    BY <1>1 DEF Stamp
  <1>6. /\ \A f \in Files : Stamp(f)' = Stamp(f)
        /\ \A s \in Sources : Stamp(Object[s])' = Stamp(Object[s])
    BY <1>3, ObjectPaths
  <1>7. \A s \in Sources : /\ Needs(s)' = Needs(s) /\ Built(s)' = Built(s)
                           /\ \A g \in Files : New(s, g)' = New(s, g)
    BY <1>1, <1>6 DEF Needs, Built, New
  <1>8. \A s \in Sources : /\ Needs(s) \subseteq Files /\ dfile[s] \subseteq Files
                           /\ DOMAIN made[s] \subseteq Files
    BY <1>2, NeedsFiles DEF WellFormed, TypeOK
  <1>9. quiet' \in {"no", "yes"}
    BY <1>1
  <1>10. TypeOK'
    <2>1. /\ created \in [Paths -> 0..now] /\ written \in [Paths -> 0..now]
          /\ linked \subseteq Sources /\ dfile \in [Sources -> SUBSET Files]
      BY <1>2 DEF TypeOK
    <2>2. now \in 0..now
      BY <1>2, StampType
    <2>3. created' \in [Paths -> 0..now] /\ written' \in [Paths -> 0..now]
      BY <1>1, <2>1, <2>2 DEF Touch
    <2>4. linked' \subseteq Sources /\ dfile' \in [Sources -> SUBSET Files]
      BY <1>1, <2>1
    <2> QED
      BY <1>1, <1>2, <1>9, <2>3, <2>4, OverType
  <1>11. TimesTell' /\ NeedsShow' /\ FileShows'
    <2>1. TimesTell'
      BY <1>1, <1>6, <1>8, <1>10 DEF IInv, TimesTell
    <2>2. NeedsShow' /\ FileShows'
      BY <1>1, <1>7, <1>8 DEF IInv, NeedsShow, FileShows
    <2> QED
      BY <2>1, <2>2
  <1>12. ProgramShows'
    BY <1>4, <1>5, <1>6 DEF IInv, ProgramShows
  <1>13. /\ made' = [t \in Sources |-> made'[t]]
         /\ \A t \in Sources : DOMAIN made'[t] \subseteq Files
         /\ \A t \in Sources : dfile'[t] # {} => t \in dfile'[t]
         /\ \A g \in Files : text'[g] = 0 <=> Stamp(g)' = 0
    BY <1>1, <1>2, <1>6 DEF WellFormed
  <1>14. quiet' = "yes" => AllDone'
    <2> SUFFICES ASSUME quiet # "no" PROVE AllDone'
      BY <1>1
    <2>1. \A s \in Sources : Fresh(s)
      BY <1>1 DEF IInv, QuietTells
    <2>2. \A s \in Sources : Fresh(s)' = Fresh(s)
      BY <1>1, <1>6, <1>7, <1>8 DEF Fresh
    <2>3. Stamp(Exe)' # 0 /\ \A s \in Sources : Stamp(Object[s])' <= Stamp(Exe)'
      <3>1. CASE UpToDate(Exe)
        BY <1>1, <1>5, <1>6, <3>1, ProgramTold
      <3>2. CASE ~UpToDate(Exe)
        BY <1>2, <1>4, <1>6, <3>2, StampType, ObjectPaths
      <3> QED
        BY <3>1, <3>2
    <2> QED
      BY <1>2, <2>1, <2>2, <2>3 DEF AllDone
  <1> QED
    BY <1>1, <1>9, <1>11, <1>12, <1>13, <1>14, OverKeeps

LEMMA InitIInv == Init => IInv
  <1> SUFFICES ASSUME Init PROVE IInv
    OBVIOUS
  <1>1. /\ now = 1 /\ edits = 0 /\ text = [f \in Files |-> 1] /\ includes = Includes
        /\ created = [p \in Paths |-> IF p \in Files THEN 1 ELSE 0] /\ written = created
        /\ dfile = [s \in Sources |-> {}] /\ made = [s \in Sources |-> None] /\ linked = {}
        /\ phase = "idle" /\ todo = {} /\ times = None /\ deps = None
        /\ queue = {} /\ kept = {} /\ running = None /\ failed = FALSE /\ quiet = "no"
        /\ unseen = [s \in Sources |-> {}] /\ late = [s \in Sources |-> {}]
    BY DEF Init
  <1>2. Busy = {} /\ DOMAIN None = {}
    BY <1>1 DEF Busy, None
  <1>3. \A p \in Paths : Stamp(p) = IF p \in Files THEN 1 ELSE 0
    BY <1>1 DEF Stamp
  <1>4. \A s \in Sources : Stamp(Object[s]) = 0
    BY <1>3, ObjectPaths
  <1>5. TypeOK
    <2>1. /\ 1 \in 1..MaxTime /\ 0 \in 0..MaxEdits /\ 1 \in 0..(MaxEdits + 1)
          /\ 0 \in 0..1 /\ 1 \in 0..1
      BY BoundsAssumption
    <2>2. created \in [Paths -> 0..1] /\ written \in [Paths -> 0..1]
      BY <1>1, <2>1
    <2>3. text \in [Files -> 0..(MaxEdits + 1)]
      BY <1>1, <2>1
    <2>4. /\ dfile \in [Sources -> SUBSET Files] /\ late \in [Sources -> SUBSET Files]
          /\ unseen \in [Sources -> SUBSET Files]
      BY <1>1
    <2>5. includes \in [Sources -> SUBSET Headers]
      BY <1>1, IncludesAssumption
    <2> HIDE DEF Busy
    <2> QED
      BY <1>1, <1>2, <2>1, <2>2, <2>3, <2>4, <2>5 DEF TypeOK
  <1>6. WellFormed /\ TimesTell
    <2>1. \A f \in Files : text[f] = 0 <=> Stamp(f) = 0
      BY <1>1, <1>3, ObjectPaths
    <2> QED
      BY <1>1, <1>2, <1>5, <2>1 DEF WellFormed, TimesTell
  <1>7. RunningTell /\ NeedsShow /\ FileShows
    BY <1>2, <1>4 DEF RunningTell, NeedsShow, FileShows, Built
  <1>8. ProgramShows
    BY <1>3, ObjectPaths DEF ProgramShows
  <1>9. Scanning /\ Dispatching /\ Linking /\ Idle /\ QuietTells
    BY <1>1, <1>2 DEF Scanning, Dispatching, Linking, Idle, QuietTells
  <1> QED
    BY <1>6, <1>7, <1>8, <1>9 DEF IInv

LEMMA StepIInv == IInv /\ [Next]_vars => IInv'
  <1> SUFFICES ASSUME IInv, [Next]_vars PROVE IInv'
    OBVIOUS
  <1>1. ASSUME NEW f \in Files, Edit(f) PROVE IInv'
    BY <1>1, EditStep DEF EditOf
  <1>2. ASSUME NEW h \in Headers, Delete(h) \/ Restore(h) PROVE IInv'
    BY <1>2, EditStep DEF EditOf, Files
  <1>3. ASSUME NEW s \in Sources, Start(s) \/ Compiled(s) \/ CompileFails(s) PROVE IInv'
    BY <1>3, StartStep, CompiledStep, FailStep
  <1>4. ASSUME NEW f \in Files, Scan(f) PROVE IInv'
    BY <1>4, ScanStep
  <1>5. CASE UNCHANGED vars
    <2>1. /\ UNCHANGED <<diskVars, tableVars, outVars>>
          /\ UNCHANGED <<phase, queue, kept, running, failed, unseen, late, quiet>>
          /\ UNCHANGED <<now, edits, text, includes, created, written, todo, times, deps, dfile,
                         made, linked>>
      BY <1>5 DEF vars, diskVars, tableVars, outVars
    <2>2. /\ Busy' = Busy /\ \A s : Reads(s)' = Reads(s)
          /\ \A P : TimesOf(P)' = TimesOf(P)
      BY <2>1 DEF Busy, Reads, TimesOf, Stamp
    <2>3. \A s : CurrentAll(s)' = CurrentAll(s)
      BY <2>1 DEF CurrentAll, Current, Needs
    <2>4. /\ \A p : Stamp(p)' = Stamp(p)
          /\ \A t \in Sources : /\ Needs(t)' = Needs(t) /\ Built(t)' = Built(t)
                                /\ Fresh(t)' = Fresh(t)
                                /\ \A g : New(t, g)' = New(t, g)
          /\ TypeOK' => TimesTell'
          /\ NeedsShow' /\ FileShows' /\ ProgramShows'
      BY <2>1, SameDisk
    <2>5. TypeOK'
      <3> HIDE DEF Busy
      <3> QED
        BY <2>1, <2>2 DEF IInv, WellFormed, TypeOK
    <2>6. WellFormed'
      BY <2>1, <2>2, <2>4, <2>5 DEF IInv, WellFormed
    <2>7. RunningTell'
      BY <2>1, <2>2, <2>4 DEF IInv, RunningTell, WellFormed, TypeOK
    <2>8. Scanning'
      <3>1. \A s \in Sources : Doomed(s)' = Doomed(s)
        BY <2>1, <2>4 DEF Doomed
      <3> QED
        BY <2>1, <2>2, <2>3, <2>4, <3>1 DEF IInv, Scanning
    <2>9. Dispatching' /\ Linking' /\ Idle'
      BY <2>1, <2>2, <2>3, <2>4 DEF IInv, Dispatching, Linking, Idle
    <2>10. QuietTells'
      BY <2>1, <2>2, <2>4 DEF IInv, QuietTells, Undisturbed, AllDone
    <2> QED
      BY <2>4, <2>5, <2>6, <2>7, <2>8, <2>9, <2>10 DEF IInv
  <1> QED
    BY <1>1, <1>2, <1>3, <1>4, <1>5, TickStep, BeginStep, QueueStep, GiveUpStep, AddDepsStep,
       LinkStep, KilledStep DEF Next, Editor, Commands, Build

(* The invariant holds of every behaviour: what the times on the disk, the *)
(* dependency files and the tables tell at each point of a build.          *)
THEOREM Invariance == Spec => []IInv
  BY InitIInv, StepIInv, PTL DEF Spec

(* TimesTell, for any sources, headers, edits and builds: an object whose  *)
(* times are not older than what it was made from is out of date only by   *)
(* what was changed while its compiler ran.                                *)
THEOREM TimesAlwaysTell == Spec => []TimesTell
  <1>1. IInv => TimesTell
    BY DEF IInv
  <1> QED
    BY <1>1, Invariance, PTL

(* Only queueCommands passes over sources.                                 *)
LEMMA Keeps ==
  ASSUME IInv, [Next]_vars
  PROVE  kept' \subseteq kept \/ Queue
  <1>1. CASE Editor
    BY <1>1 DEF Editor, Tick, Edit, Delete, Restore, Changed
  <1>2. CASE Commands
    BY <1>2 DEF Commands, Start, Compiled, CompileFails
  <1>3. CASE Build
    BY <1>3 DEF Build, Begin, Scan, QueueAll, QueueCommands, GiveUp, AddDeps, Link, Killed, Over
  <1>4. CASE UNCHANGED vars
    BY <1>4 DEF vars
  <1> QED
    BY <1>1, <1>2, <1>3, <1>4 DEF Next

(* PassedOverIsCurrent: whatever was edited, failed or was killed before,  *)
(* a source queueCommands leaves out has a current object.                 *)
THEOREM PassedOverAlwaysCurrent == Spec => PassedOverIsCurrent
  <1>1. ASSUME IInv, [Next]_vars, NEW s \in kept' \ kept, NEW f \in Needs(s)
        PROVE  Current(s, f)
    <2>1. Queue /\ s \in kept'
      BY <1>1, Keeps
    <2>2. /\ phase = "scan" /\ todo = {} /\ s \in Sources /\ UpToDate(Object[s])
      BY <2>1 DEF Queue, QueueCommands
    <2> QED
      BY <1>1, <2>2, UpToDateIsCurrent DEF CurrentAll
  <1>2. IInv /\ [Next]_vars =>
          [\A s \in kept' \ kept : \A f \in Needs(s) : Current(s, f)]_vars
    BY <1>1
  <1> QED
    BY <1>2, Invariance, PTL DEF Spec, PassedOverIsCurrent

(* NothingTwice: after a build that went well, while nothing changes, no   *)
(* build waits to compile anything or writes the program.                  *)
THEOREM NothingBuiltTwice == Spec => NothingTwice
  <1>1. ASSUME IInv, IInv', Next, quiet = "yes", quiet' = "yes"
        PROVE  queue' = {} /\ written'[Exe] = written[Exe]
    <2>1. AllDone /\ AllDone'
      BY <1>1 DEF IInv, QuietTells
    <2>2. queue' = {}
      BY <1>1, <2>1 DEF AllDone, IInv, Scanning, Linking, Idle, WellFormed, TypeOK
    <2>3. CASE Editor
      <3>1. Tick
        BY <1>1, <2>3 DEF Editor, Edit, Delete, Restore, Changed
      <3> QED
        BY <2>2, <3>1 DEF Tick
    <2>4. CASE Commands
      <3>1. Busy = {}
        BY <1>1, <2>1, BusyDispatches DEF AllDone
      <3>2. \E s \in Sources : Start(s)
        BY <2>4, <3>1 DEF Commands, Compiled, CompileFails
      <3> QED
        BY <2>2, <3>2 DEF Start, diskVars
    <2>5. CASE Build
      <3>1. CASE Link
        <4>1. \A s \in Sources : Fresh(s) /\ Stamp(Object[s]) <= Stamp(Exe)
          BY <2>1 DEF AllDone
        <4>2. UpToDate(Exe)
          BY <1>1, <2>1, <3>1, <4>1, ProgramTold DEF Link, AllDone, Fresh
        <4> QED
          BY <2>2, <3>1, <4>2 DEF Link
      <3>2. CASE ~Link
        <4>1. written' = written
          BY <2>5, <3>2 DEF Build, Begin, Scan, Queue, QueueAll, QueueCommands, GiveUp, AddDeps,
                            Killed, diskVars
        <4> QED
          BY <2>2, <4>1
      <3> QED
        BY <3>1, <3>2
    <2> QED
      BY <1>1, <2>3, <2>4, <2>5 DEF Next
  <1>2. IInv /\ IInv' /\ [Next]_vars =>
          [quiet = "yes" /\ quiet' = "yes" => queue' = {} /\ written'[Exe] = written[Exe]]_vars
    BY <1>1
  <1> QED
    BY <1>2, Invariance, PTL DEF Spec, NothingTwice

(* GoodBuildIsCurrent: the program a build that goes well leaves is made   *)
(* from the objects there are, and these from the present texts.           *)
THEOREM GoodBuildAlwaysCurrent == Spec => GoodBuildIsCurrent
  <1>1. ASSUME IInv, Next, phase = "link", phase' = "idle"
        PROVE  linked' = Sources /\ \A s \in Sources : \A f \in Needs(s) : Current(s, f)
    <2>1. \A s \in Sources : CurrentAll(s)
      BY <1>1 DEF IInv, Linking
    <2>2. Link
      <3>1. Busy = {}
        BY <1>1 DEF IInv, Linking
      <3>2. CASE Editor
        BY <1>1, <3>2 DEF Editor, Tick, Edit, Delete, Restore, Changed
      <3>3. CASE Commands
        BY <1>1, <3>1, <3>3 DEF Commands, Start, Compiled, CompileFails
      <3>4. CASE Build
        BY <1>1, <3>4 DEF Build, Begin, Scan, Queue, QueueAll, QueueCommands, GiveUp, AddDeps,
                          Killed
      <3> QED
        BY <1>1, <3>2, <3>3, <3>4 DEF Next
    <2>3. linked' = Sources
      <3>1. CASE ~UpToDate(Exe)
        BY <2>2, <3>1 DEF Link
      <3>2. CASE UpToDate(Exe)
        <4>1. /\ Stamp(Exe) # 0 /\ TypeOK
              /\ \A s \in Sources : Stamp(Object[s]) <= Stamp(Exe)
          BY <1>1, <3>2, ProgramTold DEF IInv, WellFormed
        <4>2. \A s \in Sources : s \in linked
          BY <1>1, <4>1, StampType, ObjectPaths DEF IInv, ProgramShows
        <4> QED
          BY <2>2, <3>2, <4>1, <4>2 DEF Link, TypeOK
      <3> QED
        BY <3>1, <3>2
    <2> QED
      BY <2>1, <2>3 DEF CurrentAll
  <1>2. IInv /\ [Next]_vars =>
          [phase = "link" /\ phase' = "idle" =>
             linked' = Sources /\ \A s \in Sources : \A f \in Needs(s) : Current(s, f)]_vars
    BY <1>1
  <1> QED
    BY <1>2, Invariance, PTL DEF Spec, GoodBuildIsCurrent
=============================================================================
