------------------------------- MODULE MCText -------------------------------
(* The parts of the library that work on text and numbers, for TLC: the    *)
(* parser on what p4 may print, cut into any pieces, or one call of one of *)
(* the functions that keep no state.                                       *)
EXTENDS PyParser, CommandLine, Paths, RandomRange

VARIABLE call  \* the call and what it returned

----------------------------------------------------------------------------
(* What p4 may print: up to two dicts of one entry or one of two, with     *)
(* contents that look like types, and an error message instead of a dict.  *)
Key == {<<AString>>, <<>>}
MCEntry == [key : Key, type : {AString}, value : {<<>>, <<EndOfDict>>, <<AString, ANumber>>}]
             \cup [key : Key, type : {ANumber}, value : {300}]
             \cup [key : {<<>>}, type : {117}, value : {<<EndOfDict>>}]
Single == {<<>>} \cup {<<e>> : e \in MCEntry}
MCPrintable ==
  [dicts : {<<>>} \cup {<<d>> : d \in Single \cup {<<e, f>> : e, f \in MCEntry}}
             \cup {<<c, d>> : c, d \in Single},
   rest : {<<>>, <<69>>}]

MCPath == [lead : 0..2, names : SeqOf({".", "..", "a", "b"}, 5)]
MCLine == SeqOf({"blank", "quote", "backslash", "x"}, 6)
MCOutput == SeqOf({"nl", "cr", "x"}, 6)
Below(S) == {p \in S \X S : p[1] < p[2]}

----------------------------------------------------------------------------
NoCall == [fn |-> "none"]
Called(fn, arg, result) == call' = [fn |-> fn, arg |-> arg, result |-> result]

TextInit == ParserInit /\ call = NoCall

LibraryCall ==
  \/ \E p \in MCPath : Called("path_resolve_inplace", p, Resolve(p))
  \/ \E s \in MCLine : Called("cmdline_init_composite", s, InitComposite(s))
  \/ \E s \in MCOutput : Called("buildCommands_printBuffer", s, PrintBuffer(s))
  \/ \E p \in Below(U32s) :
       Called("random_get_u32_range", p, [r \in U32s |-> GetU32Range(r, p[1], p[2])])
  \/ \E p \in Below(S32s) :
       /\ p[2] - p[1] \in S32s
       /\ Called("random_get_s32_range", p, [r \in U32s |-> GetS32Range(r, p[1], p[2])])

TextNext ==
  \/ call = NoCall /\ ParserNext /\ UNCHANGED call
  \/ call = NoCall /\ data = <<>> /\ LibraryCall /\ UNCHANGED parserVars

TextSpec == TextInit /\ [][TextNext]_<<parserVars, call>>

----------------------------------------------------------------------------
(* A path is resolved to where its names lead, one after the other: ".."   *)
(* leaves the directory that was entered last, and when there is none it   *)
(* stays.  So each of the names of a file becomes the same key of the      *)
(* dependency table (mc_build_dependencies.c:108).                         *)
Enter(at, n) ==
  CASE n = "." -> at
    [] n = ".." /\ at # <<>> /\ Last(at) # ".." -> Front(at)
    [] OTHER -> Append(at, n)
Walks(names) ==
  LET after[k \in Nat] == IF k = 0 THEN <<>> ELSE Enter(after[k - 1], names[k])
  IN  after

ResolvedIsWhereItLeads ==
  call.fn = "path_resolve_inplace" =>
    call.result = [lead |-> call.arg.lead, names |-> Walks(call.arg.names)[Len(call.arg.names)]]

(* The arguments are the tokens that were counted, unescaped, although the *)
(* buffer is cut and rewritten while it is read - as long as no token in   *)
(* quotes has another right behind it, of which cmdline.c:97 would lose    *)
(* the first character or more.                                            *)
ArgsAreTokens ==
  call.fn = "cmdline_init_composite" =>
    LET buf == Buffer(call.arg)
        tokens == Tokens(buf)
        glued == {t \in ToSet(tokens) : t.quoted /\ buf[t.cursor] \notin {"blank", "nul"}}
    IN  glued = {} =>
          call.result = [crashed |-> FALSE,
                         args |-> [i \in DOMAIN tokens |->
                                     Unescape(SubSeq(buf, tokens[i].start, tokens[i].end - 1))]]

(* Where the lines of an output end, where the line begins that ends at i, *)
(* the how manieth it is, and the line without the return before its end.  *)
Ends(s) ==
  {i \in DOMAIN s : s[i] = "nl" \/ (s[i] = "cr" /\ ~(i < Len(s) /\ s[i + 1] = "nl"))}
Begin(s, i) == Max({0} \cup {e \in Ends(s) : e < i}) + 1
Number(s, i) == Cardinality({e \in Ends(s) : e <= i})
Bare(l) == IF l # <<>> /\ Last(l) = "cr" THEN Front(l) ELSE l
Rest(s) == SubSeq(s, Begin(s, Len(s) + 1), Len(s))

AreLines(s, lines) ==
  /\ Len(lines) = Cardinality(Ends(s)) + (IF Rest(s) = <<>> THEN 0 ELSE 1)
  /\ \A i \in Ends(s) : lines[Number(s, i)] = Bare(SubSeq(s, Begin(s, i), i - 1))
  /\ Rest(s) # <<>> => Last(lines) = Rest(s)

(* Every line of a command's output is printed once, without its end, be   *)
(* that a line feed, a carriage return, both, or just the end of the       *)
(* output; and no line that is not there.                                  *)
LinesAreSplit == call.fn = "buildCommands_printBuffer" => AreLines(call.arg, call.result)

(* Every number of the range comes from equally many words of the stream,  *)
(* no other number does, and less than half of the words are drawn again.  *)
RangeIsFair ==
  call.fn \in {"random_get_u32_range", "random_get_s32_range"} =>
    LET minVal == call.arg[1]
        maxVal == call.arg[2]
        Sources(n) == {r \in U32s : call.result[r] = n}
    IN  /\ {call.result[r] : r \in U32s} \ {Again} = minVal..(maxVal - 1)
        /\ \A n, m \in minVal..(maxVal - 1) : Cardinality(Sources(n)) = Cardinality(Sources(m))
        /\ 2 * Cardinality(Sources(Again)) < Words
=============================================================================
