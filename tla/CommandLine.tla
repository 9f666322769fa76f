---------------------------- MODULE CommandLine ----------------------------
(***************************************************************************)
(* What splits text: tokenize and tokenizeLine (src/tokenize.c), the       *)
(* command line made from one string (cmdline_init_composite in            *)
(* src/cmdline.c, strunescape in src/str.c) and the output of a command    *)
(* printed line by line (buildCommands_printBuffer).                       *)
(*                                                                         *)
(* A buffer is a sequence of characters that ends with "nul"; of the       *)
(* characters, "x" stands for all that mean nothing here.  A token or a    *)
(* line goes from start up to, but not including, end.                     *)
(***************************************************************************)
EXTENDS Naturals, SequencesExt, FiniteSetsExt

Buffer(s) == Append(s, "nul")

(* The first position from i on with a character of S; the end, always     *)
(* "nul", is one in any case.                                              *)
FirstOf(buf, i, S) == Min({j \in i..Len(buf) : buf[j] \in S \cup {"nul"}})

(* The characters from i up to the next "nul", as C sees a string.         *)
CString(buf, i) == SubSeq(buf, i, FirstOf(buf, i, {}) - 1)

----------------------------------------------------------------------------
(* tokenize *)

(* A quote in a string from start on counts unless an odd number of        *)
(* backslashes is right before it.                                         *)
Escaped(buf, start, j) ==
  LET other == {k \in start..(j - 1) : buf[k] # "backslash"}
      run == (j - 1) - (IF other = {} THEN start - 1 ELSE Max(other))
  IN  run % 2 = 1

QuoteEnd(buf, start) ==
  Min({j \in start..Len(buf) : \/ buf[j] = "nul"
                               \/ buf[j] = "quote" /\ ~Escaped(buf, start, j)})

NoToken == [start |-> 0, end |-> 0, cursor |-> 0, quoted |-> FALSE]

(* The next token from cursor on, with the cursor behind it; the           *)
(* delimiters are blanks.                                                  *)
Token(buf, cursor) ==
  LET first == Min({j \in cursor..Len(buf) : buf[j] # "blank"})
      end == QuoteEnd(buf, first + 1)
      plainEnd == FirstOf(buf, first, {"blank"})
  IN  CASE buf[first] = "nul" -> NoToken
        [] buf[first] = "quote" ->
             [start |-> first + 1, end |-> end, quoted |-> TRUE,
              cursor |-> IF buf[end] = "quote" THEN end + 1 ELSE end]
        [] OTHER -> [start |-> first, end |-> plainEnd, cursor |-> plainEnd, quoted |-> FALSE]

(* The first pass of cmdline_init_composite counts the tokens, each from   *)
(* where the one before has left the cursor; after k rounds it has these.  *)
OneToken(buf, tokens) ==
  LET t == Token(buf, IF tokens = <<>> THEN 1 ELSE Last(tokens).cursor)
  IN  IF t = NoToken THEN tokens ELSE Append(tokens, t)
Counting(buf) ==
  LET after[k \in Nat] == IF k = 0 THEN <<>> ELSE OneToken(buf, after[k - 1])
  IN  after

(* A token takes a character or more. *)
Tokens(buf) == Counting(buf)[Len(buf)]

----------------------------------------------------------------------------
(* cmdline_init_composite *)

(* strunescape, from the k-th character on. *)
Unescaped(s) ==
  LET from[k \in Nat] ==
        CASE k > Len(s) -> <<>>
          [] k < Len(s) /\ s[k] = "backslash" /\ s[k + 1] \in {"backslash", "quote"} ->
               <<s[k + 1]>> \o from[k + 2]
          [] OTHER -> <<s[k]>> \o from[k + 1]
  IN  from
Unescape(s) == Unescaped(s)[1]

Overwrite(buf, i, s) == [j \in DOMAIN buf |-> IF j \in i..(i + Len(s) - 1) THEN s[j - i + 1] ELSE buf[j]]

(* The token ends with a "nul" and is unescaped where it stands. *)
CutOut(buf, t) ==
  LET s == CString(Overwrite(buf, t.end, <<"nul">>), t.start)
  IN  Overwrite(Overwrite(buf, t.end, <<"nul">>), t.start, Buffer(Unescape(s)))

(* Faulty variants, here and below: bugs the next definition could have    *)
(* had, and no part of the model.                                          *)
StaysOnTheCut(buf, t) == t.cursor

(* Over the character behind the token, so as not to stop at the "nul"     *)
(* that has been written there.                                            *)
Onward(buf, t) == IF buf[t.cursor] # "nul" THEN t.cursor + 1 ELSE t.cursor

(* The second pass cuts out the next token, and argv points to it.  When   *)
(* there is none it writes through a null pointer.                         *)
CutToken(s) ==
  LET t == Token(s.buf, s.cursor)
  IN  IF s.crashed \/ t = NoToken THEN [s EXCEPT !.crashed = TRUE]
      ELSE [buf |-> CutOut(s.buf, t), cursor |-> Onward(s.buf, t),
            argv |-> Append(s.argv, t.start), crashed |-> FALSE]
Cut(buf) ==
  LET after[k \in Nat] ==
        IF k = 0 THEN [buf |-> buf, cursor |-> 1, argv |-> <<>>, crashed |-> FALSE]
        ELSE CutToken(after[k - 1])
  IN  after

(* As many tokens are cut out as were counted. *)
InitComposite(src) ==
  LET s == Cut(Buffer(src))[Len(Tokens(Buffer(src)))]
  IN  [crashed |-> s.crashed,
       args |-> IF s.crashed THEN <<>> ELSE [i \in DOMAIN s.argv |-> CString(s.buf, s.argv[i])]]

----------------------------------------------------------------------------
(* tokenizeLine and buildCommands_printBuffer *)

MissesReturns(buf, start) ==
  Min({Len(buf) + 1} \cup {j \in start..Len(buf) : buf[j] = "nl"})

(* Where the line from start on ends: at a line feed, or at a carriage     *)
(* return without one behind it, or else behind the "nul", where           *)
(* cursor->end is.                                                         *)
LineEnd(buf, start) ==
  Min({Len(buf) + 1} \cup
      {j \in start..Len(buf) : \/ buf[j] = "nl"
                               \/ buf[j] = "cr" /\ buf[j + 1] # "nl"})

(* The line from start on, as "%.*s" prints it. *)
Line(buf, start) ==
  LET end == LineEnd(buf, start)
      trimmed == IF end > start /\ buf[end - 1] = "cr" THEN end - 1 ELSE end
  IN  CString(Append(SubSeq(buf, start, trimmed - 1), "nul"), 1)

(* One call of tokenizeLine and what is printed of it; start = 0 is the    *)
(* null pointer behind the last line.                                      *)
OneLine(buf, s) ==
  LET end == LineEnd(buf, s.start)
      last == end >= Len(buf)
  IN  IF s.start = 0 THEN s
      ELSE [start |-> IF last THEN 0 ELSE end + 1,
            lines |-> IF last /\ end - s.start = 1 THEN s.lines
                      ELSE Append(s.lines, Line(buf, s.start))]
Printed(buf) ==
  LET after[k \in Nat] == IF k = 0 THEN [start |-> 1, lines |-> <<>>]
                          ELSE OneLine(buf, after[k - 1])
  IN  after

(* A line takes a character or more; a buffer of one character holds       *)
(* nothing but its "nul".                                                  *)
PrintBuffer(s) == IF s = <<>> THEN <<>> ELSE Printed(Buffer(s))[Len(s) + 1].lines
=============================================================================
