------------------------------- MODULE Paths -------------------------------
(* path_resolve_inplace (src/path_utils.c): a path is the number of        *)
(* separators it begins with, at most two, and the names between them; the *)
(* order of the names is that of the source, from left to right.           *)
EXTENDS Naturals, SequencesExt

Erase(s, i, n) == SubSeq(s, 1, i - 1) \o SubSeq(s, i + n, Len(s))

(* A faulty variant of the next definition, and no part of the model. *)
StayHere(i) == i

(* Back to the name before, whose neighbour is new. *)
StepBack(i) == IF i > 1 THEN i - 1 ELSE i

IsPair(names, i) == i < Len(names) /\ names[i] # ".." /\ names[i + 1] = ".."

(* One round of the loop over the names: "." goes, and so does a name with *)
(* ".." behind it.                                                         *)
OneName(s) ==
  CASE s.i > Len(s.names) -> s
    [] s.i <= Len(s.names) /\ s.names[s.i] = "." ->
         [names |-> Erase(s.names, s.i, 1), i |-> StepBack(s.i)]
    [] s.i <= Len(s.names) /\ s.names[s.i] # "." /\ IsPair(s.names, s.i) ->
         [names |-> Erase(s.names, s.i, 2), i |-> StepBack(s.i)]
    [] OTHER -> [names |-> s.names, i |-> s.i + 1]

(* The loop after k rounds; two for each name are enough. *)
Rounds(names) ==
  LET after[k \in Nat] == IF k = 0 THEN [names |-> names, i |-> 1] ELSE OneName(after[k - 1])
  IN  after

ResolveNames(names) == Rounds(names)[2 * Len(names)].names

Resolve(path) == [lead |-> path.lead, names |-> ResolveNames(path.names)]
=============================================================================
