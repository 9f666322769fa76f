----------------------------- MODULE MCLibrary -----------------------------
(* The parts of the library that stand alone, for TLC: the UUID generator, *)
(* or the parser and the calls of MCText.  They share nothing, so that one *)
(* of them moves while the other is still as it began.                     *)
EXTENDS MCText, MCUuid

UuidAtRest == created = 0 /\ clock = 1 /\ setting = InFile(1, {"back"})
TextAtRest == data = <<>> /\ call = NoCall

LibraryInit == Init /\ TextInit

LibraryNext ==
  \/ TextAtRest /\ Next /\ UNCHANGED <<parserVars, call>>
  \/ UuidAtRest /\ TextNext /\ UNCHANGED vars

LibrarySpec == LibraryInit /\ [][LibraryNext]_<<vars, parserVars, call>>
=============================================================================
