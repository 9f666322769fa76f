------------------------------ MODULE PyParser ------------------------------
(***************************************************************************)
(* The parser and the writer of marshalled dictionaries (src/py_parser.c,  *)
(* src/sdict.c), with which the updater reads what "p4 -G" prints.  The    *)
(* bytes may come in pieces: py_parser_tick is called while it returns     *)
(* true, and again when there is more.                                     *)
(*                                                                         *)
(* A text is a sequence of bytes; positions in data count from 0.          *)
(***************************************************************************)
EXTENDS Naturals, SequencesExt

Byte == 0..255
Text == Seq(Byte)
MaxU32 == 2147483647   \* the greatest length or number that occurs here

(* The bytes that say what follows. *)
BeginOfDict == 123   \* '{'
EndOfDict == 48      \* '0'
AString == 115       \* 's'
ANumber == 105       \* 'i'

CONSTANTS Printable  \* what p4 may print: dicts, and a rest that is none

(* p4 also sends numbers, and other programs types this parser rejects. *)
Entry == [type : {ANumber}, key : Text, value : 0..MaxU32]
           \cup [type : Byte \ {ANumber}, key : Text, value : Text]

ASSUME PrintableAssumption ==
  \A p \in Printable :
    /\ p.dicts \in Seq(Seq(Entry))
    /\ \A d \in ToSet(p.dicts) : \A e \in ToSet(d) :
         Len(e.key) <= MaxU32 /\ (e.type # ANumber => Len(e.value) <= MaxU32)
    /\ p.rest \in Text /\ (p.rest = <<>> \/ p.rest[1] # BeginOfDict)

VARIABLES
  sent,             \* what p4 prints
  data, count,      \* its bytes; how many of them have arrived
  consumed, state,  \* pyParser_t
  dict, dicts,      \* the entries of the dict at hand; the dicts that are complete
  lost              \* history: no memory for a dict or an entry

parserVars == <<sent, data, count, consumed, state, dict, dicts, lost>>

----------------------------------------------------------------------------
(* The writer. *)

WriteU32(n) == <<n % 256, (n \div 256) % 256, (n \div 65536) % 256, n \div 16777216>>
WriteString(type, s) == <<type>> \o WriteU32(Len(s)) \o s

WriteEntry(e) ==
  WriteString(AString, e.key) \o IF e.type = ANumber THEN <<ANumber>> \o WriteU32(e.value)
                                                     ELSE WriteString(e.type, e.value)
WriteDict(d) ==
  <<BeginOfDict>> \o FlattenSeq([i \in DOMAIN d |-> WriteEntry(d[i])]) \o <<EndOfDict>>
WriteDicts(ds) == FlattenSeq([i \in DOMAIN ds |-> WriteDict(ds[i])])

----------------------------------------------------------------------------
ParserInit ==
  /\ sent \in Printable
  /\ data = WriteDicts(sent.dicts) \o sent.rest
  /\ count = 0 /\ consumed = 0 /\ state = "Idle"
  /\ dict = <<>> /\ dicts = <<>> /\ lost = FALSE

Arrive ==
  /\ count' \in (count + 1)..Len(data)
  /\ UNCHANGED <<sent, data, consumed, state, dict, dicts, lost>>

(* parser_peek_char, parser_peek_u32 and parser_advance at position at. *)
Peek(at, c) == at < count /\ data[at + 1] = c
Has(at, n) == at + n <= count
U32(at) ==
  data[at + 1] + 256 * data[at + 2] + 65536 * data[at + 3] + 16777216 * data[at + 4]
Chars(at, n) == SubSeq(data, at + 1, at + n)

(* A string or a number at position at, behind its type: where it ends,    *)
(* and whether it has arrived up to there.                                 *)
StringEnd(at) == IF Has(at, 4) THEN at + 4 + U32(at) ELSE count + 1
StringAt(at) == Chars(at + 4, U32(at))

(* "%u" *)
Decimal(n) ==
  LET digits[k \in Nat] == (IF k < 10 THEN <<>> ELSE digits[k \div 10]) \o <<48 + (k % 10)>>
  IN  digits[n]

(* The pair at consumed: what its value is, and where it ends. *)
ValueAt == StringEnd(consumed + 1)
Pair ==
  CASE Peek(ValueAt, AString) -> [value |-> "string", end |-> StringEnd(ValueAt + 1)]
    [] Peek(ValueAt, ANumber) -> [value |-> "number", end |-> ValueAt + 5]
    [] OTHER -> [value |-> "none", end |-> count + 1]

(* sdict_add of the pair; dict.unique is never set here. *)
Add(kind) ==
  dict' = Append(dict, [key |-> StringAt(consumed + 1),
                        text |-> IF kind = "string" THEN StringAt(ValueAt + 1)
                                                    ELSE Decimal(U32(ValueAt + 1))])

InDict(c) == state = "Dict" /\ Peek(consumed, c)

(* py_parser_tick, by state and by the character it peeks at. *)
TickBegin ==
  /\ state = "Idle" /\ Peek(consumed, BeginOfDict)
  /\ state' = "Dict" /\ consumed' = consumed + 1
  /\ UNCHANGED <<sent, data, count, dict, dicts, lost>>

TickEnd ==
  /\ InDict(EndOfDict)
  /\ state' = "Idle" /\ consumed' = consumed + 1
  /\ dict' = <<>>
  /\ \/ dicts' = Append(dicts, dict) /\ lost' = lost
     \/ dicts' = dicts /\ lost' = TRUE
  /\ UNCHANGED <<sent, data, count>>

TickPair ==
  /\ InDict(AString) /\ Pair.end <= count
  /\ consumed' = Pair.end
  /\ \/ Add(Pair.value) /\ lost' = lost
     \/ dict' = dict /\ lost' = TRUE
  /\ UNCHANGED <<sent, data, count, state, dicts>>

(* A faulty variant of the next definition, and no part of the model. *)
StaysBehindTheKey ==
  /\ InDict(AString) /\ Pair.end > count /\ (ValueAt < count => Pair.value # "none")
  /\ consumed' = IF ValueAt < count THEN ValueAt ELSE consumed
  /\ UNCHANGED <<sent, data, count, state, dict, dicts, lost>>

(* The pair is not complete: back to its start, to wait for the rest. *)
TickPart ==
  /\ InDict(AString) /\ Pair.end > count /\ (ValueAt < count => Pair.value # "none")
  /\ consumed' = consumed
  /\ UNCHANGED <<sent, data, count, state, dict, dicts, lost>>

(* parser_error: neither a dict, a key nor the end of a dict, or a value   *)
(* of another type.                                                        *)
TickError ==
  /\ consumed < count
  /\ \/ state = "Idle" /\ ~Peek(consumed, BeginOfDict)
     \/ state = "Dict" /\ ~Peek(consumed, AString) /\ ~Peek(consumed, EndOfDict)
     \/ InDict(AString) /\ ValueAt < count /\ Pair.value = "none"
  /\ state' = "Error"
  /\ UNCHANGED <<sent, data, count, consumed, dict, dicts, lost>>

(* The ticks that return true, and those that return false. *)
Progress == TickBegin \/ TickEnd \/ TickPair
ParserNext == Arrive \/ Progress \/ TickPart \/ TickError

ParserSpec == ParserInit /\ [][ParserNext]_parserVars

----------------------------------------------------------------------------
(* Properties.                                                             *)

Parsed(d) ==
  [i \in DOMAIN d |-> [key |-> d[i].key,
                       text |-> IF d[i].type = ANumber THEN Decimal(d[i].value) ELSE d[i].value]]
Foreign(e) == e.type \notin {AString, ANumber}
Clean == sent.rest = <<>> /\ \A d \in ToSet(sent.dicts) : \A e \in ToSet(d) : ~Foreign(e)

(* A tick would return true. *)
Ready ==
  \/ state = "Idle" /\ Peek(consumed, BeginOfDict)
  \/ InDict(EndOfDict)
  \/ InDict(AString) /\ Pair.end <= count

(* However the bytes are cut into pieces, the parser has read what was     *)
(* written, in order: the dicts, and of the dict at hand the first entries.*)
(* It stands still only behind all that was written, or for a pair that    *)
(* has not arrived yet, and it fails only at what is no dict, string or    *)
(* number.                                                                 *)
ReadsWhatWasWritten ==
  LET whole == [i \in DOMAIN sent.dicts |-> Parsed(sent.dicts[i])]
  IN  ~lost =>
        /\ IsPrefix(dicts, whole)
        /\ state = "Dict" => IsPrefix(dict, whole[Len(dicts) + 1])
        /\ Clean => state # "Error"
        /\ Clean /\ count = Len(data) /\ ~Ready => state = "Idle" /\ dicts = whole
        /\ state = "Error" =>
             \/ dicts = whole /\ sent.rest # <<>>
             \/ Foreign(sent.dicts[Len(dicts) + 1][Len(dict) + 1])
=============================================================================
