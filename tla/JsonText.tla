------------------------------ MODULE JsonText ------------------------------
(***************************************************************************)
(* The SDK's two guards in front of encoding/json, which were written      *)
(* apart: jsontext.Validate, which scans a document before a host or an    *)
(* adapter decodes it, and strictjson, which plugins read with.  Each is a *)
(* recursive descent that returns the set of positions it can go on from:  *)
(* one position, or none for a refusal.                                    *)
(*                                                                         *)
(* The behaviours are the texts a few slips of the pen away from a         *)
(* document: a token replaced, left out or put in, a text cut short.       *)
(***************************************************************************)
EXTENDS JsonGrammar, SequencesExt

CONSTANTS
  Documents,   \* the documents the text starts from
  Tokens,      \* the tokens a slip may write
  MaxSlips,    \* bound: slips of the pen
  Known        \* the member names a closed envelope permits, decoded

VARIABLES text, slips

vars == <<text, slips>>

-----------------------------------------------------------------------------
(* jsontext: the scanner before a decoder. *)

IsUTF8(s) == \A i \in DOMAIN s : \A k \in DOMAIN s[i].p : s[i].p[k] # "bad byte"

\* What a string says, in a set of its own; no element when it is refused.
RECURSIVE DecodeString(_)
DecodeString(p) ==
  IF p = <<>> THEN {<<>>}
  ELSE IF p[1] \in {"control", "\\x", "\\u xx", "cut", "lo"} THEN {}
  ELSE IF p[1] = "hi"
  THEN IF Len(p) > 1 /\ p[2] = "lo"
       THEN {<<"pair">> \o rest : rest \in DecodeString(SubSeq(p, 3, Len(p)))} ELSE {}
  ELSE {<<IF p[1] = "\\u a" THEN "a" ELSE p[1]>> \o rest : rest \in DecodeString(Tail(p))}

\* The name a member is kept under, to be compared with its siblings'.
\* Slip: the name as it is written, escapes and all.
RawName(p) == IF DecodeString(p) = {} THEN {} ELSE {p}
MemberName(p) == DecodeString(p)

\* A number is scanned leniently; only a lone minus is refused.
ScanNumber(token) == token.p # <<"minus">>

TooDeep(depth) == depth > MaxDepth

RECURSIVE ScanValue(_, _, _), ScanArray(_, _, _), ScanObject(_, _, _, _)

ScanValue(s, i, depth) ==
  IF TooDeep(depth) \/ i \notin DOMAIN s THEN {}
  ELSE CASE s[i].t = "{" -> IF Is(s, i + 1, "}") THEN {i + 2} ELSE ScanObject(s, i + 1, depth + 1, {})
         [] s[i].t = "[" -> IF Is(s, i + 1, "]") THEN {i + 2} ELSE ScanArray(s, i + 1, depth + 1)
         [] s[i].t = "string" -> IF DecodeString(s[i].p) # {} THEN {i + 1} ELSE {}
         [] s[i].t = "number" -> IF ScanNumber(s[i]) THEN {i + 1} ELSE {}
         [] s[i].t \in {"null", "true"} -> {i + 1}
         [] OTHER -> {}

\* The elements from token i on, up to the end of the array.
ScanArray(s, i, depth) ==
  UNION {IF Is(s, j, ",") THEN ScanArray(s, j + 1, depth)
         ELSE IF Is(s, j, "]") THEN {j + 1} ELSE {} : j \in ScanValue(s, i, depth)}

\* The members from token i on; seen are the names this object already has.
ScanObject(s, i, depth, seen) ==
  IF ~ Is(s, i, "string") \/ ~ Is(s, i + 1, ":") THEN {}
  ELSE UNION {UNION {
         IF Is(s, j, ",") THEN ScanObject(s, j + 1, depth, seen \cup {name})
         ELSE IF Is(s, j, "}") THEN {j + 1} ELSE {}
         : j \in ScanValue(s, i + 2, depth)}
       : name \in MemberName(s[i].p) \ seen}

Validate(s) == IsUTF8(s) /\ ScanValue(s, 1, 0) = {Len(s) + 1}

-----------------------------------------------------------------------------
(* strictjson: the reader plugins use. *)

\* The text of a string, in any place of the document: the escapes are
\* escapes and the surrogates come in pairs.  Control characters are left to
\* the decoder.
\* Slip: a low surrogate is taken without the high one before it.
RECURSIVE TextCleanOfHighs(_)
TextCleanOfHighs(p) ==
  \/ p = <<>>
  \/ p[1] = "hi" /\ Len(p) > 1 /\ p[2] = "lo" /\ TextCleanOfHighs(SubSeq(p, 3, Len(p)))
  \/ p[1] \notin {"hi", "\\x", "\\u xx", "cut"} /\ TextCleanOfHighs(Tail(p))
RECURSIVE TextClean(_)
TextClean(p) ==
  \/ p = <<>>
  \/ p[1] = "hi" /\ Len(p) > 1 /\ p[2] = "lo" /\ TextClean(SubSeq(p, 3, Len(p)))
  \/ p[1] \notin {"hi", "lo", "\\x", "\\u xx", "cut"} /\ TextClean(Tail(p))

ValidateText(s) == IsUTF8(s) /\ \A i \in DOMAIN s : TextClean(s[i].p)

\* The walk over the decoder's tokens, which knows a member by the name the
\* decoder gives it.  A text that is not JSON ends it early.
RECURSIVE WalkValue(_, _), WalkArray(_, _), WalkObject(_, _, _)

WalkValue(s, i) ==
  IF i \notin DOMAIN s THEN {}
  ELSE CASE s[i].t = "{" -> IF Is(s, i + 1, "}") THEN {i + 2} ELSE WalkObject(s, i + 1, {})
         [] s[i].t = "[" -> IF Is(s, i + 1, "]") THEN {i + 2} ELSE WalkArray(s, i + 1)
         [] OTHER -> IF IsValue(s, i, i) THEN {i + 1} ELSE {}

WalkArray(s, i) ==
  UNION {IF Is(s, j, ",") THEN WalkArray(s, j + 1)
         ELSE IF Is(s, j, "]") THEN {j + 1} ELSE {} : j \in WalkValue(s, i)}

WalkObject(s, i, seen) ==
  IF i \notin DOMAIN s \/ ~ NamesMember(s, i) THEN {}
  ELSE LET name == Unquoted(s[i].p) IN
       IF ~ IsString(s[i]) \/ name \in seen THEN {}
       ELSE UNION {IF Is(s, j, ",") THEN WalkObject(s, j + 1, seen \cup {name})
                   ELSE IF Is(s, j, "}") THEN {j + 1} ELSE {} : j \in WalkValue(s, i + 2)}

\* Only the first value is walked; what follows it is the decoder's to see.
RejectDuplicates(s) == WalkValue(s, 1) = {}

\* One value, an object or null: a null comes back as no members at all and
\* without an error.
DecodeObject(s) ==
  IF ~ ValidateText(s) \/ RejectDuplicates(s) \/ ~ Decodes(s) THEN "refused"
  ELSE CASE s[1].t = "{" -> "object"
         [] s[1].t = "null" -> "null"
         [] OTHER -> "refused"

\* The members of an object that decodes, by the token that names them.
Members(s) == {i \in DOMAIN s : NamesMember(s, i) /\ OpenAfter(s, i) = 1}

\* A closed envelope: an object, of permitted members, none of them null.
DecodeObjectStrict(s) ==
  /\ DecodeObject(s) = "object"
  /\ \A i \in Members(s) : Unquoted(s[i].p) \in Known /\ ~ Is(s, i + 2, "null")

\* The check of the host-call messages that carry an object: the scanner
\* first, then the decoder.
ValidateJSONObject(s) == Validate(s) /\ Decodes(s) /\ s[1].t = "{"

-----------------------------------------------------------------------------
(* The texts. *)

Init == text \in Documents /\ slips = 0

Replace(i, t) == text' = [text EXCEPT ![i] = t]

LeaveOut(i) == text' = RemoveAt(text, i)

PutIn(i, t) == text' = InsertAt(text, i, t)

\* The text ends after token i, inside it when it is a string.
CutShort(i) ==
  text' = SubSeq(text, 1, i - 1)
          \o <<IF text[i].t = "string" THEN Text(Append(text[i].p, "cut")) ELSE text[i]>>

Next ==
  /\ slips < MaxSlips
  /\ slips' = slips + 1
  /\ \E i \in DOMAIN text :
       \/ \E t \in Tokens : Replace(i, t) \/ PutIn(i, t)
       \/ LeaveOut(i)
       \/ CutShort(i)

Spec == Init /\ [][Next]_vars

-----------------------------------------------------------------------------
(* What the readers owe each other. *)

\* Judged by the grammar and the plain reading of the hazards, and by no
\* reader: every string decodes to what it says,
Legible(s) ==
  \A i \in DOMAIN s : \A k \in DOMAIN s[i].p :
    /\ s[i].p[k] # "bad byte"
    /\ s[i].p[k] = "hi" => k < Len(s[i].p) /\ s[i].p[k + 1] = "lo"
    /\ s[i].p[k] = "lo" => k > 1 /\ s[i].p[k - 1] = "hi"

\* and no object has two members that a decoder reads by one name.
NoTwins(s) ==
  \A i, j \in {k \in DOMAIN s : NamesMember(s, k)} :
    SameContainer(s, i, j) => Unquoted(s[i].p) # Unquoted(s[j].p)

\* The two guards were written apart and sit on either side of the same
\* decoder.  Whatever the text, a plugin reads an object exactly when a host
\* that scans first and decodes then has one, so no document means one thing
\* on one side and nothing, or another thing, on the other.
ReadersAgree ==
  /\ (DecodeObject(text) = "object") <=> ValidateJSONObject(text)
  /\ (DecodeObject(text) = "null") <=> Validate(text) /\ text = <<Mark("null")>>
  /\ DecodeObjectStrict(text) => ValidateJSONObject(text)

\* A document a plugin reads has one meaning: it is JSON, every string in it
\* says what was written, and no object in it, at any depth, repeats a name
\* under another spelling.  The guards refuse nothing else: a document with one
\* meaning passes the scan, however deep the decoder itself would follow it,
\* and an object is read.
OneMeaning ==
  LET sound == Decodes(text) /\ Legible(text) /\ NoTwins(text)
  IN /\ DecodeObject(text) # "refused" => sound
     /\ sound => Validate(text) /\ (text[1].t = "{" => DecodeObject(text) = "object")
=============================================================================
