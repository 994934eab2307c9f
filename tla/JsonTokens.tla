----------------------------- MODULE JsonTokens -----------------------------
(***************************************************************************)
(* JSON text as the SDK's two readers tell it apart.  A text is a sequence *)
(* of tokens: a mark, a word, a number or a string, and a string is a      *)
(* sequence of pieces.  The tokens of a text stand apart (white space is   *)
(* between them), so two numbers never run into one.                       *)
(***************************************************************************)
EXTENDS Sequences, FiniteSetsExt

Mark(m) == [t |-> m, p |-> <<>>]
Text(pieces) == [t |-> "string", p |-> pieces]
Number(shape) == [t |-> "number", p |-> <<shape>>]

(***************************************************************************)
(* A piece of a string is an ordinary character, written raw ("a") or as a *)
(* \u escape of it ("\\u a"); an escaped surrogate ("hi", "lo"); the       *)
(* character the pair stands for, written raw ("pair"); a control          *)
(* character that should have been escaped; an escape that is not one; a   *)
(* \u with no hex digits behind it; a byte that is not UTF-8; the end of   *)
(* the data before the closing quote ("cut").                              *)
(***************************************************************************)
Pieces == {"a", "\\u a", "hi", "lo", "pair", "control", "\\x", "\\u xx", "bad byte", "cut"}

\* A number is a number of the grammar, a run such as 1-2 of the characters
\* a number is made of, or a lone minus.
Shapes == {"number", "run", "minus"}

Opens(token) == token.t \in {"{", "["}
Closes(token) == token.t \in {"}", "]"}

Is(s, i, m) == i \in DOMAIN s /\ s[i].t = m

\* How many objects and arrays are open once token i has been read.
OpenAfter(s, i) ==
  Quantify(1 .. i, LAMBDA k : Opens(s[k])) - Quantify(1 .. i, LAMBDA k : Closes(s[k]))

\* How deep the text nests.
Nesting(s) == Max({0} \cup {OpenAfter(s, i) : i \in DOMAIN s})

\* A string standing before a colon names a member.
NamesMember(s, i) == Is(s, i, "string") /\ Is(s, i + 1, ":")

\* Two tokens stand in one object or array: nothing closes it in between.
SameContainer(s, i, j) ==
  /\ i < j
  /\ OpenAfter(s, i) = OpenAfter(s, j)
  /\ \A k \in i .. j : OpenAfter(s, k) >= OpenAfter(s, i)
=============================================================================
