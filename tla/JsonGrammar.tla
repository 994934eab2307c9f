----------------------------- MODULE JsonGrammar ----------------------------
(***************************************************************************)
(* encoding/json as the SDK uses it: which texts it decodes, and what it   *)
(* makes of a string.  The grammar is stated over the spans of a text, in  *)
(* the shape of RFC 8259 and not of either reader.                         *)
(***************************************************************************)
EXTENDS JsonTokens, Integers

CONSTANT MaxDepth   \* the decoder's bound on nesting, 10000 in the library

RECURSIVE IsValue(_, _, _), IsElements(_, _, _), IsMembers(_, _, _)

\* A string the decoder takes.  It replaces a lone surrogate and a bad byte
\* without a word.
IsString(token) ==
  /\ token.t = "string"
  /\ \A k \in DOMAIN token.p : token.p[k] \notin {"control", "\\x", "\\u xx", "cut"}

\* Tokens i to j are one value.
IsValue(s, i, j) ==
  \/ i = j /\ \/ s[i].t \in {"null", "true"}
              \/ s[i] = Number("number")
              \/ IsString(s[i])
  \/ i < j /\ s[i].t = "[" /\ s[j].t = "]" /\ (j = i + 1 \/ IsElements(s, i + 1, j - 1))
  \/ i < j /\ s[i].t = "{" /\ s[j].t = "}" /\ (j = i + 1 \/ IsMembers(s, i + 1, j - 1))

IsElements(s, i, j) ==
  /\ i <= j
  /\ \/ IsValue(s, i, j)
     \/ \E k \in i + 1 .. j - 1 : s[k].t = "," /\ IsValue(s, i, k - 1) /\ IsElements(s, k + 1, j)

IsMembers(s, i, j) ==
  /\ i + 2 <= j
  /\ IsString(s[i])
  /\ s[i + 1].t = ":"
  /\ \/ IsValue(s, i + 2, j)
     \/ \E k \in i + 3 .. j - 1 : s[k].t = "," /\ IsValue(s, i + 2, k - 1) /\ IsMembers(s, k + 1, j)

\* The decoder takes the text: one value, nested no deeper than its bound.
Decodes(s) == s # <<>> /\ IsValue(s, 1, Len(s)) /\ Nesting(s) <= MaxDepth

\* What the decoder makes of the pieces of a string it takes.
RECURSIVE Unquoted(_)
Unquoted(p) ==
  IF p = <<>> THEN <<>>
  ELSE IF Len(p) > 1 /\ p[1] = "hi" /\ p[2] = "lo"
  THEN <<"pair">> \o Unquoted(SubSeq(p, 3, Len(p)))
  ELSE <<CASE p[1] = "\\u a" -> "a"
           [] p[1] \in {"hi", "lo", "bad byte"} -> "U+FFFD"
           [] OTHER -> p[1]>>
       \o Unquoted(Tail(p))
=============================================================================
