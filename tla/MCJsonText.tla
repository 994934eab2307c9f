----------------------------- MODULE MCJsonText -----------------------------
(* Documents of up to two levels, and each of them in an array once more, so
   that the bound on nesting is met and passed. *)
EXTENDS JsonText

Scalars == {<<Number("number")>>, <<Mark("null")>>}
Names == {<<Text(<<"a">>)>>, <<Text(<<"hi", "lo">>)>>}

Comma == <<Mark(",")>>
Array(body) == <<Mark("[")>> \o body \o <<Mark("]")>>
Object(body) == <<Mark("{")>> \o body \o <<Mark("}")>>
Member(name, value) == name \o <<Mark(":")>> \o value

Wrapped(inner) ==
  {Array(v) : v \in inner} \cup {Object(Member(n, v)) : n \in Names, v \in inner}

Flat == {Array(<<>>), Object(<<>>)} \cup Wrapped(Scalars)
  \cup {Object(Member(n, <<Number("number")>>) \o Comma \o Member(m, <<Number("number")>>)) :
        n, m \in Names}
Nested == Wrapped(Flat)
  \cup {Object(Member(n, v) \o Comma \o Member(m, <<Mark("null")>>)) : n, m \in Names, v \in Flat}

MCDocuments == Scalars \cup Flat \cup Nested \cup {Array(v) : v \in Nested}

MCTokens ==
  {Mark(m) : m \in {"{", "}", "[", "]", ",", ":", "null"}}
  \cup {Number(shape) : shape \in Shapes}
  \cup {Text(p) : p \in {<<q>> : q \in Pieces \ {"cut"}} \cup {<<"hi", "lo">>, <<"lo", "hi">>, <<"hi", "a">>}}

MCKnown == {<<"a">>}
=============================================================================
