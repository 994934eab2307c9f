------------------------- MODULE RequestEditsProofs -------------------------
(***************************************************************************)
(* Proofs about the body helpers of a hook, for any request, any texts,    *)
(* calls, markers and tokens and any number of edits: provider tokens stay *)
(* honest, go only for a cause, and what is left is a legal replacement.   *)
(* For any content: what guarding a failed result keeps, where the         *)
(* observable prefix ends, what exchanging the markers leaves alone, and   *)
(* that the frames of a fingerprint tell requests apart.                   *)
(***************************************************************************)
EXTENDS RequestEdits, FiniteSetTheorems, SequenceTheorems, TLAPS

-----------------------------------------------------------------------------
\* Places in a sequence: their order, and what Kept makes of it.

\* Places in a sequence are finitely many integers.
LEMMA Places ==
  ASSUME NEW n \in Nat, NEW P \in SUBSET (1 .. n)
  PROVE  IsFiniteSet(P) /\ P \subseteq Int
<1>1. IsFiniteSet(1 .. n) /\ 1 .. n \subseteq Int
  BY FS_Interval
<1> QED BY <1>1, FS_Subset

Rank(S, j) == Cardinality({i \in S : i <= j})
Nth(S, k) == CHOOSE j \in S : Rank(S, j) = k

\* The rank of a place counts from 1 and grows with the place.
LEMMA RankFacts ==
  ASSUME NEW S, IsFiniteSet(S), S \subseteq Int
  PROVE  /\ Cardinality(S) \in Nat
         /\ \A j \in S : Rank(S, j) \in 1 .. Cardinality(S)
         /\ \A i, j \in S : i < j => Rank(S, i) < Rank(S, j)
<1> DEFINE Low(j) == {i \in S : i <= j}
<1>1. \A j \in S : IsFiniteSet(Low(j)) /\ Cardinality(Low(j)) <= Cardinality(S)
  <2>1. \A j \in S : Low(j) \in SUBSET S
    OBVIOUS
  <2> QED BY <2>1, FS_Subset
<1>2. Cardinality(S) \in Nat /\ \A j \in S : Cardinality(Low(j)) \in Nat
  BY <1>1, FS_CardinalityType
<1>3. \A j \in S : Cardinality(Low(j)) # 0
  <2>1. \A j \in S : Low(j) # {}
    <3>1. \A j \in S : j \in Low(j)
      OBVIOUS
    <3> QED BY <3>1
  <2> QED BY <1>1, <2>1, FS_EmptySet
<1>4. ASSUME NEW i \in S, NEW j \in S, i < j
      PROVE  Cardinality(Low(i)) < Cardinality(Low(j))
  <2>1. Low(i) \in SUBSET Low(j)
    <3>1. ASSUME NEW x \in S, x <= i PROVE x <= j
      <4> x \in Int /\ i \in Int /\ j \in Int
        OBVIOUS
      <4> QED BY <1>4, <3>1
    <3> QED BY <3>1
  <2>2. j \in Low(j) /\ j \notin Low(i)
    BY <1>4
  <2>3. Cardinality(Low(i)) <= Cardinality(Low(j)) /\ Cardinality(Low(i)) # Cardinality(Low(j))
    <3> HIDE DEF Low
    <3> QED BY <1>1, <2>1, <2>2, FS_Subset
  <2> QED BY <1>2, <2>3
<1> QED BY <1>1, <1>2, <1>3, <1>4 DEF Rank

\* The places in their order: a ranking without gaps.
LEMMA NthFacts ==
  ASSUME NEW S, IsFiniteSet(S), S \subseteq Int
  PROVE  /\ \A k \in 1 .. Cardinality(S) : Nth(S, k) \in S /\ Rank(S, Nth(S, k)) = k
         /\ \A j \in S : Nth(S, Rank(S, j)) = j
         /\ \A k, l \in 1 .. Cardinality(S) : k < l => Nth(S, k) < Nth(S, l)
<1> DEFINE n == Cardinality(S)
           f == [j \in S |-> Rank(S, j)]
<1>1. /\ n \in Nat
      /\ \A j \in S : Rank(S, j) \in 1 .. n
      /\ \A i, j \in S : i < j => Rank(S, i) < Rank(S, j)
  BY RankFacts
<1>2. \A i, j \in S : Rank(S, i) = Rank(S, j) => i = j
  <2> SUFFICES ASSUME NEW i \in S, NEW j \in S, i # j PROVE Rank(S, i) # Rank(S, j)
    OBVIOUS
  <2> i \in Int /\ j \in Int
    OBVIOUS
  <2>1. i < j \/ j < i
    OBVIOUS
  <2> QED BY <1>1, <2>1
<1>3. f \in Injection(S, 1 .. n)
  BY <1>1, <1>2 DEF Injection, IsInjective
<1>4. f \in Surjection(S, 1 .. n)
  <2>1. IsFiniteSet(1 .. n) /\ Cardinality(1 .. n) = n
    BY <1>1, FS_Interval
  <2> HIDE DEF f
  <2> QED BY <1>3, <2>1, FS_Injection
<1>5. \A k \in 1 .. n : Nth(S, k) \in S /\ Rank(S, Nth(S, k)) = k
  <2>1. \A k \in 1 .. n : \E j \in S : Rank(S, j) = k
    BY <1>4 DEF Surjection
  <2> QED BY <2>1 DEF Nth
<1>6. \A j \in S : Nth(S, Rank(S, j)) = j
  BY <1>1, <1>2, <1>5
<1>7. ASSUME NEW k \in 1 .. n, NEW l \in 1 .. n, k < l PROVE Nth(S, k) < Nth(S, l)
  <2>1. /\ Nth(S, k) \in S /\ Rank(S, Nth(S, k)) = k
        /\ Nth(S, l) \in S /\ Rank(S, Nth(S, l)) = l
    BY <1>5
  <2>2. Nth(S, k) \in Int /\ Nth(S, l) \in Int
    BY <2>1
  <2>3. CASE Nth(S, k) = Nth(S, l)
    BY <1>1, <1>7, <2>1, <2>3
  <2>4. CASE Nth(S, l) < Nth(S, k)
    <3>1. l < k
      BY <1>1, <2>1, <2>4
    <3> QED BY <1>1, <1>7, <3>1
  <2> QED BY <2>2, <2>3, <2>4
<1> QED BY <1>5, <1>6, <1>7

\* What Kept returns, element by element.
LEMMA KeptFacts ==
  ASSUME NEW s, NEW S, IsFiniteSet(S), S \subseteq Int
  PROVE  /\ DOMAIN Kept(s, S) = 1 .. Cardinality(S)
         /\ \A k \in 1 .. Cardinality(S) : Kept(s, S)[k] = s[Nth(S, k)]
         /\ \A j \in S : Rank(S, j) \in 1 .. Cardinality(S) /\ Kept(s, S)[Rank(S, j)] = s[j]
<1>1. Kept(s, S) = [k \in 1 .. Cardinality(S) |-> s[Nth(S, k)]]
  BY DEF Kept, Nth, Rank
<1>2. \A j \in S : Rank(S, j) \in 1 .. Cardinality(S) /\ Nth(S, Rank(S, j)) = j
  BY RankFacts, NthFacts
<1> QED BY <1>1, <1>2

\* Kept is a sequence of elements of s.
LEMMA KeptType ==
  ASSUME NEW s, NEW S, IsFiniteSet(S), S \subseteq Int, NEW A, \A j \in S : s[j] \in A
  PROVE  Kept(s, S) \in Seq(A) /\ Len(Kept(s, S)) = Cardinality(S)
<1>1. Cardinality(S) \in Nat /\ \A k \in 1 .. Cardinality(S) : Nth(S, k) \in S
  BY RankFacts, NthFacts
<1>2. Kept(s, S) = [k \in 1 .. Cardinality(S) |-> s[Nth(S, k)]]
  BY DEF Kept, Nth, Rank
<1>3. Kept(s, S) \in [1 .. Cardinality(S) -> A]
  BY <1>1, <1>2
<1>4. Kept(s, S) \in Seq(A)
  BY <1>1, <1>3, SeqDef
<1> QED BY <1>1, <1>3, <1>4, LenProperties

\* f takes the places S to the places T in their order, and reaches them all.
OrderMap(f, S, T) ==
  /\ f \in [S -> T]
  /\ \A i, j \in S : i < j => f[i] < f[j]
  /\ \A t \in T : \E j \in S : f[j] = t

\* Such a map keeps ranks.
LEMMA SameOrder ==
  ASSUME NEW S, IsFiniteSet(S), S \subseteq Int, NEW T, T \subseteq Int,
         NEW f, OrderMap(f, S, T)
  PROVE  /\ IsFiniteSet(T)
         /\ Cardinality(T) = Cardinality(S)
         /\ \A j \in S : Rank(T, f[j]) = Rank(S, j)
         /\ \A k \in 1 .. Cardinality(S) : Nth(T, k) = f[Nth(S, k)]
<1> USE DEF OrderMap
<1>1. \A i, j \in S : f[i] < f[j] => i < j
  <2> SUFFICES ASSUME NEW i \in S, NEW j \in S, ~(i < j) PROVE ~(f[i] < f[j])
    OBVIOUS
  <2>1. i \in Int /\ j \in Int /\ f[i] \in Int /\ f[j] \in Int
    OBVIOUS
  <2>2. i = j \/ j < i
    BY <2>1
  <2> QED BY <2>1, <2>2
<1>2. \A i, j \in S : i # j => f[i] # f[j]
  <2> SUFFICES ASSUME NEW i \in S, NEW j \in S, i # j PROVE f[i] # f[j]
    OBVIOUS
  <2>1. i \in Int /\ j \in Int /\ f[i] \in Int /\ f[j] \in Int
    OBVIOUS
  <2>2. i < j \/ j < i
    BY <2>1
  <2> QED BY <2>1, <2>2
<1>3. f \in Bijection(S, T)
  BY <1>2 DEF Bijection, Injection, IsInjective, Surjection
<1>4. IsFiniteSet(T) /\ Cardinality(T) = Cardinality(S)
  BY <1>3, FS_Bijection DEF ExistsBijection
<1>5. ASSUME NEW j \in S PROVE Rank(T, f[j]) = Rank(S, j)
  <2> DEFINE A == {i \in S : i <= j}
             B == {t \in T : t <= f[j]}
             g == [i \in A |-> f[i]]
  <2>1. IsFiniteSet(A)
    <3>1. A \in SUBSET S
      OBVIOUS
    <3> QED BY <3>1, FS_Subset
  <2>2. \A i \in A : f[i] \in B
    <3> SUFFICES ASSUME NEW i \in A PROVE f[i] \in B
      OBVIOUS
    <3>1. i \in S /\ i <= j /\ i \in Int /\ j \in Int
      OBVIOUS
    <3>2. f[i] \in T /\ f[j] \in T /\ f[i] \in Int /\ f[j] \in Int
      BY <3>1
    <3>3. f[i] <= f[j]
      BY <3>1, <3>2
    <3> QED BY <3>2, <3>3
  <2>3. \A t \in B : \E i \in A : f[i] = t
    <3> SUFFICES ASSUME NEW t \in B PROVE \E i \in A : f[i] = t
      OBVIOUS
    <3>1. PICK i \in S : f[i] = t
      OBVIOUS
    <3>2. i \in Int /\ j \in Int /\ f[i] \in Int /\ f[j] \in Int /\ f[i] <= f[j]
      BY <3>1
    <3>3. i <= j
      <4>1. f[i] = f[j] \/ f[i] < f[j]
        BY <3>2
      <4> QED BY <1>1, <1>2, <3>2, <4>1
    <3> QED BY <3>1, <3>3
  <2>4. g \in Bijection(A, B)
    <3>1. g \in [A -> B]
      BY <2>2
    <3>2. \A a, b \in A : g[a] = g[b] => a = b
      BY <1>2
    <3>3. \A t \in B : \E i \in A : g[i] = t
      BY <2>3
    <3> HIDE DEF g, A, B
    <3> QED BY <3>1, <3>2, <3>3 DEF Bijection, Injection, IsInjective, Surjection
  <2>5. Cardinality(B) = Cardinality(A)
    BY <2>1, <2>4, FS_Bijection DEF ExistsBijection
  <2> QED BY <2>5 DEF Rank
<1>6. ASSUME NEW k \in 1 .. Cardinality(S) PROVE Nth(T, k) = f[Nth(S, k)]
  <2>1. Nth(S, k) \in S /\ Rank(S, Nth(S, k)) = k
    BY NthFacts
  <2>2. Rank(T, f[Nth(S, k)]) = k /\ f[Nth(S, k)] \in T
    BY <1>5, <2>1
  <2>3. \A t \in T : Nth(T, Rank(T, t)) = t
    BY <1>4, NthFacts
  <2> QED BY <2>2, <2>3
<1> QED BY <1>4, <1>5, <1>6

\* s1 at the places S reads as s2 at the places T.
Agree(f, S, T, s1, s2) ==
  /\ IsFiniteSet(S) /\ S \subseteq Int /\ T \subseteq Int
  /\ OrderMap(f, S, T)
  /\ \A j \in S : s1[j] = s2[f[j]]

\* Sequences that agree along such a map are kept alike.
LEMMA KeptSame ==
  ASSUME NEW S, NEW T, NEW f, NEW s1, NEW s2, Agree(f, S, T, s1, s2)
  PROVE  Kept(s1, S) = Kept(s2, T)
<1> USE DEF Agree
<1>1. /\ Cardinality(T) = Cardinality(S)
      /\ \A k \in 1 .. Cardinality(S) : Nth(T, k) = f[Nth(S, k)]
  BY SameOrder
<1>2. \A k \in 1 .. Cardinality(S) : Nth(S, k) \in S
  BY NthFacts
<1>3. \A k \in 1 .. Cardinality(S) : s1[Nth(S, k)] = s2[Nth(T, k)]
  BY <1>1, <1>2
<1>4. /\ Kept(s1, S) = [k \in 1 .. Cardinality(S) |-> s1[Nth(S, k)]]
      /\ Kept(s2, T) = [k \in 1 .. Cardinality(T) |-> s2[Nth(T, k)]]
  BY DEF Kept, Nth, Rank
<1> QED BY <1>1, <1>3, <1>4


\* The last place is the greatest.
LEMMA Greatest ==
  ASSUME NEW S, IsFiniteSet(S), S \subseteq Int, S # {}
  PROVE  \E m \in S : \A j \in S : j <= m
<1> DEFINE n == Cardinality(S)
           m == Nth(S, n)
<1>1. n \in Nat /\ n # 0
  BY RankFacts, FS_EmptySet
<1>2. m \in S /\ Rank(S, m) = n
  <2>1. n \in 1 .. Cardinality(S)
    BY <1>1
  <2> QED BY <2>1, NthFacts
<1>3. ASSUME NEW j \in S PROVE j <= m
  <2>1. Rank(S, j) \in 1 .. n /\ (m < j => Rank(S, m) < Rank(S, j))
    BY <1>2, RankFacts
  <2>2. Rank(S, j) <= n /\ Rank(S, j) \in Int
    BY <1>1, <2>1
  <2>3. m \in Int /\ j \in Int
    BY <1>2
  <2> HIDE DEF m, n
  <2> QED BY <1>1, <1>2, <2>1, <2>2, <2>3
<1> QED BY <1>2, <1>3

\* And the first is the least.
LEMMA Least ==
  ASSUME NEW S, IsFiniteSet(S), S \subseteq Int, S # {}
  PROVE  Min(S) \in S /\ \A j \in S : Min(S) <= j
<1> DEFINE m == Nth(S, 1)
<1>1. Cardinality(S) \in Nat /\ Cardinality(S) # 0
  BY RankFacts, FS_EmptySet
<1>2. m \in S /\ Rank(S, m) = 1
  <2>1. 1 \in 1 .. Cardinality(S)
    BY <1>1
  <2> QED BY <2>1, NthFacts
<1>3. ASSUME NEW j \in S PROVE m <= j
  <2>1. Rank(S, j) \in 1 .. Cardinality(S) /\ (j < m => Rank(S, j) < Rank(S, m))
    BY <1>2, RankFacts
  <2>2. Rank(S, j) >= 1 /\ Rank(S, j) \in Int
    BY <1>1, <2>1
  <2>3. m \in Int /\ j \in Int
    BY <1>2
  <2> HIDE DEF m
  <2> QED BY <1>2, <2>1, <2>2, <2>3
<1> QED BY <1>2, <1>3 DEF Min

\* Where every place is kept, each is its own rank.
LEMMA NthOfAll ==
  ASSUME NEW n \in Nat, NEW k \in 1 .. n
  PROVE  Nth(1 .. n, k) = k
<1>1. {i \in 1 .. n : i <= k} = 1 .. k
  OBVIOUS
<1>2. Rank(1 .. n, k) = k
  <2>1. Cardinality(1 .. k) = k
    BY FS_Interval
  <2> QED BY <1>1, <2>1 DEF Rank
<1>3. IsFiniteSet(1 .. n) /\ 1 .. n \subseteq Int
  BY FS_Interval
<1> QED BY <1>2, <1>3, NthFacts

-----------------------------------------------------------------------------
\* Blocks: what their kinds say, and how a helper turns one into another.

Message == [role : STRING, blocks : Seq(Block)]
RequestType == [tools : Seq(Marker \cup {None}), messages : Seq(Message)]

\* b replaces a: nothing of a trailing token changes, and where anything else
\* changes the token goes and either the content differs or a result that was
\* not marked as failed is now.
Turned(a, b) ==
  /\ b.kind = a.kind
  /\ b.origin = a.origin
  /\ b.is_error \in {a.is_error, "true"}
  /\ b # a => /\ a.kind # "trailing"
              /\ b.sig = None
              /\ b.body # a.body \/ b.is_error # a.is_error

\* What the kind of a block says of its other fields.
LEMMA BlockFields ==
  ASSUME NEW b \in Block
  PROVE  /\ b.kind \in {"text", "thinking", "tool_use", "tool_result", "cache", "other", "trailing"}
         /\ b.origin \in Nat
         /\ b.sig \in Token \cup {None}
         /\ b.kind = "cache" => b.sig = None
         /\ b.kind = "trailing" => b.body = None
         /\ b.kind # "tool_result" => b.is_error = None
         /\ b.kind = "tool_result" => b.body \in Seq(Arm) /\ b.body # <<>>
<1> USE DEF Block, Fields
<1>1. CASE b \in Fields({"text", "thinking"}, Text, Token \cup {None}, {None})
  BY <1>1
<1>2. CASE b \in Fields({"tool_use"}, Call, Token \cup {None}, {None})
  BY <1>2
<1>3. CASE b \in Fields({"tool_result"}, Seq(Arm) \ {<<>>}, Token \cup {None}, {None, "false", "true"})
  BY <1>3
<1>4. CASE b \in Fields({"cache"}, Marker, {None}, {None})
  BY <1>4
<1>5. CASE b \in Fields({"other"}, Payload, Token \cup {None}, {None})
  BY <1>5
<1>6. CASE b \in Fields({"trailing"}, {None}, Token, {None})
  BY <1>6
<1> QED BY <1>1, <1>2, <1>3, <1>4, <1>5, <1>6

\* The kinds a helper rewrites, one by one.
LEMMA BlockOfKind ==
  ASSUME NEW b \in Block
  PROVE  /\ b.kind \in {"text", "thinking"} => b \in Fields({"text", "thinking"}, Text, Token \cup {None}, {None})
         /\ b.kind = "tool_use" => b \in Fields({"tool_use"}, Call, Token \cup {None}, {None})
         /\ b.kind = "tool_result" => b \in Fields({"tool_result"}, Seq(Arm) \ {<<>>},
                                            Token \cup {None}, {None, "false", "true"})
         /\ b.kind = "cache" => b \in Fields({"cache"}, Marker, {None}, {None})
  BY DEF Block, Fields

\* A new text under the kind of a text block, or a new call.
LEMMA WithTextTurns ==
  ASSUME NEW b \in Block, NEW x,
         (b.kind = "text" /\ x \in Text) \/ (b.kind = "tool_use" /\ x \in Call)
  PROVE  /\ WithText(b, x) \in Block
         /\ Turned(b, WithText(b, x))
         /\ WithText(b, x).is_error = b.is_error
         /\ WithText(b, x).body = x
         /\ b.body = x => WithText(b, x) = b
<1> DEFINE c == [b EXCEPT !.body = x, !.sig = None]
<1>1. CASE b.body = x
  BY <1>1 DEF WithText, Turned
<1>2. CASE b.body # x
  <2>1. WithText(b, x) = c
    BY <1>2 DEF WithText
  <2>2. CASE b.kind = "text"
    <3>1. b \in Fields({"text", "thinking"}, Text, Token \cup {None}, {None}) /\ x \in Text
      BY <2>2, BlockOfKind
    <3>2. c \in Fields({"text", "thinking"}, Text, Token \cup {None}, {None})
      BY <3>1 DEF Fields
    <3>3. c.kind = b.kind /\ c.origin = b.origin /\ c.is_error = b.is_error /\ c.sig = None /\ c.body = x
      BY <3>1 DEF Fields
    <3> QED BY <1>2, <2>1, <2>2, <3>2, <3>3 DEF Block, Turned
  <2>3. CASE b.kind = "tool_use"
    <3>1. b \in Fields({"tool_use"}, Call, Token \cup {None}, {None}) /\ x \in Call
      BY <2>3, BlockOfKind
    <3>2. c \in Fields({"tool_use"}, Call, Token \cup {None}, {None})
      BY <3>1 DEF Fields
    <3>3. c.kind = b.kind /\ c.origin = b.origin /\ c.is_error = b.is_error /\ c.sig = None /\ c.body = x
      BY <3>1 DEF Fields
    <3> QED BY <1>2, <2>1, <2>3, <3>2, <3>3 DEF Block, Turned
  <2> QED BY <2>2, <2>3
<1> QED BY <1>1, <1>2

\* A cache breakpoint that is set; it carries no token.
LEMMA BreakpointTurns ==
  ASSUME NEW b \in Block, b.kind = "cache", NEW m \in Marker
  PROVE  /\ [b EXCEPT !.body = m] \in Block
         /\ Turned(b, [b EXCEPT !.body = m])
         /\ [b EXCEPT !.body = m].is_error = b.is_error
<1> DEFINE c == [b EXCEPT !.body = m]
<1>1. b \in Fields({"cache"}, Marker, {None}, {None})
  BY BlockOfKind
<1>2. c \in Fields({"cache"}, Marker, {None}, {None})
  BY <1>1 DEF Fields
<1>3. c.kind = b.kind /\ c.origin = b.origin /\ c.is_error = b.is_error /\ c.sig = None /\ c.body = m
  BY <1>1 DEF Fields
<1>4. m = b.body => c = b
  BY <1>1 DEF Fields
<1> QED BY <1>2, <1>3, <1>4 DEF Block, Turned

\* A result whose content is replaced, and with it a token it may have had.
LEMMA ResultTurns ==
  ASSUME NEW b \in Block, b.kind = "tool_result",
         NEW c, c.kind = b.kind, c.origin = b.origin, c.sig = None,
         c.is_error \in {b.is_error, "true"},
         c \in [kind : {"tool_result"}, body : Seq(Arm) \ {<<>>}, sig : {None},
                is_error : {None, "false", "true"}, origin : Nat],
         c.body # b.body \/ c.is_error # b.is_error
  PROVE  c \in Block /\ Turned(b, c)
<1>1. c \in Fields({"tool_result"}, Seq(Arm) \ {<<>>}, Token \cup {None}, {None, "false", "true"})
  BY DEF Fields
<1> QED BY <1>1 DEF Block, Turned


\* One text arm of a result is exchanged.
LEMMA SetArmTurns ==
  ASSUME NEW b \in Block, b.kind = "tool_result", NEW x \in Text,
         ArmsOf(b.body, "text") # {}
  PROVE  /\ SetArm(b, x) \in Block
         /\ Turned(b, SetArm(b, x))
         /\ SetArm(b, x).is_error = b.is_error
<1> DEFINE k == CHOOSE k \in ArmsOf(b.body, "text") : TRUE
           c == [b EXCEPT !.body[k].body = x, !.sig = None]
<1>1. b \in Fields({"tool_result"}, Seq(Arm) \ {<<>>}, Token \cup {None}, {None, "false", "true"})
  BY BlockOfKind
<1>2. k \in DOMAIN b.body /\ b.body[k].arm = "text"
  BY DEF ArmsOf
<1> HIDE DEF k
<1>3. CASE b.body[k].body = x
  BY <1>3 DEF SetArm, Turned, k
<1>4. CASE b.body[k].body # x
  <2>1. b.body \in Seq(Arm) /\ b.body # <<>>
    BY <1>1 DEF Fields
  <2>2. k \in 1 .. Len(b.body) /\ b.body[k] \in Arm
    BY <1>2, <2>1, LenProperties, ElementOfSeq
  <2> DEFINE a == [b.body[k] EXCEPT !.body = x]
             s == [b.body EXCEPT ![k] = a]
  <2>3. a \in Arm /\ a.body = x
    BY <1>2, <2>2 DEF Arm
  <2>4. s \in Seq(Arm) /\ Len(s) = Len(b.body) /\ s[k] = a
    BY <2>1, <2>2, <2>3, ExceptSeq
  <2>5. s # <<>> /\ s # b.body
    <3> HIDE DEF s, a
    <3>1. a # b.body[k]
      BY <1>4, <2>3
    <3>2. Len(s) # 0
      BY <2>2, <2>4
    <3> QED BY <2>4, <3>1, <3>2, EmptySeq
  <2>6. c.body = s /\ c.sig = None /\ c.kind = b.kind /\ c.origin = b.origin /\ c.is_error = b.is_error
    BY <1>1 DEF Fields
  <2>7. c \in [kind : {"tool_result"}, body : Seq(Arm) \ {<<>>}, sig : {None},
               is_error : {None, "false", "true"}, origin : Nat]
    <3> HIDE DEF s
    <3> QED BY <1>1, <2>4, <2>5, <2>6 DEF Fields
  <2>8. c \in Block /\ Turned(b, c)
    BY <2>5, <2>6, <2>7, ResultTurns
  <2>9. SetArm(b, x) = c
    BY <1>4 DEF SetArm, k
  <2> QED BY <2>6, <2>8, <2>9
<1> QED BY <1>3, <1>4

\* A marker that closes the prefix is exchanged, a block's own or a nested one.
LEMMA SetMarkerTurns ==
  ASSUME NEW b \in Block, NEW m \in Marker, NEW arm,
         \/ arm = 0 /\ b.kind = "cache"
         \/ arm # 0 /\ b.kind = "tool_result" /\ arm \in DOMAIN b.body /\ b.body[arm].arm = "cache"
  PROVE  /\ SetMarker(b, arm, m) \in Block
         /\ Turned(b, SetMarker(b, arm, m))
         /\ SetMarker(b, arm, m).is_error = b.is_error
<1>1. CASE arm = 0 /\ b.kind = "cache"
  BY <1>1, BreakpointTurns DEF SetMarker
<1>2. CASE /\ arm # 0 /\ b.kind = "tool_result" /\ arm \in DOMAIN b.body
           /\ b.body[arm].arm = "cache" /\ b.body[arm].body = m
  BY <1>2 DEF SetMarker, Turned
<1>3. CASE /\ arm # 0 /\ b.kind = "tool_result" /\ arm \in DOMAIN b.body
           /\ b.body[arm].arm = "cache" /\ b.body[arm].body # m
  <2> DEFINE c == [b EXCEPT !.body[arm].body = m, !.sig = None]
             a == [b.body[arm] EXCEPT !.body = m]
             s == [b.body EXCEPT ![arm] = a]
  <2>1. b \in Fields({"tool_result"}, Seq(Arm) \ {<<>>}, Token \cup {None}, {None, "false", "true"})
    BY <1>3, BlockOfKind
  <2>2. b.body \in Seq(Arm) /\ b.body # <<>>
    BY <2>1 DEF Fields
  <2>3. arm \in 1 .. Len(b.body) /\ b.body[arm] \in Arm
    BY <1>3, <2>2, LenProperties, ElementOfSeq
  <2>4. a \in Arm /\ a.body = m
    BY <1>3, <2>3 DEF Arm
  <2>5. s \in Seq(Arm) /\ Len(s) = Len(b.body) /\ s[arm] = a
    BY <2>2, <2>3, <2>4, ExceptSeq
  <2>6. s # <<>> /\ s # b.body
    <3> HIDE DEF s, a
    <3>1. a # b.body[arm]
      BY <1>3, <2>4
    <3>2. Len(s) # 0
      BY <2>3, <2>5
    <3> QED BY <2>5, <3>1, <3>2, EmptySeq
  <2>7. c.body = s /\ c.sig = None /\ c.kind = b.kind /\ c.origin = b.origin /\ c.is_error = b.is_error
    BY <2>1 DEF Fields
  <2>8. c \in [kind : {"tool_result"}, body : Seq(Arm) \ {<<>>}, sig : {None},
               is_error : {None, "false", "true"}, origin : Nat]
    <3> HIDE DEF s
    <3> QED BY <2>1, <2>5, <2>6, <2>7 DEF Fields
  <2>9. c \in Block /\ Turned(b, c)
    BY <1>3, <2>6, <2>7, <2>8, ResultTurns
  <2>10. SetMarker(b, arm, m) = c
    BY <1>3 DEF SetMarker
  <2> QED BY <2>7, <2>9, <2>10
<1> QED BY <1>1, <1>2, <1>3

\* What is left of a result that is marked as failed: arms, and at least one.
LEMMA WithheldType ==
  ASSUME NEW content \in Seq(Arm), content # <<>>, NEW x \in Text
  PROVE  Withheld(content, x) \in Seq(Arm) \ {<<>>}
<1> DEFINE u == [k \in DOMAIN content |-> IF k \in Visible(content) THEN TextArm(x) ELSE content[k]]
           P == ArmsOf(content, "cache") \cup Starts(content)
<1>1. Len(content) \in Nat /\ Len(content) # 0 /\ DOMAIN content = 1 .. Len(content)
  BY LenProperties, EmptySeq
<1>2. P \in SUBSET (1 .. Len(content))
  BY <1>1 DEF ArmsOf, Starts, Visible
<1>3. IsFiniteSet(P) /\ P \subseteq Int
  <2> HIDE DEF P
  <2> QED BY <1>1, <1>2, Places
<1>4. 1 \in P
  BY <1>1 DEF ArmsOf, Starts, Visible
<1>5. \A k \in P : u[k] \in Arm
  <2> SUFFICES ASSUME NEW k \in P PROVE u[k] \in Arm
    OBVIOUS
  <2>1. k \in DOMAIN content /\ content[k] \in Arm
    BY <1>1, <1>2, ElementOfSeq
  <2>2. TextArm(x) \in Arm
    BY DEF TextArm, Arm
  <2> QED BY <2>1, <2>2
<1>6. Withheld(content, x) = Kept(u, P)
  BY DEF Withheld
<1>7. Kept(u, P) \in Seq(Arm) /\ Len(Kept(u, P)) = Cardinality(P)
  <2> HIDE DEF u, P
  <2> QED BY <1>3, <1>5, KeptType
<1>8. Cardinality(P) # 0
  BY <1>3, <1>4, FS_EmptySet
<1> QED BY <1>6, <1>7, <1>8, EmptySeq

\* A result marked as failed.
LEMMA FailedTurns ==
  ASSUME NEW b \in Block, b.kind = "tool_result", NEW x \in Text
  PROVE  /\ FailedWith(b, x) \in Block
         /\ Turned(b, FailedWith(b, x))
         /\ FailedWith(b, x).body = Withheld(b.body, x)
<1> DEFINE w == Withheld(b.body, x)
           failed == [b EXCEPT !.body = w, !.is_error = "true"]
           c == [failed EXCEPT !.sig = None]
<1>1. b \in Fields({"tool_result"}, Seq(Arm) \ {<<>>}, Token \cup {None}, {None, "false", "true"})
  BY BlockOfKind
<1>2. w \in Seq(Arm) \ {<<>>}
  <2>1. b.body \in Seq(Arm) /\ b.body # <<>>
    BY <1>1 DEF Fields
  <2> QED BY <2>1, WithheldType
<1>3. FailedWith(b, x) = IF failed = b THEN b ELSE c
  BY DEF FailedWith
<1> HIDE DEF w
<1>4. failed.body = w /\ failed.is_error = "true"
  BY <1>1 DEF Fields
<1>5. CASE failed = b
  BY <1>3, <1>4, <1>5 DEF Turned, w
<1>6. CASE failed # b
  <2>1. w # b.body \/ b.is_error # "true"
    BY <1>1, <1>6 DEF Fields
  <2>2. c.body = w /\ c.sig = None /\ c.kind = b.kind /\ c.origin = b.origin /\ c.is_error = "true"
    BY <1>1 DEF Fields
  <2>3. c \in [kind : {"tool_result"}, body : Seq(Arm) \ {<<>>}, sig : {None},
               is_error : {None, "false", "true"}, origin : Nat]
    BY <1>1, <1>2, <2>2 DEF Fields
  <2>4. c \in Block /\ Turned(b, c)
    BY <2>1, <2>2, <2>3, ResultTurns
  <2> QED BY <1>3, <1>6, <2>2, <2>4 DEF w
<1> QED BY <1>5, <1>6


-----------------------------------------------------------------------------
\* One edit of the blocks of a message.

\* The places a trailing token covers.
Covered(blocks) == {j \in DOMAIN blocks : blocks[j].kind \in {"text", "thinking"}}
HasTrailing(blocks) == \E j \in DOMAIN blocks : blocks[j].kind = "trailing"
Contents(blocks) == {j \in DOMAIN blocks : blocks[j].kind # "trailing"}

Legal(blocks) ==
  /\ blocks \in Seq(Block)
  /\ \A j \in DOMAIN blocks : blocks[j].kind = "trailing" => j = Len(blocks)

\* What a plugin adds carries no token.
New(b) == b.origin = 0 /\ b.sig = None /\ b.kind \notin {"trailing", "tool_result"}

\* g[k] is the place the k-th block had, 0 for one that was added: blocks are
\* rewritten where they stand, and neither doubled nor moved past each other.
Edits(g, old, new) ==
  /\ g \in [DOMAIN new -> Nat]
  /\ \A k \in DOMAIN new :
       \/ g[k] = 0 /\ New(new[k])
       \/ g[k] \in DOMAIN old /\ Turned(old[g[k]], new[k])
  /\ \A k, l \in DOMAIN new : k < l /\ g[k] # 0 /\ g[l] # 0 => g[k] < g[l]

\* A trailing token stays at the end and as long as what it covers, and no
\* longer; neither the covered texts nor the contents of a message vanish.
Keeps(old, new) ==
  /\ Legal(new)
  /\ HasTrailing(new) => CoveredTexts(new) = CoveredTexts(old)
  /\ HasTrailing(old) /\ ~HasTrailing(new) => CoveredTexts(new) # CoveredTexts(old)
  /\ Covered(old) # {} => Covered(new) # {}
  /\ (\E j \in DOMAIN old : old[j].kind \notin {"cache", "trailing"})
       => \E k \in DOMAIN new : new[k].kind \notin {"cache", "trailing"}

\* No result is marked as failed.
Quiet(g, old, new) ==
  \A k \in DOMAIN new : g[k] # 0 => new[k].is_error = old[g[k]].is_error

Edited(old, new) == Keeps(old, new) /\ \E g : Edits(g, old, new)
EditedQuietly(old, new) == Keeps(old, new) /\ \E g : Edits(g, old, new) /\ Quiet(g, old, new)

\* Covered places are places.
LEMMA CoveredPlaces ==
  ASSUME NEW blocks \in Seq(Block)
  PROVE  /\ Covered(blocks) \in SUBSET (1 .. Len(blocks))
         /\ IsFiniteSet(Covered(blocks)) /\ Covered(blocks) \subseteq Int
         /\ CoveredTexts(blocks) = Kept([j \in DOMAIN blocks |-> blocks[j].body], Covered(blocks))
<1>1. Len(blocks) \in Nat /\ DOMAIN blocks = 1 .. Len(blocks)
  BY LenProperties
<1>2. Covered(blocks) \in SUBSET (1 .. Len(blocks))
  BY <1>1 DEF Covered
<1>3. CoveredTexts(blocks) = Kept([j \in DOMAIN blocks |-> blocks[j].body], Covered(blocks))
  BY DEF CoveredTexts, Covered
<1> QED BY <1>1, <1>2, <1>3, Places

\* Covered texts that are all there, unchanged and in their order.
LEMMA CoveredSame ==
  ASSUME NEW old \in Seq(Block), NEW new \in Seq(Block),
         NEW f, OrderMap(f, Covered(new), Covered(old)),
         \A k \in Covered(new) : new[k].body = old[f[k]].body
  PROVE  CoveredTexts(new) = CoveredTexts(old)
<1> DEFINE s1 == [j \in DOMAIN new |-> new[j].body]
           s2 == [j \in DOMAIN old |-> old[j].body]
<1>1. \A k \in Covered(new) : s1[k] = s2[f[k]]
  <2>1. \A k \in Covered(new) : k \in DOMAIN new /\ f[k] \in DOMAIN old
    BY DEF OrderMap, Covered
  <2> QED BY <2>1
<1>2. /\ IsFiniteSet(Covered(new)) /\ Covered(new) \subseteq Int /\ Covered(old) \subseteq Int
      /\ CoveredTexts(new) = Kept(s1, Covered(new)) /\ CoveredTexts(old) = Kept(s2, Covered(old))
  BY CoveredPlaces
<1> HIDE DEF s1, s2
<1>3. Agree(f, Covered(new), Covered(old), s1, s2)
  BY <1>1, <1>2 DEF Agree
<1> QED BY <1>2, <1>3, KeptSame

\* One block is rewritten that a trailing token does not cover.
LEMMA RewriteOne ==
  ASSUME NEW old, Legal(old), NEW j \in DOMAIN old, NEW b \in Block,
         Turned(old[j], b), old[j].kind \notin {"text", "thinking", "trailing"}
  PROVE  /\ Edited(old, [old EXCEPT ![j] = b])
         /\ b.is_error = old[j].is_error => EditedQuietly(old, [old EXCEPT ![j] = b])
<1> DEFINE new == [old EXCEPT ![j] = b]
           g == [k \in DOMAIN new |-> k]
<1>1. old \in Seq(Block) /\ Len(old) \in Nat /\ DOMAIN old = 1 .. Len(old)
  BY LenProperties DEF Legal
<1>2. /\ new \in Seq(Block) /\ Len(new) = Len(old) /\ DOMAIN new = DOMAIN old
      /\ new[j] = b /\ \A k \in DOMAIN old : k # j => new[k] = old[k]
  BY <1>1, ExceptSeq
<1> HIDE DEF new
<1>3. \A k \in DOMAIN old : new[k].kind = old[k].kind
  BY <1>2 DEF Turned
<1>4. Legal(new)
  BY <1>2, <1>3 DEF Legal
<1>5. Covered(new) = Covered(old)
  BY <1>2, <1>3 DEF Covered
<1>6. CoveredTexts(new) = CoveredTexts(old)
  <2> DEFINE f == [k \in Covered(new) |-> k]
  <2>1. OrderMap(f, Covered(new), Covered(old))
    BY <1>5 DEF OrderMap
  <2>2. \A k \in Covered(new) : new[k].body = old[f[k]].body
    BY <1>2, <1>3 DEF Covered
  <2> HIDE DEF f
  <2> QED BY <1>1, <1>2, <2>1, <2>2, CoveredSame
<1>7. Keeps(old, new)
  BY <1>2, <1>3, <1>4, <1>5, <1>6 DEF Keeps, HasTrailing
<1>8. Edits(g, old, new)
  <2>1. g \in [DOMAIN new -> Nat]
    BY <1>1, <1>2
  <2>2. \A k \in DOMAIN new : g[k] \in DOMAIN old /\ Turned(old[g[k]], new[k])
    BY <1>2 DEF Turned
  <2> QED BY <2>1, <2>2 DEF Edits
<1>9. b.is_error = old[j].is_error => Quiet(g, old, new)
  BY <1>2 DEF Quiet
<1> QED BY <1>7, <1>8, <1>9 DEF Edited, EditedQuietly, new


\* A helper that finds nothing to change.
LEMMA LeaveAll ==
  ASSUME NEW old, Legal(old)
  PROVE  EditedQuietly(old, old)
<1> DEFINE g == [k \in DOMAIN old |-> k]
<1>1. DOMAIN old = 1 .. Len(old) /\ Len(old) \in Nat /\ \A k \in DOMAIN old : old[k] \in Block
  BY LenProperties, ElementOfSeq DEF Legal
<1>2. \A k \in DOMAIN old : Turned(old[k], old[k])
  BY DEF Turned
<1>3. Edits(g, old, old) /\ Quiet(g, old, old)
  BY <1>1, <1>2 DEF Edits, Quiet
<1>4. Keeps(old, old)
  BY DEF Keeps
<1> QED BY <1>3, <1>4 DEF EditedQuietly

\* What InsertAt returns, place by place.
LEMMA InsertFacts ==
  ASSUME NEW A, NEW s \in Seq(A), NEW at \in 1 .. Len(s) + 1, NEW b \in A
  PROVE  /\ InsertAt(s, at, b) \in Seq(A)
         /\ Len(InsertAt(s, at, b)) = Len(s) + 1
         /\ \A k \in 1 .. Len(s) + 1 :
              InsertAt(s, at, b)[k] = IF k < at THEN s[k] ELSE IF k = at THEN b ELSE s[k - 1]
<1> DEFINE l == SubSeq(s, 1, at - 1)
           r == SubSeq(s, at, Len(s))
           t == l \o <<b>>
<1>1. Len(s) \in Nat /\ at \in Nat /\ 1 <= at /\ at <= Len(s) + 1
  BY LenProperties
<1>2. /\ l \in Seq(A) /\ Len(l) = at - 1
      /\ \A i \in 1 .. at - 1 : l[i] = s[i]
  <2>1. \A i \in 1 .. at - 1 : s[i] \in A
    BY <1>1, ElementOfSeq
  <2>2. /\ l \in Seq(A) /\ Len(l) = IF 1 <= at - 1 THEN at - 1 - 1 + 1 ELSE 0
        /\ \A i \in 1 .. at - 1 - 1 + 1 : l[i] = s[1 + i - 1]
    BY <1>1, <2>1, SubSeqProperties
  <2> HIDE DEF l
  <2> QED BY <1>1, <2>2
<1>3. /\ r \in Seq(A) /\ Len(r) = Len(s) + 1 - at
      /\ \A i \in 1 .. Len(s) + 1 - at : r[i] = s[at + i - 1]
  <2>1. \A i \in at .. Len(s) : s[i] \in A
    BY <1>1, ElementOfSeq
  <2>2. /\ r \in Seq(A) /\ Len(r) = IF at <= Len(s) THEN Len(s) - at + 1 ELSE 0
        /\ \A i \in 1 .. Len(s) - at + 1 : r[i] = s[at + i - 1]
    BY <1>1, <2>1, SubSeqProperties
  <2> HIDE DEF r
  <2> QED BY <1>1, <2>2
<1>4. /\ t \in Seq(A) /\ Len(t) = at
      /\ \A i \in 1 .. at : t[i] = IF i < at THEN s[i] ELSE b
  <2>1. <<b>> \in Seq(A) /\ Len(<<b>>) = 1 /\ <<b>>[1] = b
    OBVIOUS
  <2> HIDE DEF l
  <2>2. /\ t \in Seq(A) /\ Len(t) = Len(l) + Len(<<b>>)
        /\ \A i \in 1 .. Len(l) + Len(<<b>>) :
             t[i] = IF i <= Len(l) THEN l[i] ELSE <<b>>[i - Len(l)]
    BY <1>2, <2>1, ConcatProperties
  <2> QED BY <1>1, <1>2, <2>1, <2>2
<1>5. /\ t \o r \in Seq(A) /\ Len(t \o r) = Len(t) + Len(r)
      /\ \A i \in 1 .. Len(t) + Len(r) : (t \o r)[i] = IF i <= Len(t) THEN t[i] ELSE r[i - Len(t)]
  <2> HIDE DEF t, r
  <2> QED BY <1>3, <1>4, ConcatProperties
<1>6. InsertAt(s, at, b) = t \o r
  BY DEF InsertAt
<1> HIDE DEF t, r
<1>7. ASSUME NEW k \in 1 .. Len(s) + 1
      PROVE  (t \o r)[k] = IF k < at THEN s[k] ELSE IF k = at THEN b ELSE s[k - 1]
  <2>1. CASE k <= at
    BY <1>1, <1>3, <1>4, <1>5, <2>1
  <2>2. CASE k > at
    <3>0. k \in Nat
      BY <1>1
    <3>1. k - at \in 1 .. Len(s) + 1 - at /\ at + (k - at) - 1 = k - 1
      BY <1>1, <2>2
    <3>2. (t \o r)[k] = r[k - at]
      BY <1>1, <1>3, <1>4, <1>5, <2>2
    <3>3. r[k - at] = s[k - 1]
      BY <1>3, <3>1
    <3> QED BY <1>1, <2>2, <3>0, <3>2, <3>3
  <2>3. k <= at \/ k > at
    BY <1>1
  <2> QED BY <2>1, <2>2, <2>3
<1> QED BY <1>1, <1>3, <1>4, <1>5, <1>6, <1>7

\* What RemoveAt returns, place by place.
LEMMA RemoveFacts ==
  ASSUME NEW A, NEW s \in Seq(A), NEW at \in 1 .. Len(s)
  PROVE  /\ RemoveAt(s, at) \in Seq(A)
         /\ Len(RemoveAt(s, at)) = Len(s) - 1
         /\ \A k \in 1 .. Len(s) - 1 : RemoveAt(s, at)[k] = IF k < at THEN s[k] ELSE s[k + 1]
<1> DEFINE l == SubSeq(s, 1, at - 1)
           r == SubSeq(s, at + 1, Len(s))
<1>1. Len(s) \in Nat /\ at \in Nat /\ 1 <= at /\ at <= Len(s)
  BY LenProperties
<1>2. /\ l \in Seq(A) /\ Len(l) = at - 1
      /\ \A i \in 1 .. at - 1 : l[i] = s[i]
  <2>1. \A i \in 1 .. at - 1 : s[i] \in A
    BY <1>1, ElementOfSeq
  <2>2. /\ l \in Seq(A) /\ Len(l) = IF 1 <= at - 1 THEN at - 1 - 1 + 1 ELSE 0
        /\ \A i \in 1 .. at - 1 - 1 + 1 : l[i] = s[1 + i - 1]
    BY <1>1, <2>1, SubSeqProperties
  <2> HIDE DEF l
  <2> QED BY <1>1, <2>2
<1>3. /\ r \in Seq(A) /\ Len(r) = Len(s) - at
      /\ \A i \in 1 .. Len(s) - at : r[i] = s[at + i]
  <2>1. \A i \in at + 1 .. Len(s) : s[i] \in A
    BY <1>1, ElementOfSeq
  <2>2. /\ r \in Seq(A) /\ Len(r) = IF at + 1 <= Len(s) THEN Len(s) - (at + 1) + 1 ELSE 0
        /\ \A i \in 1 .. Len(s) - (at + 1) + 1 : r[i] = s[at + 1 + i - 1]
    BY <1>1, <2>1, SubSeqProperties
  <2> HIDE DEF r
  <2> QED BY <1>1, <2>2
<1>4. /\ l \o r \in Seq(A) /\ Len(l \o r) = Len(l) + Len(r)
      /\ \A i \in 1 .. Len(l) + Len(r) : (l \o r)[i] = IF i <= Len(l) THEN l[i] ELSE r[i - Len(l)]
  <2> HIDE DEF l, r
  <2> QED BY <1>2, <1>3, ConcatProperties
<1>5. RemoveAt(s, at) = l \o r
  BY DEF RemoveAt
<1> HIDE DEF l, r
<1>6. ASSUME NEW k \in 1 .. Len(s) - 1
      PROVE  (l \o r)[k] = IF k < at THEN s[k] ELSE s[k + 1]
  <2>1. CASE k < at
    BY <1>1, <1>2, <1>3, <1>4, <2>1
  <2>2. CASE k >= at
    <3>1. k - (at - 1) \in 1 .. Len(s) - at /\ at + (k - (at - 1)) = k + 1
      BY <1>1, <2>2
    <3>2. (l \o r)[k] = r[k - (at - 1)]
      BY <1>1, <1>2, <1>3, <1>4, <2>2
    <3>3. r[k - (at - 1)] = s[k + 1]
      BY <1>3, <3>1
    <3> QED BY <1>1, <2>2, <3>2, <3>3
  <2>3. k < at \/ k >= at
    BY <1>1
  <2> QED BY <2>1, <2>2, <2>3
<1>7. Len(l) + Len(r) = Len(s) - 1
  BY <1>1, <1>2, <1>3
<1> QED BY <1>4, <1>5, <1>6, <1>7


\* clearTrailingSignature takes the trailing token and nothing else.
LEMMA UnsealedFacts ==
  ASSUME NEW old, Legal(old)
  PROVE  /\ Unsealed(old) \in Seq(Block)
         /\ ~HasTrailing(Unsealed(old))
         /\ HasTrailing(old) => Len(Unsealed(old)) = Len(old) - 1
         /\ ~HasTrailing(old) => Unsealed(old) = old
         /\ DOMAIN Unsealed(old) = Contents(old)
         /\ \A k \in DOMAIN Unsealed(old) : Unsealed(old)[k] = old[k]
<1> DEFINE n == Len(old)
           u == SubSeq(old, 1, n - 1)
<1> USE DEF Contents
<1>1. /\ old \in Seq(Block) /\ n \in Nat /\ DOMAIN old = 1 .. n
      /\ \A j \in DOMAIN old : old[j].kind = "trailing" => j = n
      /\ \A j \in 1 .. n : old[j] \in Block
  BY LenProperties, ElementOfSeq DEF Legal
<1>2. CASE HasTrailing(old)
  <2>1. n # 0 /\ old[n].kind = "trailing"
    BY <1>1, <1>2 DEF HasTrailing
  <2>2. old # <<>>
    BY <1>1, <2>1, EmptySeq
  <2>3. Unsealed(old) = u
    BY <2>1, <2>2 DEF Unsealed, Last, Front
  <2>4. u \in Seq(Block) /\ Len(u) = n - 1 /\ \A i \in 1 .. n - 1 : u[i] = old[i]
    <3>1. \A i \in 1 .. n - 1 : old[i] \in Block
      BY <1>1
    <3>2. /\ u \in Seq(Block) /\ Len(u) = IF 1 <= n - 1 THEN n - 1 - 1 + 1 ELSE 0
          /\ \A i \in 1 .. n - 1 - 1 + 1 : u[i] = old[1 + i - 1]
      BY <1>1, <3>1, SubSeqProperties
    <3> HIDE DEF u, n
    <3> QED BY <1>1, <2>1, <3>2
  <2> HIDE DEF u, n
  <2>5. DOMAIN u = 1 .. n - 1
    BY <2>4, LenProperties
  <2>6. \A k \in 1 .. n : k \in 1 .. n - 1 <=> k # n
    BY <1>1
  <2>7. DOMAIN u = {j \in DOMAIN old : old[j].kind # "trailing"}
    BY <1>1, <2>1, <2>5, <2>6
  <2> QED BY <1>2, <2>3, <2>4, <2>5, <2>7 DEF HasTrailing, n
<1>3. CASE ~HasTrailing(old)
  <2>1. Unsealed(old) = old
    <3>1. ASSUME old # <<>> PROVE old[n].kind # "trailing"
      <4>1. n \in DOMAIN old
        BY <1>1, <3>1, EmptySeq
      <4> QED BY <1>3, <4>1 DEF HasTrailing
    <3> QED BY <3>1 DEF Unsealed, Last
  <2> QED BY <1>1, <1>3, <2>1 DEF HasTrailing
<1> QED BY <1>2, <1>3

\* A helper adds a block of its own, in front of a trailing token.
LEMMA AddOne ==
  ASSUME NEW old, Legal(old), NEW at, MayInsert(old, at),
         NEW b \in Block, New(b), b.kind \notin {"text", "thinking"}
  PROVE  EditedQuietly(old, InsertAt(old, at, b))
<1> DEFINE n == Len(old)
           new == InsertAt(old, at, b)
           g == [k \in DOMAIN new |-> IF k < at THEN k ELSE IF k = at THEN 0 ELSE k - 1]
<1>1. /\ old \in Seq(Block) /\ n \in Nat /\ DOMAIN old = 1 .. n
      /\ \A j \in DOMAIN old : old[j].kind = "trailing" => j = n
  BY LenProperties DEF Legal
<1>2. at \in 1 .. n + 1 /\ at \in Nat
  BY <1>1 DEF MayInsert
<1>3. /\ new \in Seq(Block) /\ Len(new) = n + 1 /\ DOMAIN new = 1 .. n + 1
      /\ \A k \in 1 .. n + 1 : new[k] = IF k < at THEN old[k] ELSE IF k = at THEN b ELSE old[k - 1]
  <2> HIDE DEF new
  <2>1. /\ new \in Seq(Block) /\ Len(new) = n + 1
        /\ \A k \in 1 .. n + 1 : new[k] = IF k < at THEN old[k] ELSE IF k = at THEN b ELSE old[k - 1]
    BY <1>1, <1>2, InsertFacts DEF new
  <2>2. DOMAIN new = 1 .. n + 1
    BY <2>1, LenProperties
  <2> QED BY <2>1, <2>2
<1> HIDE DEF new, n
<1>4. \A k \in DOMAIN new : k # at => g[k] \in DOMAIN old /\ g[k] # 0 /\ new[k] = old[g[k]]
  BY <1>1, <1>2, <1>3
<1>5. at \in DOMAIN new /\ g[at] = 0 /\ new[at] = b
  BY <1>2, <1>3
<1>6. \A k, l \in DOMAIN new : k < l /\ g[k] # 0 /\ g[l] # 0 => g[k] < g[l]
  BY <1>1, <1>2, <1>3
<1>7. \A j \in DOMAIN old : \E k \in DOMAIN new : k # at /\ g[k] = j
  <2> SUFFICES ASSUME NEW j \in DOMAIN old PROVE \E k \in DOMAIN new : k # at /\ g[k] = j
    OBVIOUS
  <2>1. CASE j < at
    <3>1. j \in DOMAIN new /\ j # at /\ g[j] = j
      BY <1>1, <1>2, <1>3, <2>1
    <3> QED BY <3>1
  <2>2. CASE j >= at
    <3>1. j + 1 \in DOMAIN new /\ j + 1 # at /\ g[j + 1] = j
      BY <1>1, <1>2, <1>3, <2>2
    <3> QED BY <3>1
  <2> QED BY <1>1, <1>2, <2>1, <2>2
<1>8. ASSUME NEW k \in DOMAIN new, new[k].kind = "trailing" PROVE k = Len(new)
  <2>1. k # at
    BY <1>5, <1>8 DEF New
  <2>2. g[k] \in DOMAIN old /\ old[g[k]].kind = "trailing"
    BY <1>4, <1>8, <2>1
  <2>3. g[k] = n
    BY <1>1, <2>2
  <2>4. at # n + 1
    <3>1. HasTrailing(old)
      BY <2>2 DEF HasTrailing
    <3>2. Len(Unsealed(old)) = n - 1
      BY <3>1, UnsealedFacts DEF n
    <3>3. Unsealed(old) # old
      BY <1>1, <3>2 DEF n
    <3> QED BY <3>3 DEF MayInsert, n
  <2> QED BY <1>1, <1>2, <1>3, <2>1, <2>3, <2>4
<1>9. g \in [DOMAIN new -> Nat]
  BY <1>1, <1>2, <1>3
<1> HIDE DEF g
<1>10. Legal(new)
  BY <1>3, <1>8 DEF Legal
<1>11. OrderMap([k \in Covered(new) |-> g[k]], Covered(new), Covered(old))
  <2>1. \A k \in Covered(new) : k \in DOMAIN new /\ k # at /\ g[k] # 0 /\ g[k] \in Covered(old)
    BY <1>4, <1>5 DEF Covered
  <2>2. \A j \in Covered(old) : \E k \in Covered(new) : g[k] = j
    BY <1>4, <1>7 DEF Covered
  <2> QED BY <1>6, <2>1, <2>2 DEF OrderMap
<1>12. CoveredTexts(new) = CoveredTexts(old)
  <2> DEFINE f == [k \in Covered(new) |-> g[k]]
  <2>1. \A k \in Covered(new) : new[k].body = old[f[k]].body
    BY <1>4, <1>5 DEF Covered
  <2>2. OrderMap(f, Covered(new), Covered(old))
    BY <1>11
  <2> HIDE DEF f
  <2> QED BY <1>1, <1>3, <2>1, <2>2, CoveredSame
<1>13. \A j \in DOMAIN old : \E k \in DOMAIN new : new[k] = old[j]
  BY <1>4, <1>7
<1>14. Keeps(old, new)
  BY <1>10, <1>12, <1>13 DEF Keeps, HasTrailing, Covered
<1>15. Edits(g, old, new) /\ Quiet(g, old, new)
  <2>1. \A k \in DOMAIN new : k # at => Turned(old[g[k]], new[k])
    BY <1>4 DEF Turned
  <2> QED BY <1>4, <1>5, <1>6, <1>9, <2>1 DEF Edits, Quiet
<1> QED BY <1>14, <1>15 DEF EditedQuietly, new

\* A cache breakpoint is taken out.
LEMMA RemoveOne ==
  ASSUME NEW old, Legal(old), NEW at \in DOMAIN old, old[at].kind = "cache"
  PROVE  EditedQuietly(old, RemoveAt(old, at))
<1> DEFINE n == Len(old)
           new == RemoveAt(old, at)
           g == [k \in DOMAIN new |-> IF k < at THEN k ELSE k + 1]
<1>1. /\ old \in Seq(Block) /\ n \in Nat /\ DOMAIN old = 1 .. n
      /\ \A j \in DOMAIN old : old[j].kind = "trailing" => j = n
  BY LenProperties DEF Legal
<1>2. at \in 1 .. n /\ at \in Nat
  BY <1>1
<1>3. /\ new \in Seq(Block) /\ Len(new) = n - 1 /\ DOMAIN new = 1 .. n - 1
      /\ \A k \in 1 .. n - 1 : new[k] = IF k < at THEN old[k] ELSE old[k + 1]
  <2> HIDE DEF new
  <2>1. /\ new \in Seq(Block) /\ Len(new) = n - 1
        /\ \A k \in 1 .. n - 1 : new[k] = IF k < at THEN old[k] ELSE old[k + 1]
    BY <1>1, <1>2, RemoveFacts DEF new
  <2>2. DOMAIN new = 1 .. n - 1
    BY <2>1, LenProperties
  <2> QED BY <2>1, <2>2
<1> HIDE DEF new, n
<1>4. \A k \in DOMAIN new : g[k] \in DOMAIN old /\ g[k] # at /\ new[k] = old[g[k]]
  BY <1>1, <1>2, <1>3
<1>5. \A k, l \in DOMAIN new : k < l => g[k] < g[l]
  BY <1>1, <1>2, <1>3
<1>6. \A j \in DOMAIN old : j # at => \E k \in DOMAIN new : g[k] = j
  <2> SUFFICES ASSUME NEW j \in DOMAIN old, j # at PROVE \E k \in DOMAIN new : g[k] = j
    OBVIOUS
  <2>1. CASE j < at
    <3>1. j \in DOMAIN new /\ g[j] = j
      BY <1>1, <1>2, <1>3, <2>1
    <3> QED BY <3>1
  <2>2. CASE j > at
    <3>1. j - 1 \in DOMAIN new /\ g[j - 1] = j
      BY <1>1, <1>2, <1>3, <2>2
    <3> QED BY <3>1
  <2> QED BY <1>1, <1>2, <2>1, <2>2
<1>7. ASSUME NEW k \in DOMAIN new, new[k].kind = "trailing" PROVE k = Len(new)
  <2>1. g[k] = n
    BY <1>1, <1>4, <1>7
  <2> QED BY <1>1, <1>2, <1>3, <1>4, <2>1
<1>8. g \in [DOMAIN new -> Nat]
  BY <1>1, <1>2, <1>3
<1> HIDE DEF g
<1>9. Legal(new)
  BY <1>3, <1>7 DEF Legal
<1>10. OrderMap([k \in Covered(new) |-> g[k]], Covered(new), Covered(old))
  <2>1. \A k \in Covered(new) : k \in DOMAIN new /\ g[k] \in Covered(old)
    BY <1>4 DEF Covered
  <2>2. \A j \in Covered(old) : \E k \in Covered(new) : g[k] = j
    BY <1>4, <1>6 DEF Covered
  <2> QED BY <1>5, <2>1, <2>2 DEF OrderMap
<1>11. CoveredTexts(new) = CoveredTexts(old)
  <2> DEFINE f == [k \in Covered(new) |-> g[k]]
  <2>1. \A k \in Covered(new) : new[k].body = old[f[k]].body
    BY <1>4 DEF Covered
  <2>2. OrderMap(f, Covered(new), Covered(old))
    BY <1>10
  <2> HIDE DEF f
  <2> QED BY <1>1, <1>3, <2>1, <2>2, CoveredSame
<1>12. \A j \in DOMAIN old : old[j].kind # "cache" => \E k \in DOMAIN new : new[k] = old[j]
  BY <1>4, <1>6
<1>13. Keeps(old, new)
  BY <1>9, <1>11, <1>12 DEF Keeps, HasTrailing, Covered
<1>14. Edits(g, old, new) /\ Quiet(g, old, new)
  <2>1. \A k \in DOMAIN new : Turned(old[g[k]], new[k])
    BY <1>4 DEF Turned
  <2> QED BY <1>4, <1>5, <1>8, <2>1 DEF Edits, Quiet
<1> QED BY <1>13, <1>14 DEF EditedQuietly, new


\* What a trailing token covered is all there without it.
LEMMA UnsealedCovered ==
  ASSUME NEW old, Legal(old)
  PROVE  /\ Covered(Unsealed(old)) = Covered(old)
         /\ CoveredTexts(Unsealed(old)) = CoveredTexts(old)
         /\ Legal(Unsealed(old))
<1> DEFINE new == Unsealed(old)
           f == [k \in Covered(new) |-> k]
<1>1. /\ old \in Seq(Block) /\ new \in Seq(Block) /\ ~HasTrailing(new)
      /\ DOMAIN new = {j \in DOMAIN old : old[j].kind # "trailing"}
      /\ \A k \in DOMAIN new : new[k] = old[k]
  BY UnsealedFacts DEF Legal, Contents
<1> HIDE DEF new
<1>2. Covered(new) = Covered(old)
  BY <1>1 DEF Covered
<1>3. Covered(new) \subseteq Int
  BY <1>1, CoveredPlaces
<1>4. OrderMap(f, Covered(new), Covered(old)) /\ \A k \in Covered(new) : new[k].body = old[f[k]].body
  BY <1>1, <1>2, <1>3 DEF OrderMap, Covered
<1> HIDE DEF f
<1>5. CoveredTexts(new) = CoveredTexts(old)
  BY <1>1, <1>4, CoveredSame
<1> QED BY <1>1, <1>2, <1>5 DEF new, Legal, HasTrailing

\* The covered texts show where one of them differs.
LEMMA CoveredDiffers ==
  ASSUME NEW old \in Seq(Block), NEW new \in Seq(Block), Covered(new) = Covered(old),
         NEW j \in Covered(old), new[j].body # old[j].body
  PROVE  CoveredTexts(new) # CoveredTexts(old)
<1> DEFINE s1 == [k \in DOMAIN new |-> new[k].body]
           s2 == [k \in DOMAIN old |-> old[k].body]
<1>1. /\ IsFiniteSet(Covered(old)) /\ Covered(old) \subseteq Int
      /\ CoveredTexts(new) = Kept(s1, Covered(new)) /\ CoveredTexts(old) = Kept(s2, Covered(old))
  BY CoveredPlaces
<1>2. s1[j] # s2[j]
  BY DEF Covered
<1> HIDE DEF s1, s2
<1>3. /\ Kept(s1, Covered(old))[Rank(Covered(old), j)] = s1[j]
      /\ Kept(s2, Covered(old))[Rank(Covered(old), j)] = s2[j]
  BY <1>1, KeptFacts
<1> QED BY <1>1, <1>2, <1>3

\* And how many there are.
LEMMA CoveredCount ==
  ASSUME NEW blocks \in Seq(Block)
  PROVE  /\ Cardinality(Covered(blocks)) \in Nat
         /\ DOMAIN CoveredTexts(blocks) = 1 .. Cardinality(Covered(blocks))
<1>1. /\ IsFiniteSet(Covered(blocks)) /\ Covered(blocks) \subseteq Int
      /\ CoveredTexts(blocks) = Kept([j \in DOMAIN blocks |-> blocks[j].body], Covered(blocks))
  BY CoveredPlaces
<1> QED BY <1>1, KeptFacts, RankFacts

\* A text is set: it was another one, and so the trailing token goes.
LEMMA SetTextEdits ==
  ASSUME NEW old, Legal(old), NEW j \in DOMAIN old, old[j].kind = "text", NEW x \in Text
  PROVE  EditedQuietly(old, SetText(old, j, x))
<1>1. CASE old[j].body = x
  BY <1>1, LeaveAll DEF SetText
<1>2. CASE old[j].body # x
  <2> DEFINE b == WithText(old[j], x)
             w == [old EXCEPT ![j] = b]
             new == Unsealed(w)
             g == [k \in DOMAIN new |-> k]
  <2>1. /\ old \in Seq(Block) /\ Len(old) \in Nat /\ DOMAIN old = 1 .. Len(old)
        /\ \A k \in DOMAIN old : old[k] \in Block
    BY LenProperties, ElementOfSeq DEF Legal
  <2>2. b \in Block /\ Turned(old[j], b) /\ b.is_error = old[j].is_error /\ b.body = x
    BY <2>1, WithTextTurns
  <2> HIDE DEF b
  <2>3. /\ w \in Seq(Block) /\ Len(w) = Len(old) /\ DOMAIN w = DOMAIN old
        /\ w[j] = b /\ \A k \in DOMAIN old : k # j => w[k] = old[k]
    BY <2>1, <2>2, ExceptSeq
  <2> HIDE DEF w
  <2>4. \A k \in DOMAIN old : w[k].kind = old[k].kind
    BY <2>2, <2>3 DEF Turned
  <2>5. Legal(w)
    BY <2>3, <2>4 DEF Legal
  <2> HIDE DEF new
  <2>6. /\ new \in Seq(Block) /\ ~HasTrailing(new)
        /\ DOMAIN new = {k \in DOMAIN w : w[k].kind # "trailing"}
        /\ \A k \in DOMAIN new : new[k] = w[k]
        /\ Covered(new) = Covered(w) /\ CoveredTexts(new) = CoveredTexts(w) /\ Legal(new)
    <3>1. /\ new \in Seq(Block) /\ ~HasTrailing(new)
          /\ DOMAIN new = Contents(w)
          /\ \A k \in DOMAIN new : new[k] = w[k]
      BY <2>5, UnsealedFacts DEF new
    <3>2. Covered(new) = Covered(w) /\ CoveredTexts(new) = CoveredTexts(w) /\ Legal(new)
      BY <2>5, UnsealedCovered DEF new
    <3> QED BY <3>1, <3>2 DEF Contents
  <2>7. Covered(w) = Covered(old) /\ j \in Covered(old)
    BY <2>3, <2>4 DEF Covered
  <2>8. CoveredTexts(w) # CoveredTexts(old)
    BY <1>2, <2>1, <2>2, <2>3, <2>7, CoveredDiffers
  <2>9. \A k \in DOMAIN old : old[k].kind # "trailing" => k \in DOMAIN new /\ new[k].kind = old[k].kind
    BY <2>3, <2>4, <2>6
  <2>10. Keeps(old, new)
    BY <2>6, <2>7, <2>8, <2>9 DEF Keeps
  <2>11. \A k \in DOMAIN new : k \in DOMAIN old /\ Turned(old[k], new[k]) /\ new[k].is_error = old[k].is_error
    BY <2>2, <2>3, <2>6 DEF Turned
  <2>12. Edits(g, old, new) /\ Quiet(g, old, new)
    <3>1. g \in [DOMAIN new -> Nat]
      BY <2>1, <2>11
    <3> QED BY <2>11, <3>1 DEF Edits, Quiet
  <2>13. SetText(old, j, x) = new
    BY <1>2 DEF SetText, new, w, b
  <2> QED BY <2>10, <2>12, <2>13 DEF EditedQuietly
<1> QED BY <1>1, <1>2

\* A text is put at the end of a message that had none.
LEMMA AppendTextEdits ==
  ASSUME NEW old, Legal(old), NEW x \in Text
  PROVE  EditedQuietly(old, Append(Unsealed(old), Added("text", x)))
<1> DEFINE u == Unsealed(old)
           n == Len(u)
           b == Added("text", x)
           new == Append(u, b)
           g == [k \in DOMAIN new |-> IF k <= n THEN k ELSE 0]
<1>1. /\ old \in Seq(Block) /\ u \in Seq(Block) /\ ~HasTrailing(u)
      /\ DOMAIN u = {j \in DOMAIN old : old[j].kind # "trailing"}
      /\ \A k \in DOMAIN u : u[k] = old[k]
      /\ Covered(u) = Covered(old) /\ CoveredTexts(u) = CoveredTexts(old)
  BY UnsealedFacts, UnsealedCovered DEF Legal, Contents
<1>2. n \in Nat /\ DOMAIN u = 1 .. n
  BY <1>1, LenProperties
<1>3. b \in Block /\ New(b) /\ b.kind = "text"
  BY DEF Added, Block, Fields, New
<1> HIDE DEF u, b
<1>4. /\ new \in Seq(Block) /\ Len(new) = n + 1 /\ DOMAIN new = 1 .. n + 1
      /\ new[n + 1] = b /\ \A k \in 1 .. n : new[k] = u[k]
  <2>1. /\ new \in Seq(Block) /\ Len(new) = n + 1
        /\ new[n + 1] = b /\ \A k \in 1 .. n : new[k] = u[k]
    BY <1>1, <1>3, AppendProperties
  <2>2. DOMAIN new = 1 .. Len(new)
    BY <2>1, LenProperties
  <2> HIDE DEF new
  <2> QED BY <2>1, <2>2
<1> HIDE DEF new
<1>5. \A k \in DOMAIN new : k # n + 1 => k \in 1 .. n
  BY <1>2, <1>4
<1>6. Covered(new) = Covered(old) \cup {n + 1} /\ n + 1 \notin Covered(old)
  <2>1. Covered(new) = Covered(u) \cup {n + 1}
    <3>1. n + 1 \in Covered(new)
      BY <1>2, <1>3, <1>4 DEF Covered
    <3>2. \A k \in 1 .. n : k \in DOMAIN new /\ (k \in Covered(new) <=> k \in Covered(u))
      BY <1>2, <1>4 DEF Covered
    <3>3. \A k \in Covered(new) : k = n + 1 \/ k \in 1 .. n
      BY <1>5 DEF Covered
    <3>4. \A k \in Covered(u) : k \in 1 .. n
      BY <1>2 DEF Covered
    <3> QED BY <3>1, <3>2, <3>3, <3>4
  <2>2. n + 1 \notin Covered(u)
    BY <1>2 DEF Covered
  <2> QED BY <1>1, <2>1, <2>2
<1>7. ~HasTrailing(new)
  BY <1>1, <1>2, <1>3, <1>4, <1>5 DEF HasTrailing
<1>8. CoveredTexts(new) # CoveredTexts(old)
  <2>1. Cardinality(Covered(new)) = Cardinality(Covered(old)) + 1
    <3>1. IsFiniteSet(Covered(old))
      BY <1>1, CoveredPlaces
    <3> QED BY <1>6, <3>1, FS_AddElement
  <2>2. /\ Cardinality(Covered(old)) \in Nat
        /\ DOMAIN CoveredTexts(old) = 1 .. Cardinality(Covered(old))
        /\ DOMAIN CoveredTexts(new) = 1 .. Cardinality(Covered(new))
    BY <1>1, <1>4, CoveredCount
  <2>3. Cardinality(Covered(new)) \in DOMAIN CoveredTexts(new)
    BY <2>1, <2>2
  <2>4. Cardinality(Covered(new)) \notin DOMAIN CoveredTexts(old)
    BY <2>1, <2>2
  <2> QED BY <2>3, <2>4
<1>9. Keeps(old, new)
  <2>1. Legal(new)
    BY <1>4, <1>7 DEF Legal, HasTrailing
  <2>2. Covered(new) # {} /\ \E k \in DOMAIN new : new[k].kind \notin {"cache", "trailing"}
    BY <1>2, <1>3, <1>4, <1>6
  <2> QED BY <1>7, <1>8, <2>1, <2>2 DEF Keeps
<1>10. Edits(g, old, new) /\ Quiet(g, old, new)
  <2>1. g \in [DOMAIN new -> Nat]
    BY <1>2, <1>4
  <2>2. g[n + 1] = 0 /\ New(new[n + 1])
    BY <1>2, <1>3, <1>4
  <2>3. \A k \in 1 .. n : g[k] = k /\ k \in DOMAIN old /\ new[k] = old[k]
    BY <1>1, <1>2, <1>4
  <2>4. \A k \in 1 .. n : Turned(old[g[k]], new[k])
    BY <2>3 DEF Turned
  <2>5. \A k, l \in DOMAIN new : k < l /\ g[k] # 0 /\ g[l] # 0 => g[k] < g[l]
    BY <1>2, <1>4
  <2> HIDE DEF g
  <2> QED BY <1>5, <2>1, <2>2, <2>3, <2>4, <2>5 DEF Edits, Quiet
<1> QED BY <1>9, <1>10 DEF EditedQuietly, new, u, b


\* All texts but the first are taken out and that one is set.  The covered texts
\* are the same afterwards only if nothing was taken out and nothing was set.
LEMMA CollapseEdits ==
  ASSUME NEW old, Legal(old), NEW x \in Text
  PROVE  EditedQuietly(old, CollapseText(old, x))
<1> DEFINE n == Len(old)
           texts == {j \in DOMAIN old : old[j].kind = "text"}
           first == Min(texts)
           b == WithText(old[first], x)
           e == [old EXCEPT ![first] = b]
           P == (DOMAIN old \ texts) \cup {first}
           kept == Kept(e, P)
           new == Unsealed(kept)
           m == Cardinality(P)
           g == [k \in DOMAIN new |-> Nth(P, k)]
<1>1. /\ old \in Seq(Block) /\ n \in Nat /\ DOMAIN old = 1 .. n
      /\ \A j \in DOMAIN old : old[j].kind = "trailing" => j = n
      /\ \A j \in DOMAIN old : old[j] \in Block
  BY LenProperties, ElementOfSeq DEF Legal
<1>2. CollapseText(old, x) = IF texts = {} THEN Append(Unsealed(old), Added("text", x))
                             ELSE IF kept = old THEN old ELSE new
  BY DEF CollapseText
<1>3. CASE texts = {}
  BY <1>2, <1>3, AppendTextEdits
<1>4. CASE texts # {} /\ kept = old
  BY <1>2, <1>4, LeaveAll
<1>5. CASE texts # {} /\ kept # old
  <2>1. first \in DOMAIN old /\ old[first].kind = "text"
    <3>1. texts \in SUBSET (1 .. n)
      BY <1>1
    <3>2. IsFiniteSet(texts) /\ texts \subseteq Int
      <4> HIDE DEF texts, n
      <4> QED BY <1>1, <3>1, Places
    <3>3. first \in texts
      <4> HIDE DEF texts
      <4> QED BY <1>5, <3>2, Least
    <3> HIDE DEF first
    <3> QED BY <3>3
  <2> HIDE DEF first
  <2>2. b \in Block /\ Turned(old[first], b) /\ b.is_error = old[first].is_error
        /\ b.body = x /\ (old[first].body = x => b = old[first])
    BY <1>1, <2>1, WithTextTurns
  <2> HIDE DEF b
  <2>3. /\ e \in Seq(Block) /\ Len(e) = n /\ DOMAIN e = DOMAIN old
        /\ e[first] = b /\ \A k \in DOMAIN old : k # first => e[k] = old[k]
    BY <1>1, <2>1, <2>2, ExceptSeq
  <2> HIDE DEF e
  <2>4. \A k \in DOMAIN old : /\ e[k] \in Block /\ Turned(old[k], e[k])
                              /\ e[k].kind = old[k].kind /\ e[k].is_error = old[k].is_error
    BY <1>1, <2>2, <2>3 DEF Turned
  <2>5. P \in SUBSET (1 .. n) /\ first \in P
    BY <1>1, <2>1
  <2>6. \A j \in DOMAIN old : old[j].kind # "text" => j \in P
    OBVIOUS
  <2>7. \A j \in P : old[j].kind = "text" => j = first
    OBVIOUS
  <2> HIDE DEF P, texts, n
  <2>8. IsFiniteSet(P) /\ P \subseteq Int /\ m \in Nat
    BY <1>1, <2>5, Places, RankFacts
  <2>9. /\ kept \in Seq(Block) /\ Len(kept) = m /\ DOMAIN kept = 1 .. m
        /\ \A k \in 1 .. m : Nth(P, k) \in DOMAIN old /\ kept[k] = e[Nth(P, k)]
        /\ \A k, l \in 1 .. m : k < l => Nth(P, k) < Nth(P, l)
        /\ \A j \in P : \E k \in 1 .. m : Nth(P, k) = j
    <3>1. \A j \in P : e[j] \in Block
      BY <1>1, <2>4, <2>5
    <3>2. kept \in Seq(Block) /\ Len(kept) = m
      BY <2>8, <3>1, KeptType
    <3>3. DOMAIN kept = 1 .. m /\ \A k \in 1 .. m : kept[k] = e[Nth(P, k)]
      BY ZenonT(40), <2>8, KeptFacts
    <3>4. /\ \A k \in 1 .. m : Nth(P, k) \in P
          /\ \A k, l \in 1 .. m : k < l => Nth(P, k) < Nth(P, l)
      BY <2>8, NthFacts
    <3>5. \A j \in P : \E k \in 1 .. m : Nth(P, k) = j
      <4>1. \A j \in P : Rank(P, j) \in 1 .. m /\ Nth(P, Rank(P, j)) = j
        BY <2>8, RankFacts, NthFacts
      <4> QED BY <4>1
    <3> QED BY <1>1, <2>5, <3>2, <3>3, <3>4, <3>5
  <2> HIDE DEF kept, m
  <2>10. \A k \in 1 .. m : /\ Turned(old[Nth(P, k)], kept[k])
                           /\ kept[k].kind = old[Nth(P, k)].kind
                           /\ kept[k].is_error = old[Nth(P, k)].is_error
    BY <2>4, <2>9
  <2>11. Legal(kept)
    <3> SUFFICES ASSUME NEW k \in 1 .. m, kept[k].kind = "trailing" PROVE k = m
      BY <2>9 DEF Legal
    <3>1. Nth(P, k) = n /\ k \in Nat /\ k <= m
      BY <1>1, <2>8, <2>9, <2>10
    <3>2. CASE k < m
      <4>1. m \in 1 .. m
        BY <2>8, <3>1, <3>2
      <4>2. Nth(P, m) \in 1 .. n /\ n < Nth(P, m)
        BY <1>1, <2>9, <3>1, <3>2, <4>1
      <4> QED BY <1>1, <4>2
    <3> QED BY <2>8, <3>1, <3>2
  <2>12. /\ new \in Seq(Block) /\ ~HasTrailing(new)
         /\ DOMAIN new = {k \in 1 .. m : kept[k].kind # "trailing"}
         /\ \A k \in DOMAIN new : new[k] = kept[k]
    <3>1. /\ new \in Seq(Block) /\ ~HasTrailing(new)
          /\ DOMAIN new = Contents(kept)
          /\ \A k \in DOMAIN new : new[k] = kept[k]
      BY <2>11, UnsealedFacts
    <3> QED BY <2>9, <3>1 DEF Contents
  <2>13. Covered(new) = Covered(kept) /\ CoveredTexts(new) = CoveredTexts(kept) /\ Legal(new)
    BY <2>11, UnsealedCovered
  <2> HIDE DEF new
  <2>14. \E k \in DOMAIN new : new[k].kind = "text"
    <3>1. PICK k \in 1 .. m : Nth(P, k) = first
      BY <2>5, <2>9
    <3>2. kept[k].kind = "text"
      BY <2>1, <2>10, <3>1
    <3> QED BY <2>12, <3>1, <3>2
  <2>15. CoveredTexts(kept) # CoveredTexts(old)
    <3> SUFFICES ASSUME CoveredTexts(kept) = CoveredTexts(old) PROVE FALSE
      OBVIOUS
    <3> DEFINE C == Covered(old)
               f == [k \in Covered(kept) |-> Nth(P, k)]
    <3>1. C \in SUBSET (1 .. n) /\ IsFiniteSet(C)
      BY <1>1, CoveredPlaces DEF n
    <3>2. OrderMap(f, Covered(kept), P \cap C)
      <4>1. \A k \in Covered(kept) : k \in 1 .. m /\ Nth(P, k) \in P \cap C
        <5>1. \A k \in Covered(kept) : k \in 1 .. m /\ kept[k].kind \in {"text", "thinking"}
          BY <2>9 DEF Covered
        <5>2. \A k \in 1 .. m : Nth(P, k) \in P
          BY <2>8, NthFacts DEF m
        <5> QED BY <2>9, <2>10, <5>1, <5>2 DEF Covered
      <4>2. \A j \in P \cap C : \E k \in Covered(kept) : Nth(P, k) = j
        <5> SUFFICES ASSUME NEW j \in P \cap C PROVE \E k \in Covered(kept) : Nth(P, k) = j
          OBVIOUS
        <5>1. PICK k \in 1 .. m : Nth(P, k) = j
          BY <2>9
        <5>2. k \in Covered(kept)
          BY <2>9, <2>10, <5>1 DEF Covered
        <5> QED BY <5>1, <5>2
      <4>3. \A k, l \in Covered(kept) : k < l => Nth(P, k) < Nth(P, l)
        BY <2>9, <4>1
      <4> HIDE DEF C
      <4> QED BY <4>1, <4>2, <4>3 DEF OrderMap
    <3>3. IsFiniteSet(Covered(kept)) /\ Covered(kept) \subseteq Int
      BY <2>9, CoveredPlaces
    <3> HIDE DEF f
    <3>4. Cardinality(P \cap C) = Cardinality(Covered(kept))
      <4>1. P \cap C \subseteq Int
        BY <2>8
      <4> HIDE DEF C
      <4> QED BY <3>2, <3>3, <4>1, SameOrder
    <3>5. Cardinality(Covered(kept)) = Cardinality(C)
      <4>1. /\ Cardinality(Covered(kept)) \in Nat /\ Cardinality(C) \in Nat
            /\ 1 .. Cardinality(Covered(kept)) = 1 .. Cardinality(C)
        BY <1>1, <2>9, CoveredCount
      <4> QED BY <4>1
    <3>6. P \cap C = C
      <4>1. P \cap C \in SUBSET C
        OBVIOUS
      <4> HIDE DEF C
      <4> QED BY <3>1, <3>4, <3>5, <4>1, FS_Subset
    <3>7. P = 1 .. n
      <4>1. \A j \in DOMAIN old : old[j].kind = "text" => j \in P
        BY <3>6 DEF Covered
      <4> QED BY <1>1, <2>5, <2>6, <4>1
    <3>8. m = n /\ \A k \in 1 .. n : Nth(P, k) = k
      <4>1. Cardinality(1 .. n) = n
        BY <1>1, FS_Interval
      <4> QED BY <1>1, <3>7, <4>1, NthOfAll DEF m
    <3>9. \A k \in 1 .. n : kept[k] = e[k]
      BY <2>9, <3>8
    <3>10. kept = e
      BY <2>3, <2>9, <3>8, <3>9, SeqEqual
    <3>11. CASE old[first].body = x
      <4>1. \A k \in 1 .. n : kept[k] = old[k]
        BY <1>1, <2>2, <2>3, <3>9, <3>11
      <4>2. kept = old
        BY <1>1, <2>9, <3>8, <4>1, SeqEqual DEF n
      <4> QED BY <1>5, <4>2 DEF kept
    <3>12. CASE old[first].body # x
      <4>1. Covered(e) = Covered(old) /\ first \in Covered(old)
        BY <2>1, <2>3, <2>4 DEF Covered
      <4>2. CoveredTexts(e) # CoveredTexts(old)
        BY <1>1, <2>2, <2>3, <3>12, <4>1, CoveredDiffers
      <4> QED BY <3>10, <4>2
    <3> QED BY <3>11, <3>12
  <2>16. Keeps(old, new)
    BY <2>12, <2>13, <2>14, <2>15 DEF Keeps, Covered
  <2>17. Edits(g, old, new) /\ Quiet(g, old, new)
    <3>1. \A k \in DOMAIN new : /\ k \in 1 .. m /\ g[k] \in DOMAIN old
                                /\ Turned(old[g[k]], new[k]) /\ new[k].is_error = old[g[k]].is_error
      BY <2>9, <2>10, <2>12
    <3>2. g \in [DOMAIN new -> Nat]
      BY <1>1, <3>1
    <3>3. \A k, l \in DOMAIN new : k < l => g[k] < g[l]
      BY <2>9, <3>1
    <3> HIDE DEF g
    <3> QED BY <3>1, <3>2, <3>3 DEF Edits, Quiet
  <2>18. CollapseText(old, x) = new
    BY <1>2, <1>5
  <2> QED BY <2>16, <2>17, <2>18 DEF EditedQuietly
<1> QED BY <1>3, <1>4, <1>5


-----------------------------------------------------------------------------
\* The last marker of a request.

\* A bounded set of naturals has a greatest member.
LEMMA GreatestBelow ==
  ASSUME NEW n \in Nat, NEW S \in SUBSET (0 .. n), S # {}
  PROVE  \E m \in S : \A j \in S : j <= m
<1>1. IsFiniteSet(0 .. n) /\ 0 .. n \subseteq Int
  BY FS_Interval
<1>2. IsFiniteSet(S) /\ S \subseteq Int
  BY <1>1, FS_Subset
<1> QED BY <1>2, Greatest

\* c is where a marker is carried: a tool, a breakpoint block or an arm.
Carrier(req, c) ==
  \/ c.msg = 0 /\ c.block \in DOMAIN req.tools /\ c.arm = 0
  \/ /\ c.msg \in DOMAIN req.messages
     /\ c.block \in DOMAIN req.messages[c.msg].blocks
     /\ LET b == req.messages[c.msg].blocks[c.block]
        IN \/ b.kind = "cache" /\ c.arm = 0
           \/ /\ b.kind = "tool_result" /\ c.arm \in DOMAIN b.body
              /\ b.body[c.arm].arm = "cache"

\* The positions of markers are carriers.
LEMMA PositionsAreCarriers ==
  ASSUME NEW req \in RequestType, NEW c \in MarkerPositions(req)
  PROVE  Carrier(req, c) /\ c = [msg |-> c.msg, block |-> c.block, arm |-> c.arm]
<1>1. CASE c \in ToolMarkers(req.tools)
  <2>1. PICK i \in DOMAIN req.tools : c = [msg |-> 0, block |-> i, arm |-> 0]
    BY <1>1 DEF ToolMarkers
  <2>2. c.msg = 0 /\ c.block = i /\ c.arm = 0
    BY <2>1
  <2>3. Carrier(req, c)
    BY <2>2, ZenonT(30) DEF Carrier
  <2> QED BY <2>1, <2>2, <2>3
<1>2. CASE c \notin ToolMarkers(req.tools)
  <2>1. PICK i \in DOMAIN req.messages : \E j \in DOMAIN req.messages[i].blocks :
             c \in BlockMarkers(i, j, req.messages[i].blocks[j])
    BY <1>2 DEF MarkerPositions
  <2>2. PICK j \in DOMAIN req.messages[i].blocks : c \in BlockMarkers(i, j, req.messages[i].blocks[j])
    BY <2>1
  <2> DEFINE b == req.messages[i].blocks[j]
  <2>3. PICK k : /\ c = [msg |-> i, block |-> j, arm |-> k]
                 /\ \/ b.kind = "cache" /\ k = 0
                    \/ b.kind = "tool_result" /\ k \in DOMAIN b.body /\ b.body[k].arm = "cache"
    BY <2>2 DEF BlockMarkers
  <2>4. c.msg = i /\ c.block = j /\ c.arm = k
    BY <2>3
  <2> QED BY <2>3, <2>4 DEF Carrier
<1> QED BY <1>1, <1>2

\* Where their numbers lie.
LEMMA CarrierBounds ==
  ASSUME NEW req \in RequestType
  PROVE  /\ Len(req.messages) \in Nat /\ Len(req.tools) \in Nat
         /\ DOMAIN req.messages = 1 .. Len(req.messages)
         /\ DOMAIN req.tools = 1 .. Len(req.tools)
         /\ \A i \in DOMAIN req.messages :
              /\ req.messages[i].blocks \in Seq(Block)
              /\ Len(req.messages[i].blocks) \in Nat
              /\ DOMAIN req.messages[i].blocks = 1 .. Len(req.messages[i].blocks)
              /\ \A j \in DOMAIN req.messages[i].blocks :
                   LET b == req.messages[i].blocks[j]
                   IN /\ b \in Block
                      /\ b.kind = "tool_result" =>
                           Len(b.body) \in Nat /\ DOMAIN b.body = 1 .. Len(b.body)
<1>1. req.messages \in Seq(Message) /\ req.tools \in Seq(Marker \cup {None})
  BY DEF RequestType
<1>2. /\ Len(req.messages) \in Nat /\ Len(req.tools) \in Nat
      /\ DOMAIN req.messages = 1 .. Len(req.messages)
      /\ DOMAIN req.tools = 1 .. Len(req.tools)
  BY <1>1, LenProperties
<1>3. ASSUME NEW i \in DOMAIN req.messages
      PROVE  /\ req.messages[i].blocks \in Seq(Block)
             /\ Len(req.messages[i].blocks) \in Nat
             /\ DOMAIN req.messages[i].blocks = 1 .. Len(req.messages[i].blocks)
  <2>1. req.messages[i] \in Message
    BY <1>1, <1>2, ElementOfSeq
  <2>2. req.messages[i].blocks \in Seq(Block)
    BY <2>1 DEF Message
  <2> QED BY <2>2, LenProperties
<1>4. ASSUME NEW i \in DOMAIN req.messages, NEW j \in DOMAIN req.messages[i].blocks
      PROVE  LET b == req.messages[i].blocks[j]
             IN /\ b \in Block
                /\ b.kind = "tool_result" =>
                     Len(b.body) \in Nat /\ DOMAIN b.body = 1 .. Len(b.body)
  <2> DEFINE b == req.messages[i].blocks[j]
  <2>1. b \in Block
    BY <1>3, ElementOfSeq
  <2> HIDE DEF b
  <2>2. b.kind = "tool_result" => b.body \in Seq(Arm)
    BY <2>1, BlockFields
  <2>3. b.kind = "tool_result" => Len(b.body) \in Nat /\ DOMAIN b.body = 1 .. Len(b.body)
    BY <2>2, LenProperties
  <2> QED BY <2>1, <2>3 DEF b
<1> QED BY <1>2, <1>3, <1>4

\* A carrier is one of the tools or in a message, never both.
LEMMA CarrierCases ==
  ASSUME NEW req \in RequestType, NEW c, Carrier(req, c)
  PROVE  \/ c.msg = 0 /\ ~(c.msg > 0) /\ c.block \in DOMAIN req.tools
         \/ /\ c.msg # 0 /\ c.msg > 0 /\ c.msg \in DOMAIN req.messages
            /\ c.block \in DOMAIN req.messages[c.msg].blocks
            /\ \/ req.messages[c.msg].blocks[c.block].kind = "cache" /\ c.arm = 0
               \/ /\ req.messages[c.msg].blocks[c.block].kind = "tool_result"
                  /\ c.arm \in DOMAIN req.messages[c.msg].blocks[c.block].body
                  /\ req.messages[c.msg].blocks[c.block].body[c.arm].arm = "cache"
<1>1. DOMAIN req.messages = 1 .. Len(req.messages) /\ Len(req.messages) \in Nat
  BY CarrierBounds
<1>2. c.msg \in DOMAIN req.messages => c.msg # 0 /\ c.msg > 0
  BY <1>1
<1>3. CASE c.msg \in DOMAIN req.messages
  <2>1. c.msg # 0
    BY <1>2, <1>3
  <2> QED BY <1>2, <1>3, <2>1, ZenonT(30) DEF Carrier
<1>4. CASE c.msg \notin DOMAIN req.messages
  <2>1. c.msg = 0 /\ c.block \in DOMAIN req.tools
    BY <1>4, ZenonT(30) DEF Carrier
  <2> QED BY <2>1
<1> QED BY <1>3, <1>4

\* There is a last one: the greatest message, then block, then arm.
LEMMA LastIsThere ==
  ASSUME NEW req \in RequestType, HasMarker(req)
  PROVE  /\ LastCacheMarker(req) \in MarkerPositions(req)
         /\ \A d \in MarkerPositions(req) \ {LastCacheMarker(req)} : Precedes(d, LastCacheMarker(req))
<1> DEFINE M == MarkerPositions(req)
<1>1. M # {}
  BY DEF HasMarker
<1>2. \A c \in M : Carrier(req, c) /\ c = [msg |-> c.msg, block |-> c.block, arm |-> c.arm]
  BY PositionsAreCarriers
<1> HIDE DEF M
<1>3. PICK i \in {c.msg : c \in M} : \A d \in M : d.msg <= i
  <2> DEFINE S == {c.msg : c \in M}
  <2>1. Len(req.messages) \in Nat /\ S \in SUBSET (0 .. Len(req.messages)) /\ S # {}
    <3>1. Len(req.messages) \in Nat /\ DOMAIN req.messages = 1 .. Len(req.messages)
      BY CarrierBounds
    <3>2. \A c \in M : c.msg = 0 \/ c.msg \in DOMAIN req.messages
      BY <1>2, ZenonT(30) DEF Carrier
    <3>3. \A c \in M : c.msg \in 0 .. Len(req.messages)
      BY <3>1, <3>2
    <3> QED BY <1>1, <3>1, <3>3
  <2>2. \E m \in S : \A j \in S : j <= m
    <3> HIDE DEF S
    <3> QED BY <2>1, GreatestBelow
  <2> QED BY <2>2
<1> DEFINE Mi == {c \in M : c.msg = i}
<1>4. PICK j \in {c.block : c \in Mi} : \A d \in Mi : d.block <= j
  <2> DEFINE S == {c.block : c \in Mi}
             n == IF i = 0 THEN Len(req.tools) ELSE Len(req.messages[i].blocks)
  <2>1. n \in Nat /\ S \in SUBSET (0 .. n) /\ S # {}
    <3>1. Mi # {}
      BY <1>3
    <3>2. \A c \in Mi : n \in Nat /\ c.block \in 0 .. n
      <4> SUFFICES ASSUME NEW c \in Mi PROVE n \in Nat /\ c.block \in 0 .. n
        OBVIOUS
      <4>1. Carrier(req, c) /\ c.msg = i
        BY <1>2
      <4>2. CASE i = 0
        <5>1. 0 \notin DOMAIN req.messages
          BY CarrierBounds
        <5>2. c.block \in DOMAIN req.tools
          BY <4>1, <4>2, <5>1 DEF Carrier
        <5> QED BY <4>2, <5>2, CarrierBounds
      <4>3. CASE i # 0
        <5>1. i \in DOMAIN req.messages /\ c.block \in DOMAIN req.messages[i].blocks
          BY <4>1, <4>3 DEF Carrier
        <5> QED BY <4>3, <5>1, CarrierBounds
      <4> QED BY <4>2, <4>3
    <3> HIDE DEF n, Mi
    <3> QED BY <3>1, <3>2
  <2>2. \E m \in S : \A k \in S : k <= m
    <3> HIDE DEF S, n
    <3> QED BY <2>1, GreatestBelow
  <2> QED BY <2>2
<1> DEFINE Mj == {c \in Mi : c.block = j}
<1>5. PICK k \in {c.arm : c \in Mj} : \A d \in Mj : d.arm <= k
  <2> DEFINE S == {c.arm : c \in Mj}
             b == req.messages[i].blocks[j]
             n == IF i # 0 /\ b.kind = "tool_result" THEN Len(b.body) ELSE 0
  <2>1. n \in Nat /\ S \in SUBSET (0 .. n) /\ S # {}
    <3>1. Mj # {}
      BY <1>4
    <3>2. \A c \in Mj : n \in Nat /\ c.arm \in 0 .. n
      <4> SUFFICES ASSUME NEW c \in Mj PROVE n \in Nat /\ c.arm \in 0 .. n
        OBVIOUS
      <4>1. Carrier(req, c) /\ c.msg = i /\ c.block = j
        BY <1>2
      <4>2. CASE i = 0
        <5>0. 0 \notin DOMAIN req.messages
          BY CarrierBounds
        <5>1. c.arm = 0
          BY <4>1, <4>2, <5>0 DEF Carrier
        <5> QED BY <4>2, <5>1
      <4>3. CASE i # 0
        <5>1. /\ i \in DOMAIN req.messages /\ j \in DOMAIN req.messages[i].blocks
              /\ \/ b.kind = "cache" /\ c.arm = 0
                 \/ b.kind = "tool_result" /\ c.arm \in DOMAIN b.body
          BY <4>1, <4>3 DEF Carrier
        <5>2. b.kind = "tool_result" => Len(b.body) \in Nat /\ DOMAIN b.body = 1 .. Len(b.body)
          BY <5>1, CarrierBounds
        <5> HIDE DEF b
        <5>3. CASE b.kind = "cache" /\ c.arm = 0
          BY <4>3, <5>3
        <5>4. CASE b.kind = "tool_result" /\ c.arm \in DOMAIN b.body
          BY <4>3, <5>2, <5>4
        <5> QED BY <5>1, <5>3, <5>4
      <4> QED BY <4>2, <4>3
    <3> HIDE DEF n, Mj
    <3> QED BY <3>1, <3>2
  <2>2. \E m \in S : \A l \in S : l <= m
    <3> HIDE DEF S, n
    <3> QED BY <2>1, GreatestBelow
  <2> QED BY <2>2
<1>6. PICK c \in M : c.msg = i /\ c.block = j /\ c.arm = k
  BY <1>5
<1>7. ASSUME NEW d \in M \ {c} PROVE Precedes(d, c)
  <2>1. d.msg <= i /\ (d.msg = i => d.block <= j) /\ (d.msg = i /\ d.block = j => d.arm <= k)
    BY <1>3, <1>4, <1>5
  <2>2. ~ (d.msg = i /\ d.block = j /\ d.arm = k)
    BY <1>2, <1>6, <1>7
  <2>3. /\ d.msg \in Int /\ d.block \in Int /\ d.arm \in Int
        /\ c.msg \in Int /\ c.block \in Int /\ c.arm \in Int
    <3>1. ASSUME NEW a \in M PROVE a.msg \in Int /\ a.block \in Int /\ a.arm \in Int
      <4>1. Carrier(req, a)
        BY <1>2
      <4>2. CASE a.msg = 0 /\ a.block \in DOMAIN req.tools /\ a.arm = 0
        BY <4>2, CarrierBounds
      <4>3. CASE ~ (a.msg = 0 /\ a.block \in DOMAIN req.tools /\ a.arm = 0)
        <5> DEFINE b == req.messages[a.msg].blocks[a.block]
        <5>1. /\ a.msg \in DOMAIN req.messages /\ a.block \in DOMAIN req.messages[a.msg].blocks
              /\ \/ a.arm = 0
                 \/ b.kind = "tool_result" /\ a.arm \in DOMAIN b.body
          BY <4>1, <4>3 DEF Carrier
        <5>2. b.kind = "tool_result" => Len(b.body) \in Nat /\ DOMAIN b.body = 1 .. Len(b.body)
          BY <5>1, CarrierBounds
        <5>3. a.arm \in Int
          <6> HIDE DEF b
          <6> QED BY <5>1, <5>2
        <5>4. a.msg \in Int
          <6>1. Len(req.messages) \in Nat /\ DOMAIN req.messages = 1 .. Len(req.messages)
            BY CarrierBounds
          <6> QED BY <5>1, <6>1
        <5>5. a.block \in Int
          <6> DEFINE n == Len(req.messages[a.msg].blocks)
          <6>1. n \in Nat /\ DOMAIN req.messages[a.msg].blocks = 1 .. n
            BY <5>1, CarrierBounds
          <6>2. a.block \in 1 .. n
            BY <5>1, <6>1
          <6> HIDE DEF n
          <6> QED BY <6>1, <6>2
        <5> QED BY <5>3, <5>4, <5>5
      <4> QED BY <4>2, <4>3
    <3> QED BY <3>1
  <2> QED BY <1>6, <2>1, <2>2, <2>3 DEF Precedes
<1>8. \E a \in M : \A d \in M \ {a} : Precedes(d, a)
  BY <1>7
<1> QED BY <1>8 DEF LastCacheMarker, M


-----------------------------------------------------------------------------
\* The invariant, message by message: acc is the accepted message, cur what the
\* hook has made of it, T what was touched.

\* A block of the host's: its token is the accepted one over the accepted
\* content, or it is gone; and it does not go without a cause.
Descends(acc, b, i, T) ==
  LET a == acc[b.origin]
  IN /\ b.origin \in DOMAIN acc
     /\ b.kind = a.kind
     /\ b.is_error \in {a.is_error, "true"}
     /\ (b.sig = a.sig /\ b.body = a.body) \/ (b.sig = None /\ b.kind # "trailing")
     /\ b.sig = a.sig \/ <<i, b.origin>> \in T \/ b.is_error # a.is_error

MessageInv(acc, cur, i, T) ==
  /\ Legal(acc) /\ Legal(cur)
  /\ \A j \in DOMAIN acc : acc[j].origin = j
  /\ \A k \in DOMAIN cur : New(cur[k]) \/ Descends(acc, cur[k], i, T)
  /\ \A k, l \in DOMAIN cur :
       k < l /\ cur[k].origin # 0 /\ cur[l].origin # 0 => cur[k].origin < cur[l].origin
  /\ HasTrailing(acc) => IF HasTrailing(cur) THEN CoveredTexts(cur) = CoveredTexts(acc)
                         ELSE <<i, Len(acc)>> \in T
  /\ Covered(acc) # {} => Covered(cur) # {}
  /\ (\E j \in DOMAIN acc : acc[j].kind \notin {"cache", "trailing"})
       => \E k \in DOMAIN cur : cur[k].kind \notin {"cache", "trailing"}

EditsInv ==
  /\ accepted \in RequestType /\ request \in RequestType
  /\ Replaceable(accepted)
  /\ DOMAIN request.messages = DOMAIN accepted.messages
  /\ \A i \in DOMAIN request.messages :
       /\ request.messages[i].role = accepted.messages[i].role
       /\ MessageInv(accepted.messages[i].blocks, request.messages[i].blocks, i, touched)


\* The host hands over what it accepted.
LEMMA InitEditsInv == Init => EditsInv
<1> SUFFICES ASSUME Init PROVE EditsInv
  OBVIOUS
<1>1. /\ accepted \in Requests /\ Replaceable(accepted)
      /\ request = accepted
  BY DEF Init
<1>2. PICK r : r = accepted
  OBVIOUS
<1>3. /\ r \in [tools : Seq(Marker \cup {None}), messages : Seq([role : STRING, blocks : Seq(Carried)])]
      /\ \A i \in DOMAIN r.messages : \A j \in DOMAIN r.messages[i].blocks :
           r.messages[i].blocks[j].origin = j
  BY <1>1, <1>2, RequestsAssumption
<1>4. /\ r.messages \in Seq([role : STRING, blocks : Seq(Carried)])
      /\ DOMAIN r.messages = 1 .. Len(r.messages) /\ Len(r.messages) \in Nat
  BY <1>3, LenProperties
<1>5. ASSUME NEW i \in DOMAIN r.messages
      PROVE  /\ r.messages[i] \in [role : STRING, blocks : Seq(Carried)]
             /\ Legal(r.messages[i].blocks)
             /\ \A j \in DOMAIN r.messages[i].blocks : r.messages[i].blocks[j] \in Block
  <2>1. r.messages[i] \in [role : STRING, blocks : Seq(Carried)]
    BY <1>4, ElementOfSeq
  <2>2. PICK s : s = r.messages[i].blocks
    OBVIOUS
  <2>3. s \in Seq(Carried)
    BY <2>1, <2>2
  <2>4. DOMAIN s = 1 .. Len(s) /\ Len(s) \in Nat
    BY <2>3, LenProperties
  <2>5. ReplaceableMessage(r.messages[i])
    BY <1>1, <1>2 DEF Replaceable
  <2>6. \A j \in DOMAIN s : s[j] \in Block /\ (s[j].kind = "trailing" => j = Len(s))
    BY <2>2, <2>5 DEF ReplaceableMessage, ReplaceableBlock
  <2>7. s \in [1 .. Len(s) -> Block]
    <3>1. s \in [1 .. Len(s) -> Carried]
      BY <2>3, LenProperties
    <3> QED BY <2>4, <2>6, <3>1
  <2>8. s \in Seq(Block)
    BY <2>4, <2>7, SeqDef
  <2> QED BY <2>1, <2>2, <2>6, <2>8 DEF Legal
<1>6. r \in RequestType
  <2>1. ASSUME NEW i \in 1 .. Len(r.messages) PROVE r.messages[i] \in Message
    <3>1. i \in DOMAIN r.messages
      BY <1>4
    <3>2. r.messages[i].blocks \in Seq(Block) /\ r.messages[i] \in [role : STRING, blocks : Seq(Carried)]
      BY <1>5, <3>1 DEF Legal
    <3> QED BY <3>2 DEF Message
  <2>2. r.messages \in [1 .. Len(r.messages) -> Message]
    <3>1. r.messages \in [1 .. Len(r.messages) -> [role : STRING, blocks : Seq(Carried)]]
      BY <1>4, LenProperties
    <3> QED BY <2>1, <3>1
  <2>3. r.messages \in Seq(Message)
    <3>1. Len(r.messages) \in Nat
      BY <1>4
    <3> QED BY <2>2, <3>1, SeqDef
  <2> QED BY <1>3, <2>3 DEF RequestType
<1>7. ASSUME NEW i \in DOMAIN r.messages
      PROVE  MessageInv(r.messages[i].blocks, r.messages[i].blocks, i, touched)
  <2>1. PICK s : s = r.messages[i].blocks
    OBVIOUS
  <2>2. /\ Legal(s) /\ (\A j \in DOMAIN s : s[j] \in Block)
        /\ \A j \in DOMAIN s : s[j].origin = j
    BY <1>3, <1>5, <2>1
  <2>3. \A j \in DOMAIN s : Descends(s, s[j], i, touched)
    BY <2>2 DEF Descends
  <2>4. MessageInv(s, s, i, touched)
    BY <2>2, <2>3 DEF MessageInv
  <2> QED BY <2>1, <2>4
<1> QED BY <1>1, <1>2, <1>6, <1>7 DEF EditsInv

\* An edit of one message keeps its invariant.
LEMMA EditKeepsInv ==
  ASSUME NEW acc, NEW cur, NEW new, NEW i, NEW T,
         MessageInv(acc, cur, i, T), Edited(cur, new)
  PROVE  MessageInv(acc, new, i, T \cup TouchedBy(i, cur, new))
<1> DEFINE U == T \cup TouchedBy(i, cur, new)
<1>1. PICK g : Edits(g, cur, new)
  BY DEF Edited
<1>2. /\ Legal(new) /\ Legal(cur) /\ Legal(acc)
      /\ cur \in Seq(Block) /\ new \in Seq(Block) /\ acc \in Seq(Block)
      /\ \A k \in DOMAIN new : new[k] \in Block
      /\ \A k \in DOMAIN cur : cur[k] \in Block
      /\ \A j \in DOMAIN acc : acc[j].origin = j
  <2>1. Legal(new) /\ Legal(cur) /\ Legal(acc) /\ \A j \in DOMAIN acc : acc[j].origin = j
    BY DEF MessageInv, Edited, Keeps
  <2>2. cur \in Seq(Block) /\ new \in Seq(Block) /\ acc \in Seq(Block)
    BY <2>1 DEF Legal
  <2>3. (\A k \in DOMAIN new : new[k] \in Block) /\ (\A k \in DOMAIN cur : cur[k] \in Block)
    BY <2>2, LenProperties, ElementOfSeq
  <2> QED BY <2>1, <2>2, <2>3
<1>3. /\ \A k \in DOMAIN new : \/ g[k] = 0 /\ New(new[k])
                               \/ g[k] \in DOMAIN cur /\ Turned(cur[g[k]], new[k])
      /\ \A k, l \in DOMAIN new : k < l /\ g[k] # 0 /\ g[l] # 0 => g[k] < g[l]
  BY <1>1 DEF Edits
<1>4. \A k \in DOMAIN cur : New(cur[k]) \/ Descends(acc, cur[k], i, T)
  BY DEF MessageInv
<1>5. DOMAIN cur = 1 .. Len(cur) /\ Len(cur) \in Nat /\ DOMAIN acc = 1 .. Len(acc)
  BY <1>2, LenProperties
<1>6. ASSUME NEW p \in DOMAIN cur, NEW k \in DOMAIN new, cur[p].origin # 0,
             new[k].origin = cur[p].origin, new[k].body # cur[p].body
      PROVE  <<i, new[k].origin>> \in U
  BY <1>6 DEF TouchedBy
<1>7. ASSUME NEW k \in DOMAIN new PROVE New(new[k]) \/ Descends(acc, new[k], i, U)
  <2>1. CASE g[k] = 0
    BY <1>3, <1>5, <2>1
  <2>2. CASE g[k] # 0
    <3> DEFINE p == g[k]
    <3>1. p \in DOMAIN cur /\ Turned(cur[p], new[k])
      BY <1>3, <2>2
    <3> HIDE DEF p
    <3>2. CASE New(cur[p])
      BY <3>1, <3>2 DEF Turned, New
    <3>3. CASE ~New(cur[p])
      <4>1. Descends(acc, cur[p], i, T)
        BY <1>4, <3>1, <3>3
      <4>2. CASE new[k] = cur[p]
        BY <4>1, <4>2 DEF Descends
      <4>3. CASE new[k] # cur[p]
        <5> DEFINE o == new[k].origin
        <5>1. /\ new[k].kind = cur[p].kind /\ o = cur[p].origin /\ new[k].sig = None
              /\ new[k].is_error \in {cur[p].is_error, "true"} /\ cur[p].kind # "trailing"
              /\ new[k].body # cur[p].body \/ new[k].is_error # cur[p].is_error
          BY <3>1, <4>3 DEF Turned
        <5>2. /\ o \in DOMAIN acc /\ new[k].kind = acc[o].kind
              /\ cur[p].is_error \in {acc[o].is_error, "true"}
          BY <4>1, <5>1 DEF Descends
        <5>3. <<i, o>> \in U \/ new[k].is_error # acc[o].is_error
          <6>1. CASE new[k].body # cur[p].body
            <7>1. cur[p].origin # 0
              BY <1>5, <5>1, <5>2
            <7> QED BY <1>6, <3>1, <5>1, <6>1, <7>1
          <6>2. CASE new[k].is_error # cur[p].is_error
            BY <5>1, <5>2, <6>2
          <6> QED BY <5>1, <6>1, <6>2
        <5> HIDE DEF o
        <5> QED BY <5>1, <5>2, <5>3 DEF Descends, o
      <4> QED BY <4>2, <4>3
    <3> QED BY <3>2, <3>3
  <2> QED BY <2>1, <2>2
<1>8. ASSUME NEW k \in DOMAIN new, NEW l \in DOMAIN new, k < l,
             new[k].origin # 0, new[l].origin # 0
      PROVE  new[k].origin < new[l].origin
  <2>1. g[k] # 0 /\ g[l] # 0
    BY <1>3, <1>5, <1>8 DEF New
  <2>2. /\ g[k] \in DOMAIN cur /\ g[l] \in DOMAIN cur /\ g[k] < g[l]
        /\ new[k].origin = cur[g[k]].origin /\ new[l].origin = cur[g[l]].origin
    BY <1>3, <1>8, <2>1 DEF Turned
  <2>3. \A p, q \in DOMAIN cur :
          p < q /\ cur[p].origin # 0 /\ cur[q].origin # 0 => cur[p].origin < cur[q].origin
    BY DEF MessageInv
  <2> QED BY <1>8, <2>2, <2>3
<1>9. HasTrailing(new) => HasTrailing(cur)
  <2> SUFFICES ASSUME NEW k \in DOMAIN new, new[k].kind = "trailing" PROVE HasTrailing(cur)
    BY DEF HasTrailing
  <2>1. g[k] \in DOMAIN cur /\ cur[g[k]].kind = "trailing"
    BY <1>3 DEF New, Turned
  <2> QED BY <2>1 DEF HasTrailing
<1>10. ASSUME HasTrailing(acc), HasTrailing(new) PROVE CoveredTexts(new) = CoveredTexts(acc)
  BY <1>9, <1>10 DEF MessageInv, Edited, Keeps
<1>11. ASSUME HasTrailing(acc), ~HasTrailing(new) PROVE <<i, Len(acc)>> \in U
  <2>1. CASE ~HasTrailing(cur)
    BY <1>11, <2>1 DEF MessageInv
  <2>2. CASE HasTrailing(cur)
    <3>1. CoveredTexts(cur) # CoveredTexts(new)
      BY <1>11, <2>2 DEF Edited, Keeps
    <3>2. PICK p \in DOMAIN cur : cur[p].kind = "trailing"
      BY <2>2 DEF HasTrailing
    <3>3. Descends(acc, cur[p], i, T)
      BY <1>4, <3>2 DEF New
    <3>4. cur[p].origin = Len(acc)
      BY <1>2, <3>2, <3>3 DEF Descends, Legal
    <3>5. <<i, cur[p].origin>> \in TouchedBy(i, cur, new)
      BY <3>1, <3>2 DEF TouchedBy
    <3> QED BY <3>4, <3>5
  <2> QED BY <2>1, <2>2
<1>12. /\ Covered(acc) # {} => Covered(new) # {}
       /\ (\E j \in DOMAIN acc : acc[j].kind \notin {"cache", "trailing"})
            => \E k \in DOMAIN new : new[k].kind \notin {"cache", "trailing"}
  BY DEF MessageInv, Edited, Keeps
<1> HIDE DEF U
<1>13. MessageInv(acc, new, i, U)
  BY <1>2, <1>7, <1>8, <1>10, <1>11, <1>12 DEF MessageInv
<1> QED BY <1>13 DEF U

\* What a message had touched stays touched when another is edited.
LEMMA InvGrows ==
  ASSUME NEW acc, NEW cur, NEW i, NEW T, NEW U, T \subseteq U, MessageInv(acc, cur, i, T)
  PROVE  MessageInv(acc, cur, i, U)
<1>1. \A k \in DOMAIN cur : Descends(acc, cur[k], i, T) => Descends(acc, cur[k], i, U)
  BY DEF Descends
<1> QED BY <1>1 DEF MessageInv


-----------------------------------------------------------------------------
\* Every helper edits.

\* A step that leaves all messages alone.
LeavesMessages ==
  /\ request' \in RequestType
  /\ request'.messages = request.messages
  /\ UNCHANGED <<accepted, touched>>

\* A step that edits message i, by marking a result as failed or otherwise.
Rewrites(i) ==
  \E new :
    /\ Apply(i, new)
    /\ Edited(Blocks(i), new)
    /\ \/ EditedQuietly(Blocks(i), new)
       \/ \E j \in DOMAIN Blocks(i), t \in Text :
            /\ Blocks(i)[j].kind = "tool_result"
            /\ new = [Blocks(i) EXCEPT ![j] = FailedWith(@, t)]

\* An edit that marks no result as failed is an edit.
LEMMA QuietIsEdited ==
  ASSUME NEW old, NEW new, EditedQuietly(old, new)
  PROVE  Edited(old, new)
  BY DEF EditedQuietly, Edited

\* What a helper needs to know of the request it edits.
LEMMA RequestFacts ==
  ASSUME EditsInv
  PROVE  /\ request \in RequestType
         /\ \A i \in DOMAIN request.messages :
              /\ Legal(Blocks(i)) /\ Blocks(i) \in Seq(Block)
              /\ \A j \in DOMAIN Blocks(i) : Blocks(i)[j] \in Block
<1>1. request \in RequestType /\ \A i \in DOMAIN request.messages : Legal(Blocks(i))
  BY DEF EditsInv, MessageInv, Blocks
<1>2. ASSUME NEW i \in DOMAIN request.messages
      PROVE  Blocks(i) \in Seq(Block) /\ \A j \in DOMAIN Blocks(i) : Blocks(i)[j] \in Block
  <2>1. Blocks(i) \in Seq(Block)
    BY <1>1 DEF Legal
  <2> QED BY <2>1, LenProperties, ElementOfSeq
<1> QED BY <1>1, <1>2

\* A helper that fails, or whose edit is one.
LEMMA HelperRewrites ==
  ASSUME EditsInv, NEW i \in DOMAIN request.messages, NEW new, NEW legal,
         Helper(legal, i, new), legal => EditedQuietly(Blocks(i), new)
  PROVE  LeavesMessages \/ Rewrites(i)
<1>1. CASE legal
  BY <1>1, QuietIsEdited DEF Helper, Rewrites
<1>2. CASE ~legal
  BY <1>2, RequestFacts DEF Helper, Refuse, LeavesMessages
<1> QED BY <1>1, <1>2

\* SetTextAt.
LEMMA SetTextRewrites ==
  ASSUME EditsInv, NEW i \in DOMAIN request.messages, NEW j, NEW x \in Text, SetTextAt(i, j, x)
  PROVE  LeavesMessages \/ Rewrites(i)
<1>1. Is(i, j, "text") => EditedQuietly(Blocks(i), SetText(Blocks(i), j, x))
  BY RequestFacts, SetTextEdits DEF Is
<1>2. Helper(Is(i, j, "text"), i, SetText(Blocks(i), j, x))
  BY DEF SetTextAt
<1> QED BY <1>1, <1>2, HelperRewrites

\* ReplaceAllText, which never fails.
LEMMA ReplaceAllRewrites ==
  ASSUME EditsInv, NEW i \in DOMAIN request.messages, NEW x \in Text, ReplaceAllText(i, x)
  PROVE  Rewrites(i)
<1>1. EditedQuietly(Blocks(i), CollapseText(Blocks(i), x))
  BY RequestFacts, CollapseEdits
<1>2. Apply(i, CollapseText(Blocks(i), x))
  BY DEF ReplaceAllText
<1> QED BY <1>1, <1>2, QuietIsEdited DEF Rewrites

\* ReplaceToolResultText.
LEMMA ResultTextRewrites ==
  ASSUME EditsInv, NEW i \in DOMAIN request.messages, NEW j, NEW x \in Text,
         ReplaceToolResultText(i, j, x)
  PROVE  LeavesMessages \/ Rewrites(i)
<1> DEFINE legal == /\ Is(i, j, "tool_result")
                    /\ Cardinality(ArmsOf(Blocks(i)[j].body, "text")) = 1
                    /\ ArmsOf(Blocks(i)[j].body, "unknown") = {}
           new == [Blocks(i) EXCEPT ![j] = SetArm(@, x)]
<1>1. ASSUME legal PROVE EditedQuietly(Blocks(i), new)
  <2>1. /\ j \in DOMAIN Blocks(i) /\ Blocks(i)[j].kind = "tool_result"
        /\ ArmsOf(Blocks(i)[j].body, "text") # {}
    BY <1>1, FS_EmptySet DEF Is
  <2>2. Legal(Blocks(i)) /\ Blocks(i)[j] \in Block
    BY <2>1, RequestFacts
  <2> DEFINE b == SetArm(Blocks(i)[j], x)
  <2>3. b \in Block /\ Turned(Blocks(i)[j], b) /\ b.is_error = Blocks(i)[j].is_error
    BY <2>1, <2>2, SetArmTurns
  <2>4. new = [Blocks(i) EXCEPT ![j] = b]
    OBVIOUS
  <2> HIDE DEF b, new
  <2>5. EditedQuietly(Blocks(i), [Blocks(i) EXCEPT ![j] = b])
    BY <2>1, <2>2, <2>3, RewriteOne
  <2> QED BY <2>4, <2>5
<1>2. Helper(legal, i, new)
  BY DEF ReplaceToolResultText
<1> HIDE DEF legal, new
<1> QED BY <1>1, <1>2, HelperRewrites

\* ReplaceToolResultWithError, the one helper that marks a result as failed.
LEMMA ResultErrorRewrites ==
  ASSUME EditsInv, NEW i \in DOMAIN request.messages, NEW j, NEW x \in Text,
         ReplaceToolResultWithError(i, j, x)
  PROVE  LeavesMessages \/ Rewrites(i)
<1> DEFINE legal == /\ Is(i, j, "tool_result")
                    /\ ArmsOf(Blocks(i)[j].body, "cache") # DOMAIN Blocks(i)[j].body
           new == [Blocks(i) EXCEPT ![j] = FailedWith(@, x)]
<1>1. Helper(legal, i, new)
  BY DEF ReplaceToolResultWithError
<1>2. CASE legal
  <2>1. j \in DOMAIN Blocks(i) /\ Blocks(i)[j].kind = "tool_result"
    BY <1>2 DEF Is
  <2>2. Legal(Blocks(i)) /\ Blocks(i)[j] \in Block
    BY <2>1, RequestFacts
  <2> DEFINE b == FailedWith(Blocks(i)[j], x)
  <2>3. b \in Block /\ Turned(Blocks(i)[j], b)
    BY <2>1, <2>2, FailedTurns
  <2>4. new = [Blocks(i) EXCEPT ![j] = b]
    OBVIOUS
  <2>5. Edited(Blocks(i), [Blocks(i) EXCEPT ![j] = b])
    <3> HIDE DEF b
    <3> QED BY <2>1, <2>2, <2>3, RewriteOne
  <2>6. Apply(i, new)
    BY <1>1, <1>2 DEF Helper
  <2> QED BY <2>1, <2>4, <2>5, <2>6 DEF Rewrites
<1>3. CASE ~legal
  BY <1>1, <1>3, RequestFacts DEF Helper, Refuse, LeavesMessages
<1> QED BY <1>2, <1>3

\* AddToolCall and AddCacheBreakpoint.
LEMMA AddRewrites ==
  ASSUME EditsInv, NEW i \in DOMAIN request.messages, NEW at,
         \/ \E c \in Call \cup {None} : AddToolCall(i, at, c)
         \/ \E m \in Marker \cup {None} : AddCacheBreakpoint(i, at, m)
  PROVE  LeavesMessages \/ Rewrites(i)
<1>1. ASSUME NEW kind, NEW body,
             \/ kind = "tool_use" /\ body \in Call \cup {None}
             \/ kind = "cache" /\ body \in Marker \cup {None},
             Helper(MayInsert(Blocks(i), at) /\ body # None, i,
                    InsertAt(Blocks(i), at, Added(kind, body)))
      PROVE  LeavesMessages \/ Rewrites(i)
  <2> DEFINE legal == MayInsert(Blocks(i), at) /\ body # None
             b == Added(kind, body)
             new == InsertAt(Blocks(i), at, b)
  <2>1. ASSUME legal PROVE EditedQuietly(Blocks(i), new)
    <3>1. b \in Block
      <4>1. CASE kind = "tool_use" /\ body \in Call
        BY <4>1 DEF Added, Block, Fields
      <4>2. CASE kind = "cache" /\ body \in Marker
        BY <4>2 DEF Added, Block, Fields
      <4> QED BY <1>1, <2>1, <4>1, <4>2
    <3>2. New(b) /\ b.kind \notin {"text", "thinking"}
      BY <1>1 DEF Added, New
    <3> HIDE DEF b
    <3> QED BY <2>1, <3>1, <3>2, RequestFacts, AddOne
  <2>2. Helper(legal, i, new)
    BY <1>1
  <2> HIDE DEF legal, new
  <2> QED BY <2>1, <2>2, HelperRewrites
<1>2. ASSUME NEW c \in Call \cup {None}, AddToolCall(i, at, c) PROVE LeavesMessages \/ Rewrites(i)
  <2>1. Helper(MayInsert(Blocks(i), at) /\ c # None, i,
               InsertAt(Blocks(i), at, Added("tool_use", c)))
    BY <1>2 DEF AddToolCall
  <2> QED BY <1>1, <2>1
<1>3. ASSUME NEW m \in Marker \cup {None}, AddCacheBreakpoint(i, at, m)
      PROVE  LeavesMessages \/ Rewrites(i)
  <2>1. Helper(MayInsert(Blocks(i), at) /\ m # None, i,
               InsertAt(Blocks(i), at, Added("cache", m)))
    BY <1>3 DEF AddCacheBreakpoint
  <2> QED BY <1>1, <2>1
<1> QED BY <1>2, <1>3

\* ReplaceToolCall.
LEMMA ReplaceCallRewrites ==
  ASSUME EditsInv, NEW i \in DOMAIN request.messages, NEW j, NEW c \in Call \cup {None},
         ReplaceToolCall(i, j, c)
  PROVE  LeavesMessages \/ Rewrites(i)
<1> DEFINE legal == Is(i, j, "tool_use") /\ c # None
           new == [Blocks(i) EXCEPT ![j] = WithText(@, c)]
<1>1. ASSUME legal PROVE EditedQuietly(Blocks(i), new)
  <2>1. j \in DOMAIN Blocks(i) /\ Blocks(i)[j].kind = "tool_use" /\ c \in Call
    BY <1>1 DEF Is
  <2>2. Legal(Blocks(i)) /\ Blocks(i)[j] \in Block
    BY <2>1, RequestFacts
  <2> DEFINE b == WithText(Blocks(i)[j], c)
  <2>3. b \in Block /\ Turned(Blocks(i)[j], b) /\ b.is_error = Blocks(i)[j].is_error
    BY <2>1, <2>2, WithTextTurns
  <2>4. new = [Blocks(i) EXCEPT ![j] = b]
    OBVIOUS
  <2> HIDE DEF b, new
  <2>5. EditedQuietly(Blocks(i), [Blocks(i) EXCEPT ![j] = b])
    BY <2>1, <2>2, <2>3, RewriteOne
  <2> QED BY <2>4, <2>5
<1>2. Helper(legal, i, new)
  BY DEF ReplaceToolCall
<1> HIDE DEF legal, new
<1> QED BY <1>1, <1>2, HelperRewrites

\* SetCacheBreakpoint.
LEMMA SetBreakpointRewrites ==
  ASSUME EditsInv, NEW i \in DOMAIN request.messages, NEW j, NEW m \in Marker \cup {None},
         SetCacheBreakpoint(i, j, m)
  PROVE  LeavesMessages \/ Rewrites(i)
<1> DEFINE legal == Is(i, j, "cache") /\ m # None
           new == [Blocks(i) EXCEPT ![j].body = m]
<1>1. ASSUME legal PROVE EditedQuietly(Blocks(i), new)
  <2>1. j \in DOMAIN Blocks(i) /\ Blocks(i)[j].kind = "cache" /\ m \in Marker
    BY <1>1 DEF Is
  <2>2. Legal(Blocks(i)) /\ Blocks(i)[j] \in Block
    BY <2>1, RequestFacts
  <2> DEFINE b == [Blocks(i)[j] EXCEPT !.body = m]
  <2>3. b \in Block /\ Turned(Blocks(i)[j], b) /\ b.is_error = Blocks(i)[j].is_error
    BY <2>1, <2>2, BreakpointTurns
  <2>4. new = [Blocks(i) EXCEPT ![j] = b]
    OBVIOUS
  <2> HIDE DEF b, new
  <2>5. EditedQuietly(Blocks(i), [Blocks(i) EXCEPT ![j] = b])
    BY <2>1, <2>2, <2>3, RewriteOne
  <2> QED BY <2>4, <2>5
<1>2. Helper(legal, i, new)
  BY DEF SetCacheBreakpoint
<1> HIDE DEF legal, new
<1> QED BY <1>1, <1>2, HelperRewrites

\* DeleteCacheBreakpoint.
LEMMA DeleteBreakpointRewrites ==
  ASSUME EditsInv, NEW i \in DOMAIN request.messages, NEW j, DeleteCacheBreakpoint(i, j)
  PROVE  LeavesMessages \/ Rewrites(i)
<1>1. Is(i, j, "cache") => EditedQuietly(Blocks(i), RemoveAt(Blocks(i), j))
  BY RequestFacts, RemoveOne DEF Is
<1>2. Helper(Is(i, j, "cache"), i, RemoveAt(Blocks(i), j))
  BY DEF DeleteCacheBreakpoint
<1> QED BY <1>1, <1>2, HelperRewrites

\* ReplaceLastCacheBreakpoint, whether a message or a tool carries the marker.
LEMMA LastMarkerRewrites ==
  ASSUME EditsInv, NEW m \in Marker \cup {None}, ReplaceLastCacheBreakpoint(m)
  PROVE  LeavesMessages \/ \E i \in DOMAIN request.messages : Rewrites(i)
<1> DEFINE at == LastCacheMarker(request)
           i == at.msg
           new == [Blocks(i) EXCEPT ![at.block] = SetMarker(@, at.arm, m)]
<1>1. request \in RequestType
  BY RequestFacts
<1>2. CASE Refuse
  BY <1>1, <1>2 DEF Refuse, LeavesMessages
<1>3. CASE ~Refuse
  <2>1. m \in Marker /\ HasMarker(request)
    BY <1>3 DEF ReplaceLastCacheBreakpoint
  <2>2. Carrier(request, at)
    BY <1>1, <2>1, LastIsThere, PositionsAreCarriers
  <2>3. \/ at.msg = 0 /\ ~(at.msg > 0) /\ at.block \in DOMAIN request.tools
        \/ /\ at.msg # 0 /\ at.msg > 0 /\ i \in DOMAIN request.messages
           /\ at.block \in DOMAIN Blocks(i)
           /\ \/ Blocks(i)[at.block].kind = "cache" /\ at.arm = 0
              \/ /\ Blocks(i)[at.block].kind = "tool_result" /\ at.arm \in DOMAIN Blocks(i)[at.block].body
                 /\ Blocks(i)[at.block].body[at.arm].arm = "cache"
    <3> HIDE DEF at
    <3> QED BY <1>1, <2>2, CarrierCases DEF Blocks
  <2>4. CASE at.msg > 0
    <3>1. Apply(i, new)
      BY <1>3, <2>4 DEF ReplaceLastCacheBreakpoint
    <3>2. /\ i \in DOMAIN request.messages /\ at.block \in DOMAIN Blocks(i)
          /\ \/ Blocks(i)[at.block].kind = "cache" /\ at.arm = 0
             \/ /\ Blocks(i)[at.block].kind = "tool_result" /\ at.arm \in DOMAIN Blocks(i)[at.block].body
                /\ Blocks(i)[at.block].body[at.arm].arm = "cache"
      BY <2>3, <2>4
    <3>3. Legal(Blocks(i)) /\ Blocks(i)[at.block] \in Block
      BY <3>2, RequestFacts
    <3>4. Blocks(i)[at.block].kind = "tool_result" /\ at.arm \in DOMAIN Blocks(i)[at.block].body => at.arm # 0
      <4>1. \A b : b \in Block /\ b.kind = "tool_result" => 0 \notin DOMAIN b.body
        <5> SUFFICES ASSUME NEW b \in Block, b.kind = "tool_result" PROVE 0 \notin DOMAIN b.body
          OBVIOUS
        <5>1. b.body \in Seq(Arm)
          BY BlockFields
        <5>2. DOMAIN b.body = 1 .. Len(b.body) /\ Len(b.body) \in Nat
          BY <5>1, LenProperties
        <5> QED BY <5>2
      <4> QED BY <3>3, <4>1
    <3> DEFINE b == SetMarker(Blocks(i)[at.block], at.arm, m)
    <3> HIDE DEF at, i
    <3>5. b \in Block /\ Turned(Blocks(i)[at.block], b) /\ b.is_error = Blocks(i)[at.block].is_error
      BY <2>1, <3>2, <3>3, <3>4, SetMarkerTurns
    <3>6. new = [Blocks(i) EXCEPT ![at.block] = b]
      OBVIOUS
    <3> HIDE DEF b, new
    <3>7. EditedQuietly(Blocks(i), [Blocks(i) EXCEPT ![at.block] = b])
      BY <3>2, <3>3, <3>5, RewriteOne
    <3> QED BY <3>1, <3>2, <3>6, <3>7, QuietIsEdited DEF Rewrites
  <2>5. CASE at.msg = 0
    <3>1. request' = [request EXCEPT !.tools[at.block] = m] /\ UNCHANGED <<accepted, touched>>
      BY <1>3, <2>1, <2>3, <2>5 DEF ReplaceLastCacheBreakpoint
    <3>2. at.block \in DOMAIN request.tools
      BY <2>3, <2>5
    <3> HIDE DEF at
    <3>3. request.tools \in Seq(Marker \cup {None}) /\ request.messages \in Seq(Message)
      BY <1>1 DEF RequestType
    <3>4. at.block \in 1 .. Len(request.tools)
      BY <1>1, <3>2, CarrierBounds
    <3>5. [request.tools EXCEPT ![at.block] = m] \in Seq(Marker \cup {None})
      BY <2>1, <3>3, <3>4, ExceptSeq
    <3>6. request'.messages = request.messages /\ request'.tools = [request.tools EXCEPT ![at.block] = m]
      BY <1>1, <3>1 DEF RequestType
    <3>7. request' \in RequestType
      BY <1>1, <3>1, <3>3, <3>5 DEF RequestType
    <3> QED BY <3>1, <3>6, <3>7 DEF LeavesMessages
  <2> QED BY <2>3, <2>4, <2>5
<1> QED BY <1>2, <1>3

\* Every step of the hook.
LEMMA NextRewrites ==
  ASSUME EditsInv, [Next]_vars
  PROVE  LeavesMessages \/ \E i \in DOMAIN request.messages : Rewrites(i)
<1>1. CASE UNCHANGED vars
  BY <1>1, RequestFacts DEF vars, LeavesMessages
<1>2. CASE PassRequest \/ ReplaceRequest
  BY <1>2, RequestFacts DEF PassRequest, ReplaceRequest, LeavesMessages
<1>3. CASE \E m \in Marker \cup {None} : ReplaceLastCacheBreakpoint(m)
  BY <1>3, LastMarkerRewrites
<1>4. ASSUME NEW i \in DOMAIN request.messages, Edit(i)
      PROVE  LeavesMessages \/ Rewrites(i)
  <2>1. CASE \E t \in Text : ReplaceAllText(i, t)
    BY <2>1, ReplaceAllRewrites
  <2>2. CASE \E j \in 1 .. Len(Blocks(i)) + 1, t \in Text :
                 \/ SetTextAt(i, j, t)
                 \/ ReplaceToolResultText(i, j, t)
                 \/ ReplaceToolResultWithError(i, j, t)
    BY <2>2, SetTextRewrites, ResultTextRewrites, ResultErrorRewrites
  <2>3. CASE \E j \in 1 .. Len(Blocks(i)) + 1 : DeleteCacheBreakpoint(i, j)
    BY <2>3, DeleteBreakpointRewrites
  <2>4. CASE \E j \in 1 .. Len(Blocks(i)) + 1, c \in Call \cup {None} : ReplaceToolCall(i, j, c)
    BY <2>4, ReplaceCallRewrites
  <2>5. CASE \E j \in 1 .. Len(Blocks(i)) + 1, m \in Marker \cup {None} : SetCacheBreakpoint(i, j, m)
    BY <2>5, SetBreakpointRewrites
  <2>6. CASE \E at \in 1 .. Len(Blocks(i)) + 2 :
                 \/ \E c \in Call \cup {None} : AddToolCall(i, at, c)
                 \/ \E m \in Marker \cup {None} : AddCacheBreakpoint(i, at, m)
    BY <2>6, AddRewrites
  <2> QED BY <1>4, <2>1, <2>2, <2>3, <2>4, <2>5, <2>6 DEF Edit
<1> QED BY <1>1, <1>2, <1>3, <1>4 DEF Next


-----------------------------------------------------------------------------
\* What the steps keep.

\* The request after an edit of message i.
LEMMA ApplyFacts ==
  ASSUME EditsInv, NEW i \in DOMAIN request.messages, NEW new, Apply(i, new), Legal(new)
  PROVE  /\ UNCHANGED accepted
         /\ request' \in RequestType
         /\ DOMAIN request'.messages = DOMAIN request.messages
         /\ request'.messages[i].blocks = new
         /\ \A k \in DOMAIN request.messages : request'.messages[k].role = request.messages[k].role
         /\ \A k \in DOMAIN request.messages : k # i => request'.messages[k] = request.messages[k]
         /\ touched' = touched \cup TouchedBy(i, Blocks(i), new)
<1>1. /\ request \in RequestType
      /\ request' = [request EXCEPT !.messages[i].blocks = new]
      /\ UNCHANGED accepted
      /\ touched' = touched \cup TouchedBy(i, Blocks(i), new)
  BY RequestFacts DEF Apply
<1> DEFINE ms == request.messages
           msg == [ms[i] EXCEPT !.blocks = new]
<1>2. ms \in Seq(Message) /\ DOMAIN ms = 1 .. Len(ms) /\ Len(ms) \in Nat
  <2>1. ms \in Seq(Message)
    BY <1>1 DEF RequestType
  <2> QED BY <2>1, LenProperties
<1>3. ms[i] \in Message
  BY <1>2, ElementOfSeq
<1>4. msg \in Message /\ msg.blocks = new /\ msg.role = ms[i].role
  BY <1>3 DEF Message, Legal
<1>5. request'.messages = [ms EXCEPT ![i] = msg] /\ request'.tools = request.tools
  BY <1>1 DEF RequestType
<1>6. /\ request'.messages \in Seq(Message) /\ DOMAIN request'.messages = DOMAIN ms
      /\ request'.messages[i] = msg
      /\ \A k \in DOMAIN ms : k # i => request'.messages[k] = ms[k]
  <2> HIDE DEF msg
  <2> QED BY <1>2, <1>4, <1>5, ExceptSeq
<1>7. request' \in RequestType
  <2>1. request' = [request EXCEPT !.messages = request'.messages]
    BY <1>1, <1>5 DEF RequestType
  <2> QED BY <1>1, <1>6, <2>1 DEF RequestType
<1> HIDE DEF msg, ms
<1>8. \A k \in DOMAIN ms : request'.messages[k].role = ms[k].role
  BY <1>4, <1>6
<1> QED BY <1>1, <1>4, <1>6, <1>7, <1>8 DEF ms

\* The invariant is inductive.
LEMMA StepEditsInv == EditsInv /\ [Next]_vars => EditsInv'
<1> SUFFICES ASSUME EditsInv, [Next]_vars PROVE EditsInv'
  OBVIOUS
<1>1. /\ accepted \in RequestType /\ request \in RequestType /\ Replaceable(accepted)
      /\ DOMAIN request.messages = DOMAIN accepted.messages
      /\ \A k \in DOMAIN request.messages :
           /\ request.messages[k].role = accepted.messages[k].role
           /\ MessageInv(accepted.messages[k].blocks, Blocks(k), k, touched)
  BY DEF EditsInv, Blocks
<1>2. CASE LeavesMessages
  <2>1. /\ request' \in RequestType /\ request'.messages = request.messages
        /\ accepted' = accepted /\ touched' = touched
    BY <1>2 DEF LeavesMessages
  <2> QED BY <1>1, <2>1 DEF EditsInv, Blocks
<1>3. ASSUME NEW i \in DOMAIN request.messages, Rewrites(i) PROVE EditsInv'
  <2>1. PICK new : Apply(i, new) /\ Edited(Blocks(i), new)
    BY <1>3 DEF Rewrites
  <2>2. Legal(new)
    BY <2>1 DEF Edited, Keeps
  <2> DEFINE T == TouchedBy(i, Blocks(i), new)
  <2>3. /\ accepted' = accepted
        /\ request' \in RequestType
        /\ DOMAIN request'.messages = DOMAIN request.messages
        /\ request'.messages[i].blocks = new
        /\ \A k \in DOMAIN request.messages : request'.messages[k].role = request.messages[k].role
        /\ \A k \in DOMAIN request.messages : k # i => request'.messages[k] = request.messages[k]
        /\ touched' = touched \cup T
    BY <2>1, <2>2, ApplyFacts
  <2>4. MessageInv(accepted.messages[i].blocks, new, i, touched \cup T)
    BY <1>1, <2>1, EditKeepsInv
  <2> HIDE DEF T
  <2>5. ASSUME NEW k \in DOMAIN request.messages, k # i
        PROVE  MessageInv(accepted.messages[k].blocks, Blocks(k), k, touched \cup T)
    <3>1. touched \subseteq touched \cup T
      OBVIOUS
    <3>2. MessageInv(accepted.messages[k].blocks, Blocks(k), k, touched)
      BY <1>1
    <3> QED BY <3>1, <3>2, InvGrows
  <2>6. ASSUME NEW k \in DOMAIN request.messages
        PROVE  MessageInv(accepted.messages[k].blocks, request'.messages[k].blocks, k, touched')
    <3>1. CASE k = i
      BY <2>3, <2>4, <3>1
    <3>2. CASE k # i
      <4>1. request'.messages[k].blocks = Blocks(k)
        BY <2>3, <3>2 DEF Blocks
      <4> QED BY <2>3, <2>5, <3>2, <4>1
    <3> QED BY <3>1, <3>2
  <2> QED BY <1>1, <2>3, <2>6 DEF EditsInv
<1> QED BY <1>2, <1>3, NextRewrites

\* Whatever helpers a hook calls, every block of the request is the plugin's own
\* and without token or descends from an accepted one, in the accepted order.
THEOREM EditsAreInv == Spec => []EditsInv
  BY InitEditsInv, StepEditsInv, PTL DEF Spec

-----------------------------------------------------------------------------
\* The properties.

\* How the host's rule judges the same token over the same content, and none.
LEMMA Judged ==
  ASSUME NEW a, NEW changed \in BOOLEAN
  PROVE  /\ Classify(a, a, FALSE) = "intact"
         /\ Classify(a, None, changed) \in {"intact", "dropped", "cleared"}
         /\ Classify(a, None, changed) = "dropped" => a # None
         /\ Classify(a, a, changed) # "dropped"
<1>1. CASE a = None
  BY <1>1 DEF Classify
<1>2. CASE a # None
  BY <1>2 DEF Classify
<1> QED BY <1>1, <1>2

\* The blocks an accepted one has left, and those of the plugin.
LEMMA SurvivorFacts ==
  ASSUME EditsInv, NEW i \in DOMAIN accepted.messages
  PROVE  /\ \A j \in DOMAIN accepted.messages[i].blocks : \A k \in Survivors(i, j) :
              /\ k \in DOMAIN Blocks(i) /\ Blocks(i)[k].origin = j
              /\ Descends(accepted.messages[i].blocks, Blocks(i)[k], i, touched)
         /\ \A k \in Survivors(i, 0) : New(Blocks(i)[k])
         /\ \A j \in DOMAIN accepted.messages[i].blocks :
              accepted.messages[i].blocks[j].kind = "trailing" =>
                /\ j = Len(accepted.messages[i].blocks)
                /\ HasTrailing(accepted.messages[i].blocks)
                /\ Survivors(i, j) # {} <=> HasTrailing(Blocks(i))
<1> DEFINE acc == accepted.messages[i].blocks
           cur == Blocks(i)
<1>1. MessageInv(acc, cur, i, touched)
  BY DEF EditsInv, Blocks
<1> HIDE DEF acc, cur
<1>2. /\ Legal(acc)
      /\ \A k \in DOMAIN cur : New(cur[k]) \/ Descends(acc, cur[k], i, touched)
  BY <1>1 DEF MessageInv
<1>3. 0 \notin DOMAIN acc
  BY <1>2, LenProperties DEF Legal
<1>4. ASSUME NEW j \in DOMAIN acc, NEW k \in Survivors(i, j)
      PROVE  k \in DOMAIN cur /\ cur[k].origin = j /\ Descends(acc, cur[k], i, touched)
  <2>1. k \in DOMAIN cur /\ cur[k].origin = j
    BY DEF Survivors, cur
  <2> QED BY <1>2, <1>3, <2>1 DEF New
<1>5. ASSUME NEW k \in Survivors(i, 0) PROVE New(cur[k])
  <2>1. k \in DOMAIN cur /\ cur[k].origin = 0
    BY DEF Survivors, cur
  <2> QED BY <1>2, <1>3, <2>1 DEF Descends
<1>6. ASSUME NEW j \in DOMAIN acc, acc[j].kind = "trailing"
      PROVE  /\ j = Len(acc) /\ HasTrailing(acc)
             /\ Survivors(i, j) # {} <=> HasTrailing(cur)
  <2>1. j = Len(acc) /\ HasTrailing(acc)
    BY <1>2, <1>6 DEF Legal, HasTrailing
  <2>2. ASSUME NEW k \in Survivors(i, j) PROVE HasTrailing(cur)
    <3>1. k \in DOMAIN cur /\ cur[k].kind = "trailing"
      <4>1. k \in DOMAIN cur /\ cur[k].origin = j /\ Descends(acc, cur[k], i, touched)
        BY <1>4
      <4>2. cur[k].kind = acc[j].kind
        BY <4>1 DEF Descends
      <4> QED BY <1>6, <4>1, <4>2
    <3> QED BY <3>1 DEF HasTrailing
  <2>3. ASSUME NEW k \in DOMAIN cur, cur[k].kind = "trailing" PROVE k \in Survivors(i, j)
    <3>1. Descends(acc, cur[k], i, touched)
      BY <1>2, <2>3 DEF New
    <3>2. cur[k].origin = Len(acc)
      BY <1>2, <2>3, <3>1 DEF Descends, Legal
    <3> QED BY <2>1, <3>2 DEF Survivors, cur
  <2> QED BY <2>1, <2>2, <2>3 DEF HasTrailing
<1> QED BY <1>4, <1>5, <1>6 DEF acc, cur


\* No provider token is stale, forged or added.
LEMMA InvHonest == EditsInv => TokensHonest
<1> SUFFICES ASSUME EditsInv, NEW i \in DOMAIN accepted.messages
             PROVE  /\ \A j \in DOMAIN accepted.messages[i].blocks :
                         Verdicts(i, j) \cap {"stale", "forged", "added"} = {}
                    /\ \A k \in Survivors(i, 0) : Blocks(i)[k].sig = None
  BY DEF TokensHonest
<1> DEFINE acc == accepted.messages[i].blocks
           cur == Blocks(i)
<1>1. MessageInv(acc, cur, i, touched)
  BY DEF EditsInv, Blocks
<1>2. /\ \A j \in DOMAIN acc : \A k \in Survivors(i, j) :
           /\ k \in DOMAIN cur /\ cur[k].origin = j
           /\ Descends(acc, cur[k], i, touched)
      /\ \A k \in Survivors(i, 0) : New(cur[k])
      /\ \A j \in DOMAIN acc : acc[j].kind = "trailing" =>
           HasTrailing(acc) /\ (Survivors(i, j) # {} <=> HasTrailing(cur))
  BY SurvivorFacts
<1> HIDE DEF acc, cur
<1>3. ASSUME NEW j \in DOMAIN acc, acc[j].kind = "trailing"
      PROVE  Verdicts(i, j) \subseteq {"intact", "dropped", "cleared"}
  <2> DEFINE changed == CoveredTexts(acc) # CoveredTexts(cur)
             after == IF Survivors(i, j) = {} THEN None ELSE acc[j].sig
  <2>1. Verdicts(i, j) = {Classify(acc[j].sig, after, changed)}
    BY <1>3 DEF Verdicts, acc, cur
  <2>2. CASE Survivors(i, j) = {}
    BY <2>1, <2>2, Judged
  <2>3. CASE Survivors(i, j) # {}
    <3>1. changed = FALSE
      BY <1>1, <1>2, <1>3, <2>3 DEF MessageInv
    <3>2. Classify(acc[j].sig, acc[j].sig, FALSE) = "intact"
      BY Judged
    <3> QED BY <2>1, <2>3, <3>1, <3>2
  <2> QED BY <2>2, <2>3
<1>4. ASSUME NEW j \in DOMAIN acc, acc[j].kind # "trailing"
      PROVE  Verdicts(i, j) \subseteq {"intact", "dropped", "cleared"}
  <2>1. Verdicts(i, j) = {Classify(acc[j].sig, cur[k].sig, acc[j].body # cur[k].body) :
                            k \in Survivors(i, j)}
    BY <1>4 DEF Verdicts, acc, cur
  <2>2. ASSUME NEW k \in Survivors(i, j)
        PROVE  Classify(acc[j].sig, cur[k].sig, acc[j].body # cur[k].body)
                 \in {"intact", "dropped", "cleared"}
    <3>1. cur[k].origin = j /\ Descends(acc, cur[k], i, touched)
      BY <1>2
    <3>2. (cur[k].sig = acc[j].sig /\ cur[k].body = acc[j].body) \/ cur[k].sig = None
      BY <3>1 DEF Descends
    <3> DEFINE changed == acc[j].body # cur[k].body
    <3>3. changed \in BOOLEAN
      OBVIOUS
    <3>4. CASE cur[k].sig = None
      <4> HIDE DEF changed
      <4>1. Classify(acc[j].sig, None, changed) \in {"intact", "dropped", "cleared"}
        BY <3>3, Judged
      <4> QED BY <3>4, <4>1 DEF changed
    <3>5. CASE cur[k].sig = acc[j].sig /\ cur[k].body = acc[j].body
      <4>1. changed = FALSE
        BY <3>5
      <4>2. Classify(acc[j].sig, acc[j].sig, FALSE) = "intact"
        BY Judged
      <4> QED BY <3>5, <4>1, <4>2
    <3> QED BY <3>2, <3>4, <3>5
  <2> QED BY <2>1, <2>2
<1>5. \A j \in DOMAIN acc : Verdicts(i, j) \cap {"stale", "forged", "added"} = {}
  <2> SUFFICES ASSUME NEW j \in DOMAIN acc
               PROVE  Verdicts(i, j) \cap {"stale", "forged", "added"} = {}
    OBVIOUS
  <2>1. Verdicts(i, j) \subseteq {"intact", "dropped", "cleared"}
    BY <1>3, <1>4
  <2> QED BY <2>1
<1>6. \A k \in Survivors(i, 0) : cur[k].sig = None
  BY <1>2 DEF New
<1> QED BY <1>5, <1>6 DEF acc, cur

\* A token that is gone over unchanged content was touched on the way.
LEMMA InvGoneForCause == EditsInv => TokensGoneForCause
<1> SUFFICES ASSUME EditsInv, NEW i \in DOMAIN accepted.messages,
                    NEW j \in DOMAIN accepted.messages[i].blocks,
                    "dropped" \in Verdicts(i, j)
             PROVE  \/ <<i, j>> \in touched
                    \/ \E k \in Survivors(i, j) :
                         Blocks(i)[k].is_error # accepted.messages[i].blocks[j].is_error
  BY DEF TokensGoneForCause
<1> DEFINE acc == accepted.messages[i].blocks
           cur == Blocks(i)
<1>1. MessageInv(acc, cur, i, touched)
  BY DEF EditsInv, Blocks
<1>2. /\ j \in DOMAIN acc
      /\ \A k \in Survivors(i, j) : cur[k].origin = j /\ Descends(acc, cur[k], i, touched)
      /\ acc[j].kind = "trailing" => /\ j = Len(acc) /\ HasTrailing(acc)
                                     /\ Survivors(i, j) # {} <=> HasTrailing(cur)
  BY SurvivorFacts
<1> HIDE DEF acc, cur
<1>3. CASE acc[j].kind = "trailing"
  <2> DEFINE changed == CoveredTexts(acc) # CoveredTexts(cur)
             after == IF Survivors(i, j) = {} THEN None ELSE acc[j].sig
  <2>1. Classify(acc[j].sig, after, changed) = "dropped"
    BY <1>3 DEF Verdicts, acc, cur
  <2>2. Survivors(i, j) = {}
    <3>1. Classify(acc[j].sig, acc[j].sig, changed) # "dropped"
      <4>1. changed \in BOOLEAN
        OBVIOUS
      <4> HIDE DEF changed
      <4> QED BY <4>1, Judged
    <3> QED BY <2>1, <3>1
  <2> QED BY <1>1, <1>2, <1>3, <2>2 DEF MessageInv
<1>4. CASE acc[j].kind # "trailing"
  <2>1. PICK k \in Survivors(i, j) :
          Classify(acc[j].sig, cur[k].sig, acc[j].body # cur[k].body) = "dropped"
    <3>1. Verdicts(i, j) = {Classify(acc[j].sig, cur[k].sig, acc[j].body # cur[k].body) :
                              k \in Survivors(i, j)}
      BY <1>4 DEF Verdicts, acc, cur
    <3> QED BY <3>1
  <2>2. cur[k].sig # acc[j].sig
    <3> DEFINE changed == acc[j].body # cur[k].body
    <3>1. changed \in BOOLEAN
      OBVIOUS
    <3>2. Classify(acc[j].sig, cur[k].sig, changed) = "dropped"
      BY <2>1
    <3> HIDE DEF changed
    <3>3. Classify(acc[j].sig, acc[j].sig, changed) # "dropped"
      BY <3>1, Judged
    <3> QED BY <3>2, <3>3
  <2>3. cur[k].origin = j /\ Descends(acc, cur[k], i, touched)
    BY <1>2
  <2>4. <<i, j>> \in touched \/ cur[k].is_error # acc[j].is_error
    BY <2>2, <2>3 DEF Descends
  <2> QED BY <2>4 DEF acc, cur
<1> QED BY <1>3, <1>4

\* What is left of a message is a legal replacement.
LEMMA InvReplaceable == EditsInv => StaysReplaceable
<1> SUFFICES ASSUME EditsInv, NEW i \in DOMAIN request.messages
             PROVE  \/ ReplaceableMessage(request.messages[i])
                    \/ /\ Blocks(i) = <<>>
                       /\ \A j \in DOMAIN accepted.messages[i].blocks :
                            accepted.messages[i].blocks[j].kind = "cache"
  BY DEF StaysReplaceable
<1> DEFINE acc == accepted.messages[i].blocks
           cur == Blocks(i)
           msg == accepted.messages[i]
<1>1. /\ MessageInv(acc, cur, i, touched)
      /\ request.messages[i].role = msg.role /\ request.messages[i].blocks = cur
      /\ ReplaceableMessage(msg) /\ msg.blocks = acc
      /\ \A k \in DOMAIN cur : cur[k] \in Block
  <2>1. /\ MessageInv(acc, cur, i, touched)
        /\ request.messages[i].role = msg.role /\ request.messages[i].blocks = cur
    BY DEF EditsInv, Blocks
  <2>2. ReplaceableMessage(msg)
    BY DEF EditsInv, Replaceable
  <2> QED BY <2>1, <2>2, RequestFacts
<1> HIDE DEF acc, cur, msg
<1>2. ASSUME NEW j \in DOMAIN acc, acc[j].kind = "trailing"
      PROVE  msg.role = "assistant" /\ Covered(acc) # {}
  BY <1>1, <1>2 DEF ReplaceableMessage, ReplaceableBlock, Covered
<1>3. CASE cur = <<>>
  <2>1. Covered(cur) = {} /\ ~ \E k \in DOMAIN cur : cur[k].kind \notin {"cache", "trailing"}
    BY <1>3 DEF Covered
  <2>2. Covered(acc) = {} /\ \A j \in DOMAIN acc : acc[j].kind \in {"cache", "trailing"}
    BY <1>1, <2>1 DEF MessageInv
  <2>3. \A j \in DOMAIN acc : acc[j].kind = "cache"
    BY <1>2, <2>2
  <2> QED BY <1>3, <2>3 DEF acc, cur
<1>4. CASE cur # <<>>
  <2>1. ASSUME NEW k \in DOMAIN cur, cur[k].kind = "trailing"
        PROVE  /\ msg.role = "assistant" /\ k = Len(cur)
               /\ \E l \in DOMAIN cur : cur[l].kind \in {"text", "thinking"}
    <3>1. Descends(acc, cur[k], i, touched)
      BY <1>1, <2>1 DEF MessageInv, New
    <3>2. msg.role = "assistant" /\ Covered(acc) # {}
      BY <1>2, <2>1, <3>1 DEF Descends
    <3> QED BY <1>1, <2>1, <3>2 DEF MessageInv, Legal, Covered
  <2>2. \A k \in DOMAIN cur : ReplaceableBlock(request.messages[i], k)
    BY <1>1, <2>1 DEF ReplaceableBlock
  <2> QED BY <1>1, <1>4, <2>2 DEF ReplaceableMessage
<1> QED BY <1>3, <1>4

\* However the helpers are combined, no provider token is left over content the
\* provider did not sign, exchanged, or put on a block of the plugin's own.
THEOREM HonestTokens == Spec => []TokensHonest
  BY EditsAreInv, InvHonest, PTL

\* A token is gone from content that reads as accepted only if an edit changed
\* that content on the way, or the result was marked as failed.
THEOREM CausedRemovals == Spec => []TokensGoneForCause
  BY EditsAreInv, InvGoneForCause, PTL

\* What the helpers leave is a legal replacement, but for a message of cache
\* breakpoints from which every block was deleted.
THEOREM LegalReplacements == Spec => []StaysReplaceable
  BY EditsAreInv, InvReplaceable, PTL


\* What ReplaceToolResultWithError leaves of a result: the markers in their
\* order, and one and the same text for each run of arms between them.
LEMMA WithheldFacts ==
  ASSUME NEW content \in Seq(Arm), NEW x \in Text
  PROVE  OnlyOneText(content, Withheld(content, x))
<1> DEFINE M == ArmsOf(content, "cache")
           B == Starts(content)
           P == M \cup B
           u == [k \in DOMAIN content |-> IF k \in Visible(content) THEN TextArm(x) ELSE content[k]]
           w == Kept(u, P)
           Mw == ArmsOf(w, "cache")
           n == Cardinality(P)
<1>1. Len(content) \in Nat /\ DOMAIN content = 1 .. Len(content)
  BY LenProperties
<1>2. /\ M \in SUBSET (1 .. Len(content)) /\ B \in SUBSET (1 .. Len(content))
      /\ B \subseteq Visible(content) /\ M \cap Visible(content) = {}
  BY <1>1 DEF ArmsOf, Starts, Visible
<1>3. /\ IsFiniteSet(P) /\ P \subseteq Int
      /\ M \subseteq Int /\ B \subseteq Int /\ P \subseteq DOMAIN content
  <2> HIDE DEF M, B
  <2>1. P \in SUBSET (1 .. Len(content))
    BY <1>2
  <2> QED BY <1>1, <1>2, <2>1, Places
<1>4. /\ \A k \in M : k \in DOMAIN content /\ content[k].arm = "cache" /\ u[k] = content[k]
      /\ \A k \in B : u[k] = TextArm(x)
  BY <1>2 DEF ArmsOf, Starts, Visible
<1>5. Withheld(content, x) = w
  BY DEF Withheld
<1>6. /\ DOMAIN w = 1 .. n
      /\ \A k \in 1 .. n : w[k] = u[Nth(P, k)]
      /\ \A j \in P : Rank(P, j) \in 1 .. n
  <2> HIDE DEF P, u
  <2> QED BY ZenonT(40), <1>3, KeptFacts
<1>7. /\ n \in Nat
      /\ \A k \in 1 .. n : Nth(P, k) \in P /\ Rank(P, Nth(P, k)) = k
      /\ \A j \in P : Nth(P, Rank(P, j)) = j
      /\ \A k, l \in 1 .. n : k < l => Nth(P, k) < Nth(P, l)
      /\ \A i, j \in P : i < j => Rank(P, i) < Rank(P, j)
  <2> HIDE DEF P
  <2> QED BY <1>3, RankFacts, NthFacts
<1> HIDE DEF w, u, P
<1>8. \A k \in 1 .. n : k \in Mw <=> Nth(P, k) \in M
  <2> SUFFICES ASSUME NEW k \in 1 .. n PROVE k \in Mw <=> Nth(P, k) \in M
    OBVIOUS
  <2>1. CASE Nth(P, k) \in M
    BY <1>4, <1>6, <2>1 DEF ArmsOf
  <2>2. CASE Nth(P, k) \notin M
    <3>1. Nth(P, k) \in B
      BY <1>7, <2>2 DEF P
    <3>2. w[k].arm = "text"
      BY <1>4, <1>6, <3>1 DEF TextArm
    <3> QED BY <2>2, <3>2 DEF ArmsOf
  <2> QED BY <2>1, <2>2
<1>9. Mw \subseteq 1 .. n /\ Visible(w) = (1 .. n) \ Mw
  BY <1>6 DEF ArmsOf, Visible
<1>10. \A k \in 1 .. n : k \in Visible(w) <=> Nth(P, k) \in B
  <2> SUFFICES ASSUME NEW k \in 1 .. n PROVE k \in Visible(w) <=> Nth(P, k) \in B
    OBVIOUS
  <2>1. Nth(P, k) \in M <=> Nth(P, k) \notin B
    BY <1>2, <1>7 DEF P
  <2> QED BY <1>8, <1>9, <2>1
<1> HIDE DEF Mw, M, B
<1>11. Kept(w, Mw) = Kept(content, M)
  <2> DEFINE f == [k \in Mw |-> Nth(P, k)]
  <2>1. OrderMap(f, Mw, M)
    <3>1. f \in [Mw -> M]
      BY <1>8, <1>9
    <3>2. \A i, j \in Mw : i < j => f[i] < f[j]
      BY <1>7, <1>9
    <3>3. \A t \in M : \E j \in Mw : f[j] = t
      <4> SUFFICES ASSUME NEW t \in M PROVE \E j \in Mw : f[j] = t
        OBVIOUS
      <4>1. t \in P
        BY DEF P
      <4>2. Rank(P, t) \in 1 .. n /\ Nth(P, Rank(P, t)) = t
        BY <1>6, <1>7, <4>1
      <4>3. Rank(P, t) \in Mw
        BY <1>8, <4>2
      <4> QED BY <4>2, <4>3
    <3> HIDE DEF f
    <3> QED BY <3>1, <3>2, <3>3 DEF OrderMap
  <2>2. \A j \in Mw : w[j] = content[f[j]]
    BY <1>4, <1>6, <1>8, <1>9
  <2>3. IsFiniteSet(Mw) /\ Mw \subseteq Int
    BY <1>7, <1>9, Places
  <2>4. M \subseteq Int
    BY <1>3
  <2> HIDE DEF f
  <2>5. Agree(f, Mw, M, w, content)
    BY <2>1, <2>2, <2>3, <2>4 DEF Agree
  <2> QED BY <2>5, KeptSame
<1>12. \A k \in Visible(w) : w[k] = TextArm(x)
  BY <1>4, <1>6, <1>9, <1>10
<1>13. Cardinality(Visible(w)) = Cardinality(B)
  <2> DEFINE V == Visible(w)
             f == [k \in V |-> Nth(P, k)]
  <2>1. V \in SUBSET (1 .. n)
    BY <1>9
  <2>2. OrderMap(f, V, B)
    <3>1. f \in [V -> B]
      BY <1>10, <2>1
    <3>2. \A i, j \in V : i < j => f[i] < f[j]
      BY <1>7, <2>1
    <3>3. \A t \in B : \E j \in V : f[j] = t
      <4> SUFFICES ASSUME NEW t \in B PROVE \E j \in V : f[j] = t
        OBVIOUS
      <4>1. t \in P
        BY DEF P
      <4>2. Rank(P, t) \in 1 .. n /\ Nth(P, Rank(P, t)) = t
        BY <1>6, <1>7, <4>1
      <4>3. Rank(P, t) \in V
        BY <1>10, <4>2
      <4> QED BY <4>2, <4>3
    <3> HIDE DEF f
    <3> QED BY <3>1, <3>2, <3>3 DEF OrderMap
  <2> HIDE DEF f, V
  <2>3. IsFiniteSet(V) /\ V \subseteq Int
    BY <1>7, <2>1, Places
  <2>4. Cardinality(V) = Cardinality(B)
    BY <1>3, <2>2, <2>3, SameOrder
  <2> QED BY <2>4 DEF V
<1>14. ASSUME NEW k \in Visible(w) PROVE k - 1 \notin Visible(w)
  <2> SUFFICES ASSUME k - 1 \in Visible(w) PROVE FALSE
    OBVIOUS
  <2> DEFINE p == Nth(P, k - 1)
             q == Nth(P, k)
  <2>1. k \in 1 .. n /\ k - 1 \in 1 .. n /\ k - 1 < k
    BY <1>7, <1>9
  <2>2. /\ p \in B /\ q \in B /\ p < q /\ Rank(P, p) = k - 1 /\ Rank(P, q) = k
        /\ p \in P /\ q \in P
    BY <1>7, <1>10, <2>1
  <2> HIDE DEF p, q
  <2>3. q - 1 \in DOMAIN content /\ q - 1 # p => q - 1 \in M
    BY <2>2 DEF B, M, Starts, Visible
  <2>4. p \in DOMAIN content /\ q \in DOMAIN content
    BY <1>3, <2>2
  <2>5. q - 1 # p
    BY <1>2, <2>2 DEF B, Starts
  <2>6. q - 1 \in M
    BY <1>1, <2>2, <2>3, <2>4, <2>5
  <2>7. q - 1 \in P /\ p < q - 1 /\ q - 1 < q
    BY <1>1, <2>2, <2>4, <2>5, <2>6 DEF P
  <2>8. Rank(P, p) < Rank(P, q - 1) /\ Rank(P, q - 1) < Rank(P, q) /\ Rank(P, q - 1) \in 1 .. n
    BY <1>6, <1>7, <2>2, <2>7
  <2> QED BY <1>7, <2>1, <2>2, <2>8
<1>15. Starts(w) = Visible(w)
  BY <1>14 DEF Starts
<1>16. OnlyOneText(content, w)
  BY <1>11, <1>12, <1>13, <1>15 DEF OnlyOneText, Mw, M, B
<1> QED BY <1>5, <1>16

\* An edit that marks no result as failed leaves the flag where a block of the
\* same origin stays in its place.
LEMMA QuietLeavesFlags ==
  ASSUME NEW acc, NEW cur, NEW new, NEW i, NEW T, NEW U,
         MessageInv(acc, cur, i, T), MessageInv(acc, new, i, U), EditedQuietly(cur, new),
         NEW j \in DOMAIN cur, j \in DOMAIN new, new[j].origin = cur[j].origin
  PROVE  new[j].is_error = cur[j].is_error
<1>1. PICK g : Edits(g, cur, new) /\ Quiet(g, cur, new)
  BY DEF EditedQuietly
<1>2. /\ cur \in Seq(Block) /\ new \in Seq(Block)
      /\ DOMAIN cur = 1 .. Len(cur) /\ Len(cur) \in Nat /\ 0 \notin DOMAIN acc
      /\ cur[j] \in Block /\ new[j] \in Block
  <2>1. cur \in Seq(Block) /\ new \in Seq(Block) /\ acc \in Seq(Block)
    BY DEF MessageInv, Legal
  <2> QED BY <2>1, LenProperties, ElementOfSeq
<1>3. CASE cur[j].origin = 0
  <2>1. New(cur[j]) /\ New(new[j])
    <3>1. ~Descends(acc, cur[j], i, T) /\ ~Descends(acc, new[j], i, U)
      BY <1>2, <1>3 DEF Descends
    <3> QED BY <3>1 DEF MessageInv
  <2>2. cur[j].is_error = None /\ new[j].is_error = None
    BY <1>2, <2>1, BlockFields DEF New
  <2> QED BY <2>2
<1>4. CASE cur[j].origin # 0
  <2>1. g[j] \in DOMAIN cur /\ cur[g[j]].origin = cur[j].origin /\ g[j] # 0
    BY <1>1, <1>2, <1>4 DEF Edits, New, Turned
  <2>2. \A k, l \in DOMAIN cur :
          k < l /\ cur[k].origin # 0 /\ cur[l].origin # 0 => cur[k].origin < cur[l].origin
    BY DEF MessageInv
  <2>3. g[j] = j
    <3>1. cur[j].origin \in Nat
      BY <1>2, BlockFields
    <3>2. ~(g[j] < j) /\ ~(j < g[j])
      BY <1>4, <2>1, <2>2, <3>1
    <3>3. g[j] \in Int /\ j \in Int
      BY <1>2, <2>1
    <3> QED BY <3>2, <3>3
  <2> QED BY <1>1, <2>1, <2>3 DEF Quiet
<1> QED BY <1>3, <1>4

\* Every step leaves a result it marks as failed with one text only.
LEMMA StepGuards ==
  ASSUME EditsInv, EditsInv', [Next]_vars,
         NEW i \in DOMAIN request.messages, NEW j \in DOMAIN Blocks(i),
         j \in DOMAIN request'.messages[i].blocks,
         request'.messages[i].blocks[j].origin = Blocks(i)[j].origin,
         request'.messages[i].blocks[j].is_error # Blocks(i)[j].is_error
  PROVE  OnlyOneText(Blocks(i)[j].body, request'.messages[i].blocks[j].body)
<1> DEFINE cur == Blocks(i)
           nxt == request'.messages[i].blocks
<1>1. ~LeavesMessages
  BY DEF LeavesMessages, Blocks
<1>2. PICK h \in DOMAIN request.messages : Rewrites(h)
  BY <1>1, NextRewrites
<1>3. PICK new :
        /\ Apply(h, new) /\ Edited(Blocks(h), new)
        /\ \/ EditedQuietly(Blocks(h), new)
           \/ \E k \in DOMAIN Blocks(h), t \in Text :
                /\ Blocks(h)[k].kind = "tool_result"
                /\ new = [Blocks(h) EXCEPT ![k] = FailedWith(@, t)]
  BY <1>2 DEF Rewrites
<1>4. /\ request'.messages[h].blocks = new
      /\ i # h => request'.messages[i] = request.messages[i]
      /\ UNCHANGED accepted
      /\ DOMAIN request'.messages = DOMAIN request.messages
  <2>1. Legal(new)
    BY <1>3 DEF Edited, Keeps
  <2> QED BY <1>3, <2>1, ApplyFacts
<1>5. i = h
  BY <1>4 DEF Blocks
<1>6. ~EditedQuietly(cur, nxt)
  <2>1. MessageInv(accepted.messages[i].blocks, cur, i, touched)
    BY DEF EditsInv, Blocks
  <2>2. MessageInv(accepted.messages[i].blocks, nxt, i, touched')
    BY <1>4 DEF EditsInv
  <2> HIDE DEF cur, nxt
  <2>3. j \in DOMAIN cur /\ j \in DOMAIN nxt /\ nxt[j].origin = cur[j].origin
    BY DEF cur, nxt
  <2>4. EditedQuietly(cur, nxt) => nxt[j].is_error = cur[j].is_error
    BY <2>1, <2>2, <2>3, QuietLeavesFlags
  <2> QED BY <2>4 DEF cur, nxt
<1>7. PICK k \in DOMAIN cur, t \in Text :
        cur[k].kind = "tool_result" /\ nxt = [cur EXCEPT ![k] = FailedWith(@, t)]
  BY <1>3, <1>4, <1>5, <1>6
<1>8. cur[k] \in Block /\ nxt[k] = FailedWith(cur[k], t) /\ (j # k => nxt[j] = cur[j])
  BY <1>7, RequestFacts
<1>9. j = k
  BY <1>8
<1>10. nxt[j].body = Withheld(cur[j].body, t) /\ cur[j].body \in Seq(Arm)
  <2>1. FailedWith(cur[k], t).body = Withheld(cur[k].body, t)
    BY <1>7, <1>8, FailedTurns
  <2>2. cur[k].body \in Seq(Arm)
    BY <1>7, <1>8, BlockFields
  <2> QED BY <1>8, <1>9, <2>1, <2>2
<1>11. OnlyOneText(cur[j].body, Withheld(cur[j].body, t))
  BY <1>10, WithheldFacts
<1> QED BY <1>10, <1>11

\* When a result is marked as failed no withheld content survives in it.
THEOREM GuardedResults == Spec => GuardedResult
<1> DEFINE Guarded ==
      \A i \in DOMAIN request.messages : \A j \in DOMAIN Blocks(i) :
        LET new == request'.messages[i].blocks
        IN j \in DOMAIN new /\ new[j].origin = Blocks(i)[j].origin
             /\ new[j].is_error # Blocks(i)[j].is_error
           => OnlyOneText(Blocks(i)[j].body, new[j].body)
<1>1. EditsInv /\ EditsInv' /\ [Next]_vars => Guarded
  BY StepGuards
<1>2. Spec => [][Guarded]_vars
  <2> HIDE DEF Guarded
  <2> QED BY <1>1, EditsAreInv, PTL DEF Spec
<1> QED BY <1>2 DEF GuardedResult

-----------------------------------------------------------------------------
\* The observable prefix.

\* Where a request has a site.
Site(req, i, j, k) ==
  \/ i = 0 /\ j \in DOMAIN req.tools /\ k = 0
  \/ i \in DOMAIN req.messages /\ j = 0 /\ k = 0
  \/ /\ i \in DOMAIN req.messages /\ j \in DOMAIN req.messages[i].blocks
     /\ k \in Arms(req.messages[i].blocks[j])

\* The sites are those.
LEMMA SitesAre ==
  ASSUME NEW req
  PROVE  /\ \A i, j, k : <<i, j, k>> \in Sites(req) <=> Site(req, i, j, k)
         /\ \A p \in Sites(req) : p = <<p[1], p[2], p[3]>>
<1>1. \A p : p \in Sites(req) <=>
        \/ \E j \in DOMAIN req.tools : p = <<0, j, 0>>
        \/ \E i \in DOMAIN req.messages : p = <<i, 0, 0>>
        \/ \E i \in DOMAIN req.messages : \E j \in DOMAIN req.messages[i].blocks :
             \E k \in Arms(req.messages[i].blocks[j]) : p = <<i, j, k>>
  BY DEF Sites
<1>2. ASSUME NEW i, NEW j, NEW k PROVE <<i, j, k>> \in Sites(req) <=> Site(req, i, j, k)
  BY <1>1 DEF Site
<1>3. \A p \in Sites(req) : p = <<p[1], p[2], p[3]>>
  BY <1>1
<1> QED BY <1>2, <1>3

\* A site is of a tool, of a role, of a block or of an arm, and of one of these.
LEMMA SiteCases ==
  ASSUME NEW req \in RequestType, NEW i, NEW j, NEW k, Site(req, i, j, k)
  PROVE  /\ i \in Nat /\ j \in Nat /\ k \in Nat
         /\ \/ i = 0 /\ j \in DOMAIN req.tools /\ k = 0
            \/ i # 0 /\ i \in DOMAIN req.messages /\ j = 0 /\ k = 0 /\ 0 \notin DOMAIN req.messages[i].blocks
            \/ /\ i # 0 /\ i \in DOMAIN req.messages /\ j # 0 /\ j \in DOMAIN req.messages[i].blocks
               /\ req.messages[i].blocks[j] \in Block
               /\ \/ k = 0
                  \/ /\ k > 0 /\ req.messages[i].blocks[j].kind = "tool_result"
                     /\ k \in DOMAIN req.messages[i].blocks[j].body
                     /\ req.messages[i].blocks[j].body[k] \in Arm
<1>1. /\ Len(req.messages) \in Nat /\ Len(req.tools) \in Nat
      /\ DOMAIN req.messages = 1 .. Len(req.messages)
      /\ DOMAIN req.tools = 1 .. Len(req.tools)
  BY CarrierBounds
<1>2. CASE i = 0 /\ j \in DOMAIN req.tools /\ k = 0
  BY <1>1, <1>2
<1>3. ASSUME i \in DOMAIN req.messages
      PROVE  /\ i # 0 /\ i \in Nat /\ 0 \notin DOMAIN req.messages[i].blocks
             /\ \A l \in DOMAIN req.messages[i].blocks : l # 0 /\ l \in Nat /\ req.messages[i].blocks[l] \in Block
  <2>1. /\ Len(req.messages[i].blocks) \in Nat
        /\ DOMAIN req.messages[i].blocks = 1 .. Len(req.messages[i].blocks)
        /\ \A l \in DOMAIN req.messages[i].blocks : req.messages[i].blocks[l] \in Block
    BY <1>3, CarrierBounds
  <2> QED BY <1>1, <1>3, <2>1
<1>4. CASE i \in DOMAIN req.messages /\ j = 0 /\ k = 0
  BY <1>3, <1>4
<1>5. CASE /\ i \in DOMAIN req.messages /\ j \in DOMAIN req.messages[i].blocks
           /\ k \in Arms(req.messages[i].blocks[j])
  <2> DEFINE b == req.messages[i].blocks[j]
  <2>1. b \in Block /\ i # 0 /\ j # 0 /\ i \in Nat /\ j \in Nat /\ k \in Arms(b)
    BY <1>3, <1>5
  <2> HIDE DEF b
  <2>2. \/ k = 0
        \/ k \in Nat /\ k > 0 /\ b.kind = "tool_result" /\ k \in DOMAIN b.body /\ b.body[k] \in Arm
    <3>1. CASE b.kind = "tool_result"
      <4>1. b.body \in Seq(Arm)
        BY <2>1, <3>1, BlockFields
      <4>2. Len(b.body) \in Nat /\ DOMAIN b.body = 1 .. Len(b.body) /\ k \in 0 .. Len(b.body)
        BY <2>1, <3>1, <4>1, LenProperties DEF Arms
      <4>3. k = 0 \/ k \in 1 .. Len(b.body)
        BY <4>2
      <4> QED BY <3>1, <4>1, <4>2, <4>3, ElementOfSeq
    <3>2. CASE b.kind # "tool_result"
      BY <2>1, <3>2 DEF Arms
    <3> QED BY <3>1, <3>2
  <2> QED BY <1>5, <2>1, <2>2 DEF b
<1> QED BY <1>2, <1>4, <1>5 DEF Site

\* Where a block, and a request, carries a marker.
MarkedBlock(b, k) ==
  \/ b.kind = "cache" /\ k = 0
  \/ b.kind = "tool_result" /\ k \in DOMAIN b.body /\ b.body[k].arm = "cache"

Marked(req, i, j, k) ==
  \/ i = 0 /\ j \in DOMAIN req.tools /\ req.tools[j] # None /\ k = 0
  \/ /\ i \in DOMAIN req.messages /\ j \in DOMAIN req.messages[i].blocks
     /\ MarkedBlock(req.messages[i].blocks[j], k)

\* The positions of markers are those.
LEMMA PositionsAre ==
  ASSUME NEW req, NEW i, NEW j, NEW k
  PROVE  [msg |-> i, block |-> j, arm |-> k] \in MarkerPositions(req) <=> Marked(req, i, j, k)
<1> DEFINE c == [msg |-> i, block |-> j, arm |-> k]
<1>1. c.msg = i /\ c.block = j /\ c.arm = k
  OBVIOUS
<1>2. \A l, m, n : c = [msg |-> l, block |-> m, arm |-> n] <=> i = l /\ j = m /\ k = n
  <2>1. ASSUME NEW l, NEW m, NEW n, c = [msg |-> l, block |-> m, arm |-> n] PROVE i = l /\ j = m /\ k = n
    BY <1>1, <2>1
  <2> QED BY <2>1
<1> HIDE DEF c
<1>3. c \in ToolMarkers(req.tools) <=> i = 0 /\ j \in DOMAIN req.tools /\ req.tools[j] # None /\ k = 0
  BY <1>2 DEF ToolMarkers
<1>4. ASSUME NEW l, NEW m, NEW b
      PROVE  c \in BlockMarkers(l, m, b) <=> i = l /\ j = m /\ MarkedBlock(b, k)
  <2> DEFINE K == IF b.kind = "cache" THEN {0}
                  ELSE IF b.kind = "tool_result" THEN {n \in DOMAIN b.body : b.body[n].arm = "cache"}
                  ELSE {}
  <2>1. c \in BlockMarkers(l, m, b) <=> \E n \in K : c = [msg |-> l, block |-> m, arm |-> n]
    BY DEF BlockMarkers
  <2>2. k \in K <=> MarkedBlock(b, k)
    BY DEF MarkedBlock
  <2> HIDE DEF K
  <2> QED BY <1>2, <2>1, <2>2
<1>5. c \in MarkerPositions(req) <=>
        \/ c \in ToolMarkers(req.tools)
        \/ \E l \in DOMAIN req.messages : \E m \in DOMAIN req.messages[l].blocks :
             c \in BlockMarkers(l, m, req.messages[l].blocks[m])
  BY DEF MarkerPositions
<1>6. CASE c \in ToolMarkers(req.tools)
  BY <1>3, <1>5, <1>6 DEF Marked, c
<1>7. CASE c \notin ToolMarkers(req.tools)
  <2>1. c \in MarkerPositions(req) <=>
          /\ i \in DOMAIN req.messages /\ j \in DOMAIN req.messages[i].blocks
          /\ c \in BlockMarkers(i, j, req.messages[i].blocks[j])
    BY <1>4, <1>5, <1>7
  <2>2. c \in MarkerPositions(req) <=> Marked(req, i, j, k)
    BY <1>3, <1>4, <1>7, <2>1 DEF Marked
  <2> QED BY <2>2 DEF c
<1> QED BY <1>6, <1>7

\* The provider reads a marker at the sites that carry one, and at no other.
LEMMA MarkedAtoms ==
  ASSUME NEW req \in RequestType, NEW i, NEW j, NEW k
  PROVE  /\ <<i, j, k>> \in MarkerAtoms(Atoms(req)) <=> Marked(req, i, j, k)
         /\ Marked(req, i, j, k) => Site(req, i, j, k)
<1> DEFINE a == AtomAt(req, i, j, k)
           b == req.messages[i].blocks[j]
<1>1. <<i, j, k>> \in MarkerAtoms(Atoms(req))
        <=> Site(req, i, j, k) /\ a[1] \in {"tool", "cache"} /\ a[2] # None
  <2>1. DOMAIN Atoms(req) = Sites(req)
    BY DEF Atoms
  <2>2. <<i, j, k>> \in Sites(req) => Atoms(req)[<<i, j, k>>] = a
    BY DEF Atoms
  <2>3. <<i, j, k>> \in Sites(req) <=> Site(req, i, j, k)
    BY SitesAre
  <2> HIDE DEF a
  <2> QED BY <2>1, <2>2, <2>3 DEF MarkerAtoms
<1>2. ASSUME Marked(req, i, j, k) PROVE Site(req, i, j, k)
  <2>1. CASE i = 0 /\ j \in DOMAIN req.tools /\ k = 0
    BY <2>1 DEF Site
  <2>2. CASE ~ (i = 0 /\ j \in DOMAIN req.tools /\ k = 0)
    <3>1. /\ i \in DOMAIN req.messages /\ j \in DOMAIN req.messages[i].blocks
          /\ MarkedBlock(b, k)
      BY <1>2, <2>2 DEF Marked
    <3>2. b.kind = "tool_result" => Len(b.body) \in Nat /\ DOMAIN b.body = 1 .. Len(b.body)
      BY <3>1, CarrierBounds
    <3>3. k \in Arms(b)
      <4> HIDE DEF b
      <4>1. CASE b.kind = "cache" /\ k = 0
        BY <4>1 DEF Arms
      <4>2. CASE b.kind = "tool_result" /\ k \in DOMAIN b.body
        BY <3>2, <4>2 DEF Arms
      <4> QED BY <3>1, <4>1, <4>2 DEF MarkedBlock
    <3> QED BY <3>1, <3>3 DEF Site
  <2> QED BY <2>1, <2>2
<1>3. ASSUME Site(req, i, j, k)
      PROVE  a[1] \in {"tool", "cache"} /\ a[2] # None <=> Marked(req, i, j, k)
  <2>1. 0 \notin DOMAIN req.messages
    BY CarrierBounds
  <2>2. CASE i = 0 /\ j \in DOMAIN req.tools /\ k = 0
    <3>1. a = <<"tool", req.tools[j]>>
      BY <2>2 DEF AtomAt
    <3>2. Marked(req, i, j, k) <=> req.tools[j] # None
      BY <2>1, <2>2 DEF Marked
    <3> HIDE DEF a
    <3> QED BY <3>1, <3>2
  <2>3. CASE i # 0 /\ i \in DOMAIN req.messages /\ j = 0 /\ k = 0 /\ 0 \notin DOMAIN req.messages[i].blocks
    <3>1. a = <<"role", req.messages[i].role>>
      BY <2>3 DEF AtomAt
    <3>2. ~ Marked(req, i, j, k)
      BY <2>3 DEF Marked
    <3> HIDE DEF a
    <3> QED BY <3>1, <3>2
  <2>4. ASSUME i # 0, i \in DOMAIN req.messages, j # 0, j \in DOMAIN req.messages[i].blocks, b \in Block,
               k = 0 \/ (k > 0 /\ b.kind = "tool_result" /\ k \in DOMAIN b.body /\ b.body[k] \in Arm)
        PROVE  a[1] \in {"tool", "cache"} /\ a[2] # None <=> Marked(req, i, j, k)
    <3>1. a = AtomOf(b, k)
      BY <2>4 DEF AtomAt
    <3>2. Marked(req, i, j, k) <=> MarkedBlock(b, k)
      BY <2>4 DEF Marked
    <3>3. /\ b.kind \in {"text", "thinking", "tool_use", "tool_result", "cache", "other", "trailing"}
          /\ b.kind = "cache" => b.body # None
      <4>1. b.kind = "cache" => b.body \in Marker
        <5> HIDE DEF b
        <5> QED BY <2>4, BlockOfKind DEF Fields
      <4> QED BY <2>4, <4>1, BlockFields, NoneAssumption
    <3>4. b.kind = "tool_result" => 0 \notin DOMAIN b.body
      BY <2>4, CarrierBounds
    <3> HIDE DEF a, b
    <3>5. CASE k = 0
      <4>1. CASE b.kind = "tool_result"
        <5>1. a = <<"tool_result", None>>
          BY <3>1, <3>5, <4>1 DEF AtomOf
        <5> QED BY <3>2, <3>4, <3>5, <4>1, <5>1 DEF MarkedBlock
      <4>2. CASE b.kind # "tool_result"
        <5>1. a = <<b.kind, b.body>>
          BY <3>1, <3>5, <4>2 DEF AtomOf
        <5> QED BY <3>2, <3>3, <3>5, <4>2, <5>1 DEF MarkedBlock
      <4> QED BY <4>1, <4>2
    <3>6. CASE k > 0 /\ b.kind = "tool_result" /\ k \in DOMAIN b.body /\ b.body[k] \in Arm
      <4>1. a = <<b.body[k].arm, b.body[k].body>>
        BY <3>1, <3>6 DEF AtomOf
      <4>2. b.body[k].arm \in {"text", "unknown", "cache"} /\ (b.body[k].arm = "cache" => b.body[k].body \in Marker)
        BY <3>6 DEF Arm
      <4>3. Marked(req, i, j, k) <=> b.body[k].arm = "cache"
        BY <3>2, <3>6 DEF MarkedBlock
      <4>4. a[1] = b.body[k].arm /\ a[2] = b.body[k].body
        BY <4>1
      <4> QED BY <4>2, <4>3, <4>4, NoneAssumption
    <3> QED BY <2>4, <3>5, <3>6
  <2> QED
    <3> HIDE DEF a
    <3> QED BY <1>3, <2>2, <2>3, <2>4, SiteCases
<1> QED
  <2> HIDE DEF a
  <2> QED BY <1>1, <1>2, <1>3

\* Among sites the order of serialisation is that of the carriers.
LEMMA BeforeIs ==
  ASSUME NEW i \in Int, NEW j \in Int, NEW k \in Int, NEW l \in Int, NEW m \in Int, NEW n \in Int
  PROVE  Before(<<i, j, k>>, <<l, m, n>>) <=> i < l \/ (i = l /\ j < m) \/ (i = l /\ j = m /\ k < n)
<1> DEFINE c == <<i, j, k>>
           d == <<l, m, n>>
<1>1. c[1] = i /\ c[2] = j /\ c[3] = k /\ d[1] = l /\ d[2] = m /\ d[3] = n
  OBVIOUS
<1> HIDE DEF c, d
<1>2. Before(c, d) <=>
        \/ c[1] < d[1] /\ \A h \in 1 .. 0 : c[h] = d[h]
        \/ c[2] < d[2] /\ \A h \in 1 .. 1 : c[h] = d[h]
        \/ c[3] < d[3] /\ \A h \in 1 .. 2 : c[h] = d[h]
  <2>1. 1 .. 3 = {1, 2, 3} /\ 1 - 1 = 0 /\ 2 - 1 = 1 /\ 3 - 1 = 2
    OBVIOUS
  <2>2. Before(c, d) <=> \E h \in {1, 2, 3} : c[h] < d[h] /\ \A g \in 1 .. h - 1 : c[g] = d[g]
    BY <2>1 DEF Before
  <2> QED BY <2>1, <2>2
<1>3. /\ \A h \in 1 .. 0 : c[h] = d[h]
      /\ (\A h \in 1 .. 1 : c[h] = d[h]) <=> c[1] = d[1]
      /\ (\A h \in 1 .. 2 : c[h] = d[h]) <=> c[1] = d[1] /\ c[2] = d[2]
  <2>1. 1 .. 0 = {} /\ 1 .. 1 = {1} /\ 1 .. 2 = {1, 2}
    OBVIOUS
  <2> QED BY <2>1
<1>4. Before(c, d) <=> i < l \/ (i = l /\ j < m) \/ (i = l /\ j = m /\ k < n)
  BY <1>1, <1>2, <1>3
<1> QED BY <1>4 DEF c, d

\* A site is not behind <<l, m, n>>.
UpTo(i, j, k, l, m, n) == i < l \/ (i = l /\ j < m) \/ (i = l /\ j = m /\ k <= n)

\* The last carrier closes what is at or before some marker.
LEMMA LastCloses ==
  ASSUME NEW req \in RequestType, HasMarker(req), NEW l, NEW m, NEW n,
         l = LastCacheMarker(req).msg, m = LastCacheMarker(req).block, n = LastCacheMarker(req).arm
  PROVE  /\ Marked(req, l, m, n)
         /\ \A i, j, k : Marked(req, i, j, k) => UpTo(i, j, k, l, m, n)
         /\ \A i, j, k : Site(req, i, j, k) =>
              ((\E d \in MarkerAtoms(Atoms(req)) : <<i, j, k>> = d \/ Before(<<i, j, k>>, d))
                 <=> UpTo(i, j, k, l, m, n))
<1> DEFINE at == LastCacheMarker(req)
<1>1. /\ at \in MarkerPositions(req)
      /\ \A d \in MarkerPositions(req) \ {at} : Precedes(d, at)
      /\ at = [msg |-> at.msg, block |-> at.block, arm |-> at.arm]
  BY LastIsThere, PositionsAreCarriers
<1> HIDE DEF at
<1>2. at = [msg |-> l, block |-> m, arm |-> n] /\ Marked(req, l, m, n)
  BY <1>1, PositionsAre DEF at
<1>3. \A i, j, k : Site(req, i, j, k) => i \in Nat /\ j \in Nat /\ k \in Nat
  BY SiteCases
<1>4. \A i, j, k : Marked(req, i, j, k) => Site(req, i, j, k)
  BY MarkedAtoms
<1>5. l \in Nat /\ m \in Nat /\ n \in Nat
  BY <1>2, <1>3, <1>4
<1>6. ASSUME NEW i, NEW j, NEW k, Marked(req, i, j, k) PROVE UpTo(i, j, k, l, m, n)
  <2> DEFINE c == [msg |-> i, block |-> j, arm |-> k]
  <2>1. c \in MarkerPositions(req) /\ i \in Nat /\ j \in Nat /\ k \in Nat
    BY <1>3, <1>4, <1>6, PositionsAre
  <2>2. c = at \/ Precedes(c, at)
    BY <1>1, <2>1
  <2>3. c.msg = i /\ c.block = j /\ c.arm = k /\ at.msg = l /\ at.block = m /\ at.arm = n
    BY DEF at
  <2> HIDE DEF c
  <2> QED BY <1>5, <2>1, <2>2, <2>3 DEF Precedes, UpTo
<1>7. ASSUME NEW i, NEW j, NEW k, Site(req, i, j, k)
      PROVE  (\E d \in MarkerAtoms(Atoms(req)) : <<i, j, k>> = d \/ Before(<<i, j, k>>, d))
               <=> UpTo(i, j, k, l, m, n)
  <2>1. i \in Nat /\ j \in Nat /\ k \in Nat
    BY <1>3, <1>7
  <2>2. ASSUME NEW d \in MarkerAtoms(Atoms(req)), <<i, j, k>> = d \/ Before(<<i, j, k>>, d)
        PROVE  UpTo(i, j, k, l, m, n)
    <3>1. d = <<d[1], d[2], d[3]>>
      <4>1. d \in Sites(req)
        BY DEF MarkerAtoms, Atoms
      <4> QED BY <4>1, SitesAre
    <3> DEFINE x == d[1]
               y == d[2]
               z == d[3]
    <3>2. Marked(req, x, y, z)
      BY <3>1, MarkedAtoms
    <3>3. x \in Nat /\ y \in Nat /\ z \in Nat /\ UpTo(x, y, z, l, m, n)
      BY <1>3, <1>4, <1>6, <3>2
    <3>4. (i = x /\ j = y /\ k = z) \/ Before(<<i, j, k>>, <<x, y, z>>)
      <4>1. CASE <<i, j, k>> = d
        BY <4>1
      <4>2. CASE Before(<<i, j, k>>, d)
        BY <3>1, <4>2
      <4> QED BY <2>2, <4>1, <4>2
    <3> HIDE DEF x, y, z
    <3>5. UpTo(i, j, k, x, y, z)
      BY <2>1, <3>3, <3>4, BeforeIs DEF UpTo
    <3> QED BY <1>5, <2>1, <3>3, <3>5 DEF UpTo
  <2>3. ASSUME UpTo(i, j, k, l, m, n)
        PROVE  \E d \in MarkerAtoms(Atoms(req)) : <<i, j, k>> = d \/ Before(<<i, j, k>>, d)
    <3>1. <<l, m, n>> \in MarkerAtoms(Atoms(req))
      BY <1>2, MarkedAtoms
    <3>2. (i = l /\ j = m /\ k = n) \/ Before(<<i, j, k>>, <<l, m, n>>)
      BY SMTT(30), <1>5, <2>1, <2>3, BeforeIs DEF UpTo
    <3> QED BY <3>1, <3>2
  <2> QED BY <2>2, <2>3
<1> QED BY <1>2, <1>6, <1>7

\* Without a marker no atom is one.
LEMMA NoMarkerAtoms ==
  ASSUME NEW req \in RequestType
  PROVE  HasMarker(req) <=> MarkerAtoms(Atoms(req)) # {}
<1>1. ASSUME NEW d \in MarkerAtoms(Atoms(req)) PROVE HasMarker(req)
  <2>1. d \in Sites(req)
    BY DEF MarkerAtoms, Atoms
  <2>2. d = <<d[1], d[2], d[3]>>
    BY <2>1, SitesAre
  <2>3. Marked(req, d[1], d[2], d[3])
    BY <2>2, MarkedAtoms
  <2>4. [msg |-> d[1], block |-> d[2], arm |-> d[3]] \in MarkerPositions(req)
    BY <2>3, PositionsAre
  <2> QED BY <2>4 DEF HasMarker
<1>2. ASSUME HasMarker(req) PROVE MarkerAtoms(Atoms(req)) # {}
  <2>1. PICK l, m, n : Marked(req, l, m, n)
    BY <1>2, LastCloses
  <2>2. <<l, m, n>> \in MarkerAtoms(Atoms(req))
    BY <2>1, MarkedAtoms
  <2> QED BY <2>2
<1> QED BY <1>1, <1>2

\* The first q elements of a sequence.
LEMMA FirstOnes ==
  ASSUME NEW S, NEW s \in Seq(S), NEW q \in 0 .. Len(s)
  PROVE  /\ SubSeq(s, 1, q) \in Seq(S) /\ Len(SubSeq(s, 1, q)) = q
         /\ DOMAIN SubSeq(s, 1, q) = 1 .. q
         /\ \A i \in 1 .. q : SubSeq(s, 1, q)[i] = s[i]
<1>1. Len(s) \in Nat /\ q \in Int
  BY LenProperties
<1>2. \A i \in 1 .. q : s[i] \in S
  <2>1. \A i \in 1 .. q : i \in 1 .. Len(s)
    BY <1>1
  <2> QED BY <2>1, ElementOfSeq
<1>3. /\ SubSeq(s, 1, q) \in Seq(S)
      /\ Len(SubSeq(s, 1, q)) = IF 1 <= q THEN q - 1 + 1 ELSE 0
      /\ \A i \in 1 .. q - 1 + 1 : SubSeq(s, 1, q)[i] = s[1 + i - 1]
  BY <1>1, <1>2, SubSeqProperties
<1>4. Len(SubSeq(s, 1, q)) = q
  BY <1>1, <1>3
<1>5. \A i \in 1 .. q : SubSeq(s, 1, q)[i] = s[i]
  BY <1>1, <1>3
<1> QED BY <1>3, <1>4, <1>5, LenProperties

\* A block cut behind arm n, when n is one, and the blocks before it.
LEMMA TruncatedMessage ==
  ASSUME NEW msg \in Message, NEW q \in DOMAIN msg.blocks, NEW n, MarkedBlock(msg.blocks[q], n),
         NEW t, t = TruncateMessage(msg, q, n)
  PROVE  /\ t.role = msg.role
         /\ DOMAIN t.blocks = 1 .. q
         /\ \A j \in 1 .. q - 1 : t.blocks[j] = msg.blocks[j]
         /\ t.blocks[q].kind = msg.blocks[q].kind
         /\ n = 0 => t.blocks[q] = msg.blocks[q]
         /\ n # 0 => /\ Len(t.blocks[q].body) = n
                     /\ \A k \in 1 .. n : t.blocks[q].body[k] = msg.blocks[q].body[k]
<1> DEFINE s == msg.blocks
           kept == SubSeq(s, 1, q)
           b == s[q]
<1>1. s \in Seq(Block) /\ q \in 1 .. Len(s) /\ Len(s) \in Nat
  <2>1. s \in Seq(Block)
    BY DEF Message
  <2> QED BY <2>1, LenProperties
<1>2. /\ kept \in Seq(Block) /\ Len(kept) = q /\ DOMAIN kept = 1 .. q
      /\ \A i \in 1 .. q : kept[i] = s[i]
  <2>1. q \in 0 .. Len(s)
    BY <1>1
  <2> HIDE DEF s
  <2> QED BY <1>1, <2>1, FirstOnes
<1>3. b \in Block
  BY <1>1, ElementOfSeq
<1>4. CASE n = 0
  <2>1. t = [msg EXCEPT !.blocks = kept]
    BY <1>4 DEF TruncateMessage
  <2>2. t.role = msg.role /\ t.blocks = kept
    BY <2>1 DEF Message
  <2>3. \A j \in 1 .. q - 1 : j \in 1 .. q
    BY <1>1
  <2> HIDE DEF kept
  <2>4. kept[q] = s[q]
    BY <1>1, <1>2
  <2> QED BY <1>2, <1>4, <2>2, <2>3, <2>4
<1>5. CASE n # 0
  <2> DEFINE cut == SubSeq(b.body, 1, n)
             c == [b EXCEPT !.body = cut]
             new == [kept EXCEPT ![q].body = SubSeq(@, 1, n)]
  <2>1. b.kind = "tool_result" /\ n \in DOMAIN b.body
    BY <1>5 DEF MarkedBlock
  <2>2. b.body \in Seq(Arm)
    BY <1>3, <2>1, BlockFields
  <2>3. n \in 0 .. Len(b.body) /\ n \in Nat
    BY <2>1, <2>2, LenProperties
  <2>4. Len(cut) = n /\ \A k \in 1 .. n : cut[k] = b.body[k]
    <3> HIDE DEF b
    <3> QED BY <2>2, <2>3, FirstOnes
  <2>5. c.kind = b.kind /\ c.body = cut
    <3>1. b \in Fields({"tool_result"}, Seq(Arm) \ {<<>>}, Token \cup {None}, {None, "false", "true"})
      BY <1>3, <2>1, BlockOfKind
    <3> HIDE DEF b, cut
    <3> QED BY <3>1 DEF Fields
  <2>6. q \in 1 .. q /\ kept[q] = b
    BY <1>1, <1>2
  <2>7. new = [kept EXCEPT ![q] = c]
    <3> HIDE DEF kept, b
    <3> QED BY <2>6
  <2>8. DOMAIN new = 1 .. q /\ new[q] = c /\ \A j \in 1 .. q - 1 : new[j] = s[j]
    <3>1. \A j \in 1 .. q - 1 : j \in 1 .. q /\ j # q
      BY <1>1
    <3> HIDE DEF kept, c, new, s
    <3> QED BY <1>2, <2>6, <2>7, <3>1
  <2>9. t = [msg EXCEPT !.blocks = new]
    BY <1>5 DEF TruncateMessage
  <2>10. t.role = msg.role /\ t.blocks = new
    <3> HIDE DEF new
    <3> QED BY <2>9 DEF Message
  <2> HIDE DEF new, c, cut
  <2> QED BY <1>5, <2>4, <2>5, <2>8, <2>10
<1> QED BY <1>4, <1>5

\* What RequestObservablePrefix leaves of a request whose last marker is at
\* <<l, m, n>>.
Cut(req, pre, l, m, n) ==
  \/ /\ l = 0 /\ n = 0
     /\ DOMAIN pre.messages = {} /\ DOMAIN pre.tools = 1 .. m
     /\ \A i \in 1 .. m : pre.tools[i] = req.tools[i]
  \/ /\ l > 0
     /\ pre.tools = req.tools
     /\ DOMAIN pre.messages = 1 .. l
     /\ \A i \in 1 .. l - 1 : pre.messages[i] = req.messages[i]
     /\ pre.messages[l].role = req.messages[l].role
     /\ DOMAIN pre.messages[l].blocks = 1 .. m
     /\ \A j \in 1 .. m - 1 : pre.messages[l].blocks[j] = req.messages[l].blocks[j]
     /\ pre.messages[l].blocks[m].kind = req.messages[l].blocks[m].kind
     /\ n = 0 => pre.messages[l].blocks[m] = req.messages[l].blocks[m]
     /\ n # 0 => /\ Len(pre.messages[l].blocks[m].body) = n
                 /\ \A k \in 1 .. n : pre.messages[l].blocks[m].body[k] = req.messages[l].blocks[m].body[k]

\* The prefix is that.
LEMMA PrefixIsCut ==
  ASSUME NEW req \in RequestType, HasMarker(req), NEW l, NEW m, NEW n,
         l = LastCacheMarker(req).msg, m = LastCacheMarker(req).block, n = LastCacheMarker(req).arm
  PROVE  Cut(req, RequestObservablePrefix(req), l, m, n)
<1> DEFINE pre == RequestObservablePrefix(req)
<1>1. Marked(req, l, m, n)
  BY LastCloses
<1>2. /\ Len(req.messages) \in Nat /\ Len(req.tools) \in Nat
      /\ DOMAIN req.messages = 1 .. Len(req.messages)
      /\ DOMAIN req.tools = 1 .. Len(req.tools)
      /\ req.messages \in Seq(Message) /\ req.tools \in Seq(Marker \cup {None})
  BY CarrierBounds DEF RequestType
<1>3. CASE l = 0
  <2>1. m \in DOMAIN req.tools /\ n = 0
    BY <1>1, <1>2, <1>3 DEF Marked
  <2>2. pre = [tools |-> SubSeq(req.tools, 1, m), messages |-> <<>>]
    BY <1>3 DEF RequestObservablePrefix
  <2>3. DOMAIN SubSeq(req.tools, 1, m) = 1 .. m /\ \A i \in 1 .. m : SubSeq(req.tools, 1, m)[i] = req.tools[i]
    <3>1. m \in 0 .. Len(req.tools)
      BY <1>2, <2>1
    <3> QED BY <1>2, <3>1, FirstOnes
  <2> HIDE DEF pre
  <2>4. pre.tools = SubSeq(req.tools, 1, m) /\ pre.messages = <<>>
    BY <2>2
  <2>5. DOMAIN <<>> = {}
    OBVIOUS
  <2>6. Cut(req, pre, l, m, n)
    BY <1>3, <2>1, <2>3, <2>4, <2>5 DEF Cut
  <2> QED BY <2>6 DEF pre
<1>4. CASE l # 0
  <2> DEFINE t == TruncateMessage(req.messages[l], m, n)
             front == SubSeq(req.messages, 1, l - 1)
  <2>1. /\ l \in DOMAIN req.messages /\ m \in DOMAIN req.messages[l].blocks
        /\ MarkedBlock(req.messages[l].blocks[m], n)
    BY <1>1, <1>4 DEF Marked
  <2>2. l \in Nat /\ l > 0 /\ l - 1 \in 0 .. Len(req.messages) /\ req.messages[l] \in Message
    BY <1>2, <2>1, ElementOfSeq
  <2>3. /\ front \in Seq(Message) /\ Len(front) = l - 1
        /\ \A i \in 1 .. l - 1 : front[i] = req.messages[i]
    BY <1>2, <2>2, FirstOnes
  <2>4. pre = [req EXCEPT !.messages = Append(front, t)]
    BY <1>4 DEF RequestObservablePrefix
  <2>5. pre.tools = req.tools /\ pre.messages = Append(front, t)
    <3> HIDE DEF t, front
    <3> QED BY <2>4 DEF RequestType
  <2>6. /\ DOMAIN Append(front, t) = 1 .. l /\ Append(front, t)[l] = t
        /\ \A i \in 1 .. l - 1 : Append(front, t)[i] = front[i]
    <3> HIDE DEF t, front
    <3>1. front \in Seq(Message \cup {t})
      <4>1. front \in [1 .. Len(front) -> Message] /\ Len(front) \in Nat
        BY <2>3, LenProperties
      <4> QED BY <4>1, SeqDef
    <3>2. /\ Append(front, t) \in Seq(Message \cup {t}) /\ Len(Append(front, t)) = Len(front) + 1
          /\ Append(front, t)[Len(front) + 1] = t
          /\ \A i \in 1 .. Len(front) : Append(front, t)[i] = front[i]
      BY <3>1, AppendProperties
    <3>3. Len(front) + 1 = l
      BY <2>2, <2>3
    <3> QED BY <2>3, <3>2, <3>3, LenProperties
  <2>7. /\ t.role = req.messages[l].role
        /\ DOMAIN t.blocks = 1 .. m
        /\ \A j \in 1 .. m - 1 : t.blocks[j] = req.messages[l].blocks[j]
        /\ t.blocks[m].kind = req.messages[l].blocks[m].kind
        /\ n = 0 => t.blocks[m] = req.messages[l].blocks[m]
        /\ n # 0 => /\ Len(t.blocks[m].body) = n
                    /\ \A k \in 1 .. n : t.blocks[m].body[k] = req.messages[l].blocks[m].body[k]
    <3>1. PICK msg \in Message : msg = req.messages[l]
      BY <2>2
    <3>2. t = TruncateMessage(msg, m, n) /\ m \in DOMAIN msg.blocks /\ MarkedBlock(msg.blocks[m], n)
      BY <2>1, <3>1
    <3> HIDE DEF t
    <3>3. /\ t.role = msg.role
          /\ DOMAIN t.blocks = 1 .. m
          /\ \A j \in 1 .. m - 1 : t.blocks[j] = msg.blocks[j]
          /\ t.blocks[m].kind = msg.blocks[m].kind
          /\ n = 0 => t.blocks[m] = msg.blocks[m]
          /\ n # 0 => /\ Len(t.blocks[m].body) = n
                      /\ \A k \in 1 .. n : t.blocks[m].body[k] = msg.blocks[m].body[k]
      BY <3>2, TruncatedMessage
    <3> QED BY <3>1, <3>3
  <2> HIDE DEF t, pre, front
  <2>8. Cut(req, pre, l, m, n)
    <3>1. pre.messages[l] = t /\ DOMAIN pre.messages = 1 .. l
      BY <2>5, <2>6
    <3>2. \A i \in 1 .. l - 1 : pre.messages[i] = req.messages[i]
      BY <2>3, <2>5, <2>6
    <3> QED BY <2>2, <2>5, <2>7, <3>1, <3>2 DEF Cut
  <2> QED BY <2>8 DEF pre
<1> QED BY <1>3, <1>4

\* A request that is cut there has the sites up to there, and reads the same at
\* them.
LEMMA CutSites ==
  ASSUME NEW req \in RequestType, NEW pre, NEW l, NEW m, NEW n, Marked(req, l, m, n), Cut(req, pre, l, m, n),
         NEW i, NEW j, NEW k
  PROVE  /\ Site(pre, i, j, k) <=> Site(req, i, j, k) /\ UpTo(i, j, k, l, m, n)
         /\ Site(pre, i, j, k) => AtomAt(pre, i, j, k) = AtomAt(req, i, j, k)
<1>1. /\ Len(req.messages) \in Nat /\ Len(req.tools) \in Nat
      /\ DOMAIN req.messages = 1 .. Len(req.messages)
      /\ DOMAIN req.tools = 1 .. Len(req.tools)
  BY CarrierBounds
<1>2. Site(req, l, m, n)
  BY MarkedAtoms
<1>3. l \in Nat /\ m \in Nat /\ n \in Nat
  BY <1>2, SiteCases
<1>4. CASE l = 0
  <2>1. /\ n = 0 /\ DOMAIN pre.messages = {} /\ DOMAIN pre.tools = 1 .. m
        /\ \A h \in 1 .. m : pre.tools[h] = req.tools[h]
    BY <1>4 DEF Cut
  <2>2. m \in DOMAIN req.tools
    BY <1>1, <1>4 DEF Marked
  <2>3. Site(pre, i, j, k) <=> i = 0 /\ j \in 1 .. m /\ k = 0
    BY <2>1 DEF Site
  <2>4. Site(req, i, j, k) /\ UpTo(i, j, k, l, m, n) <=> i = 0 /\ j \in 1 .. m /\ k = 0
    <3>1. ASSUME Site(req, i, j, k), UpTo(i, j, k, l, m, n) PROVE i = 0 /\ j \in 1 .. m /\ k = 0
      <4>1. i \in Nat /\ j \in Nat /\ k \in Nat
        BY <3>1, SiteCases
      <4>2. i = 0
        BY <1>4, <3>1, <4>1 DEF UpTo
      <4>3. j \in DOMAIN req.tools /\ k = 0
        BY <3>1, <4>2, SiteCases
      <4> QED BY <1>1, <1>3, <1>4, <2>1, <3>1, <4>2, <4>3 DEF UpTo
    <3>2. ASSUME i = 0, j \in 1 .. m, k = 0 PROVE Site(req, i, j, k) /\ UpTo(i, j, k, l, m, n)
      <4>1. j \in DOMAIN req.tools
        BY <1>1, <2>2, <3>2
      <4>2. j < m \/ j = m
        BY <1>3, <3>2
      <4> QED BY <1>4, <2>1, <3>2, <4>1, <4>2 DEF Site, UpTo
    <3> QED BY <3>1, <3>2
  <2>5. i = 0 /\ j \in 1 .. m => AtomAt(pre, i, j, k) = AtomAt(req, i, j, k)
    BY <2>1 DEF AtomAt
  <2> QED BY <2>3, <2>4, <2>5
<1>5. CASE l # 0
  <2> DEFINE b == req.messages[l].blocks[m]
             c == pre.messages[l].blocks[m]
  <2>1. /\ l > 0 /\ pre.tools = req.tools /\ DOMAIN pre.messages = 1 .. l
        /\ \A h \in 1 .. l - 1 : pre.messages[h] = req.messages[h]
        /\ pre.messages[l].role = req.messages[l].role
        /\ DOMAIN pre.messages[l].blocks = 1 .. m
        /\ \A h \in 1 .. m - 1 : pre.messages[l].blocks[h] = req.messages[l].blocks[h]
        /\ c.kind = b.kind
        /\ n = 0 => c = b
        /\ n # 0 => Len(c.body) = n /\ \A h \in 1 .. n : c.body[h] = b.body[h]
    BY <1>5 DEF Cut
  <2>2. l \in DOMAIN req.messages /\ m \in DOMAIN req.messages[l].blocks /\ MarkedBlock(b, n)
    BY <1>5 DEF Marked
  <2>3. /\ Len(req.messages[l].blocks) \in Nat
        /\ DOMAIN req.messages[l].blocks = 1 .. Len(req.messages[l].blocks)
        /\ b.kind = "tool_result" => Len(b.body) \in Nat /\ DOMAIN b.body = 1 .. Len(b.body)
    BY <2>2, CarrierBounds
  <2> HIDE DEF b, c
  <2>4. Arms(c) = IF n = 0 THEN {0} ELSE 0 .. n
    <3>1. CASE n = 0
      <4>1. b.kind = "cache"
        BY <2>2, <2>3, <3>1 DEF MarkedBlock
      <4> QED BY <2>1, <3>1, <4>1 DEF Arms
    <3>2. CASE n # 0
      BY <2>1, <2>2, <3>2 DEF MarkedBlock, Arms
    <3> QED BY <3>1, <3>2
  <2>5. /\ \A h \in 0 .. n : h \in Arms(b)
        /\ \A h \in Arms(b) : h \in Nat /\ (h <= n => h \in Arms(c))
    <3>1. CASE b.kind = "tool_result"
      <4>1. Arms(b) = 0 .. Len(b.body) /\ Len(b.body) \in Nat
        BY <2>3, <3>1 DEF Arms
      <4>2. n \in 1 .. Len(b.body)
        BY <2>2, <2>3, <3>1 DEF MarkedBlock
      <4>3. Arms(c) = 0 .. n
        BY <2>4, <4>2
      <4> QED BY <1>3, <4>1, <4>2, <4>3
    <3>2. CASE b.kind # "tool_result"
      <4>1. Arms(b) = {0} /\ n = 0
        BY <2>2, <3>2 DEF Arms, MarkedBlock
      <4> QED BY <2>4, <4>1
    <3> QED BY <3>1, <3>2
  <2>6. CASE i = 0
    <3>1. Site(pre, i, j, k) <=> j \in DOMAIN req.tools /\ k = 0
      BY <2>1, <2>6 DEF Site
    <3>2. Site(req, i, j, k) <=> j \in DOMAIN req.tools /\ k = 0
      BY <1>1, <2>6 DEF Site
    <3>3. UpTo(i, j, k, l, m, n)
      BY <2>1, <2>6 DEF UpTo
    <3>4. AtomAt(pre, i, j, k) = AtomAt(req, i, j, k)
      BY <2>1, <2>6 DEF AtomAt
    <3> QED BY <3>1, <3>2, <3>3, <3>4
  <2>7. CASE i \in 1 .. l - 1
    <3>1. /\ i \in DOMAIN pre.messages /\ i \in DOMAIN req.messages /\ i # 0
          /\ pre.messages[i] = req.messages[i] /\ i < l
      BY <1>1, <1>3, <2>1, <2>2, <2>7
    <3>2. Site(pre, i, j, k) <=> Site(req, i, j, k)
      BY <3>1 DEF Site
    <3>3. UpTo(i, j, k, l, m, n)
      BY <3>1 DEF UpTo
    <3>4. AtomAt(pre, i, j, k) = AtomAt(req, i, j, k)
      BY <3>1 DEF AtomAt
    <3> QED BY <3>2, <3>3, <3>4
  <2>8. CASE i = l
    <3>1. i # 0 /\ i \in DOMAIN pre.messages /\ i \in DOMAIN req.messages
      BY <1>3, <2>1, <2>2, <2>8
    <3>2. 0 \notin 1 .. m /\ 0 \notin DOMAIN req.messages[l].blocks /\ m \in 1 .. m /\ m # 0
      BY <1>3, <2>2, <2>3
    <3>3. CASE j = 0
      <4>1. Site(pre, i, j, k) <=> k = 0
        BY <2>1, <2>8, <3>1, <3>2, <3>3 DEF Site
      <4>2. Site(req, i, j, k) <=> k = 0
        BY <2>8, <3>1, <3>2, <3>3 DEF Site
      <4>3. UpTo(i, j, k, l, m, n)
        BY <1>3, <2>8, <3>2, <3>3 DEF UpTo
      <4>4. AtomAt(pre, i, j, k) = AtomAt(req, i, j, k)
        BY <2>1, <2>8, <3>1, <3>3 DEF AtomAt
      <4> QED BY <4>1, <4>2, <4>3, <4>4
    <3>4. CASE j \in 1 .. m - 1
      <4>1. /\ j \in 1 .. m /\ j \in DOMAIN req.messages[l].blocks /\ j # 0 /\ j < m
            /\ pre.messages[l].blocks[j] = req.messages[l].blocks[j]
        BY <1>3, <2>1, <2>2, <2>3, <3>4
      <4>2. Site(pre, i, j, k) <=> Site(req, i, j, k)
        BY <2>1, <2>8, <3>1, <4>1 DEF Site
      <4>3. UpTo(i, j, k, l, m, n)
        BY <2>8, <4>1 DEF UpTo
      <4>4. AtomAt(pre, i, j, k) = AtomAt(req, i, j, k)
        BY <2>8, <3>1, <4>1 DEF AtomAt
      <4> QED BY <4>2, <4>3, <4>4
    <3>5. CASE j = m
      <4>1. Site(pre, i, j, k) <=> k \in Arms(c)
        BY <2>1, <2>8, <3>1, <3>2, <3>5 DEF Site, c
      <4>2. Site(req, i, j, k) <=> k \in Arms(b)
        BY <2>2, <2>8, <3>1, <3>2, <3>5 DEF Site, b
      <4>3. k \in Arms(c) <=> k \in Arms(b) /\ k <= n
        BY <1>3, <2>4, <2>5
      <4>4. k \in Arms(b) => (UpTo(i, j, k, l, m, n) <=> k <= n)
        BY <1>3, <2>5, <2>8, <3>5 DEF UpTo
      <4>5. AtomAt(pre, i, j, k) = AtomOf(c, k) /\ AtomAt(req, i, j, k) = AtomOf(b, k)
        BY <2>8, <3>1, <3>2, <3>5 DEF AtomAt, b, c
      <4>6. k \in Arms(c) => AtomOf(c, k) = AtomOf(b, k)
        <5>1. CASE n = 0
          BY <2>1, <5>1
        <5>2. CASE n # 0
          <6>1. b.kind = "tool_result" /\ c.kind = "tool_result"
            BY <2>1, <2>2, <5>2 DEF MarkedBlock
          <6>2. k \in Arms(c) => k = 0 \/ (k \in 1 .. n /\ k > 0)
            BY <1>3, <2>4, <5>2
          <6>3. k \in 1 .. n => c.body[k] = b.body[k]
            BY <2>1, <5>2
          <6> QED BY <6>1, <6>2, <6>3 DEF AtomOf
        <5> QED BY <5>1, <5>2
      <4> QED BY <4>1, <4>2, <4>3, <4>4, <4>5, <4>6
    <3>6. CASE j \notin 0 .. m
      <4>1. ~ Site(pre, i, j, k)
        BY <1>3, <2>1, <2>8, <3>1, <3>6 DEF Site
      <4>2. ~ (Site(req, i, j, k) /\ UpTo(i, j, k, l, m, n))
        <5>1. Site(req, i, j, k) => j \in Nat
          BY SiteCases
        <5> QED BY <1>3, <2>8, <3>6, <5>1 DEF UpTo
      <4> QED BY <4>1, <4>2
    <3>7. j \in 0 .. m => j = 0 \/ j \in 1 .. m - 1 \/ j = m
      BY <1>3
    <3> QED BY <3>3, <3>4, <3>5, <3>6, <3>7
  <2>9. CASE i \notin 0 .. l
    <3>1. ~ Site(pre, i, j, k)
      BY <1>3, <2>1, <2>9 DEF Site
    <3>2. ~ (Site(req, i, j, k) /\ UpTo(i, j, k, l, m, n))
      <4>1. Site(req, i, j, k) => i \in Nat
        BY SiteCases
      <4> QED BY <1>3, <2>9, <4>1 DEF UpTo
    <3> QED BY <3>1, <3>2
  <2>10. i \in 0 .. l => i = 0 \/ i \in 1 .. l - 1 \/ i = l
    BY <1>3
  <2> QED BY <2>6, <2>7, <2>8, <2>9, <2>10
<1> QED BY <1>4, <1>5

\* The invariant says enough of the prefix: the request is well typed.
LEMMA InvPrefix == EditsInv => PrefixEndsAtLastMarker
<1> SUFFICES ASSUME EditsInv PROVE PrefixEndsAtLastMarker
  OBVIOUS
<1>1. PICK req \in RequestType : req = request
  BY DEF EditsInv
<1> DEFINE pre == RequestObservablePrefix(req)
           marks == MarkerAtoms(Atoms(req))
<1>2. DOMAIN Atoms(req) = Sites(req) /\ DOMAIN Atoms(pre) = Sites(pre)
  BY DEF Atoms
<1>3. CASE ~ HasMarker(req)
  <2>1. pre = req /\ marks = {}
    BY <1>3, NoMarkerAtoms DEF RequestObservablePrefix
  <2> QED BY <1>1, <2>1 DEF PrefixEndsAtLastMarker
<1>4. CASE HasMarker(req)
  <2>1. PICK l, m, n : /\ l = LastCacheMarker(req).msg /\ m = LastCacheMarker(req).block
                       /\ n = LastCacheMarker(req).arm
    OBVIOUS
  <2>2. Marked(req, l, m, n) /\ Cut(req, pre, l, m, n)
    BY <1>4, <2>1, LastCloses, PrefixIsCut
  <2>3. marks # {}
    BY <1>4, NoMarkerAtoms
  <2> HIDE DEF pre
  <2>4. \A i, j, k : <<i, j, k>> \in Sites(pre) <=> <<i, j, k>> \in Sites(req) /\ UpTo(i, j, k, l, m, n)
    BY <2>2, CutSites, SitesAre
  <2>5. \A i, j, k : <<i, j, k>> \in Sites(req) =>
          ((\E d \in marks : <<i, j, k>> = d \/ Before(<<i, j, k>>, d)) <=> UpTo(i, j, k, l, m, n))
    <3> SUFFICES ASSUME NEW i, NEW j, NEW k, <<i, j, k>> \in Sites(req)
                 PROVE  (\E d \in marks : <<i, j, k>> = d \/ Before(<<i, j, k>>, d)) <=> UpTo(i, j, k, l, m, n)
      OBVIOUS
    <3>1. Site(req, i, j, k)
      BY SitesAre
    <3> QED BY <1>4, <2>1, <3>1, LastCloses
  <2> HIDE DEF marks
  <2>6. Sites(pre) = {c \in Sites(req) : \E d \in marks : c = d \/ Before(c, d)}
    <3>1. ASSUME NEW p \in Sites(pre) PROVE p \in Sites(req) /\ \E d \in marks : p = d \/ Before(p, d)
      <4>1. p = <<p[1], p[2], p[3]>>
        BY SitesAre
      <4> QED BY <2>4, <2>5, <4>1
    <3>2. ASSUME NEW p \in Sites(req), \E d \in marks : p = d \/ Before(p, d) PROVE p \in Sites(pre)
      <4>1. p = <<p[1], p[2], p[3]>>
        BY SitesAre
      <4> QED BY <2>4, <2>5, <3>2, <4>1
    <3> QED BY <3>1, <3>2
  <2>7. ASSUME NEW p \in Sites(pre) PROVE Atoms(pre)[p] = Atoms(req)[p]
    <3>1. p = <<p[1], p[2], p[3]>> /\ p \in Sites(req)
      BY <2>6, <2>7, SitesAre
    <3>2. Site(pre, p[1], p[2], p[3])
      BY <2>7, <3>1, SitesAre
    <3>3. AtomAt(pre, p[1], p[2], p[3]) = AtomAt(req, p[1], p[2], p[3])
      BY <2>2, <3>2, CutSites
    <3> QED BY <2>7, <3>1, <3>3 DEF Atoms
  <2> QED BY <1>1, <1>2, <2>3, <2>6, <2>7 DEF PrefixEndsAtLastMarker, pre, marks
<1> QED BY <1>3, <1>4

\* The observable prefix is what precedes the last marker, marker included.
THEOREM PrefixEnds == Spec => []PrefixEndsAtLastMarker
<1> QED
  BY EditsAreInv, InvPrefix, PTL

-----------------------------------------------------------------------------
\* The marker that closes the prefix is exchanged.

\* The marker a block carries.
MarkerOf(b, n) == IF n = 0 THEN b.body ELSE b.body[n].body

\* SetMarker exchanges that marker and no other content.
LEMMA SetMarkerBody ==
  ASSUME NEW b \in Block, NEW n, MarkedBlock(b, n), NEW mk \in Marker, NEW c, c = SetMarker(b, n, mk)
  PROVE  /\ c \in Block /\ c.kind = b.kind
         /\ n = 0 => c.body = mk
         /\ n # 0 => /\ Len(c.body) = Len(b.body) /\ c.body[n].arm = "cache" /\ c.body[n].body = mk
                     /\ \A k \in DOMAIN b.body : k # n => c.body[k] = b.body[k]
         /\ c = b <=> MarkerOf(b, n) = mk
<1>1. b.kind = "tool_result" => b.body \in Seq(Arm) /\ DOMAIN b.body = 1 .. Len(b.body) /\ Len(b.body) \in Nat
  BY BlockFields, LenProperties
<1>2. c \in Block /\ Turned(b, c) /\ c.is_error = b.is_error
  <2>1. \/ n = 0 /\ b.kind = "cache"
        \/ n # 0 /\ b.kind = "tool_result" /\ n \in DOMAIN b.body /\ b.body[n].arm = "cache"
    BY <1>1 DEF MarkedBlock
  <2> QED BY <2>1, SetMarkerTurns
<1>3. CASE n = 0
  <2>1. b.kind = "cache" /\ b \in Fields({"cache"}, Marker, {None}, {None})
    <3>1. b.kind = "cache"
      BY <1>1, <1>3 DEF MarkedBlock
    <3> QED BY <3>1, BlockOfKind
  <2>2. c = [b EXCEPT !.body = mk]
    BY <1>3 DEF SetMarker
  <2>3. c.body = mk
    BY <2>1, <2>2 DEF Fields
  <2>4. c = b <=> b.body = mk
    BY <1>2, <2>3 DEF Turned
  <2> QED BY <1>2, <1>3, <2>3, <2>4 DEF Turned, MarkerOf
<1>4. CASE n # 0
  <2>1. b.kind = "tool_result" /\ n \in DOMAIN b.body /\ b.body[n].arm = "cache"
    BY <1>4 DEF MarkedBlock
  <2>2. CASE b.body[n].body = mk
    <3>1. c = b
      BY <1>4, <2>2 DEF SetMarker
    <3> QED BY <1>2, <1>4, <2>1, <2>2, <3>1 DEF MarkerOf
  <2>3. CASE b.body[n].body # mk
    <3> DEFINE a == [b.body[n] EXCEPT !.body = mk]
               s == [b.body EXCEPT ![n] = a]
    <3>1. c = [b EXCEPT !.body[n].body = mk, !.sig = None]
      BY <1>4, <2>3 DEF SetMarker
    <3>2. b \in Fields({"tool_result"}, Seq(Arm) \ {<<>>}, Token \cup {None}, {None, "false", "true"})
      BY <2>1, BlockOfKind
    <3>3. c.body = s
      BY <3>1, <3>2 DEF Fields
    <3>4. b.body[n] \in Arm /\ n \in 1 .. Len(b.body)
      BY <1>1, <2>1, ElementOfSeq
    <3>5. a.body = mk /\ a.arm = "cache" /\ a \in Arm
      BY <2>1, <3>4 DEF Arm
    <3> HIDE DEF a
    <3>6. Len(s) = Len(b.body) /\ s[n] = a /\ \A k \in DOMAIN b.body : k # n => s[k] = b.body[k]
      BY <1>1, <2>1, <3>4, <3>5, ExceptSeq
    <3>7. c # b
      BY <2>3, <3>3, <3>5, <3>6
    <3> HIDE DEF s
    <3> QED BY <1>2, <1>4, <2>3, <3>3, <3>5, <3>6, <3>7 DEF Turned, MarkerOf
  <2> QED BY <2>2, <2>3
<1> QED BY <1>3, <1>4

\* The request new is req with another marker at <<l, m, n>>; same tells whether
\* it is the same marker.
Swapped(req, new, l, m, n, mk, same) ==
  \/ /\ l = 0
     /\ new.messages = req.messages /\ DOMAIN new.tools = DOMAIN req.tools
     /\ new.tools[m] = mk
     /\ \A i \in DOMAIN req.tools : i # m => new.tools[i] = req.tools[i]
     /\ same <=> req.tools[m] = mk
  \/ /\ l # 0
     /\ new.tools = req.tools /\ DOMAIN new.messages = DOMAIN req.messages
     /\ \A i \in DOMAIN req.messages : i # l => new.messages[i] = req.messages[i]
     /\ new.messages[l].role = req.messages[l].role
     /\ DOMAIN new.messages[l].blocks = DOMAIN req.messages[l].blocks
     /\ \A j \in DOMAIN req.messages[l].blocks :
          j # m => new.messages[l].blocks[j] = req.messages[l].blocks[j]
     /\ new.messages[l].blocks[m] = SetMarker(req.messages[l].blocks[m], n, mk)
     /\ same <=> MarkerOf(req.messages[l].blocks[m], n) = mk

\* What ReplaceLastCacheBreakpoint does when it is not refused.
LEMMA SwapsLast ==
  ASSUME EditsInv, NEW mk \in Marker, ReplaceLastCacheBreakpoint(mk), reply' # "error",
         NEW l, NEW m, NEW n, l = LastCacheMarker(request).msg, m = LastCacheMarker(request).block,
         n = LastCacheMarker(request).arm
  PROVE  /\ HasMarker(request) /\ Marked(request, l, m, n)
         /\ Swapped(request, request', l, m, n, mk, reply' # "changed")
<1>1. request \in RequestType /\ HasMarker(request)
  BY DEF EditsInv, ReplaceLastCacheBreakpoint, Refuse
<1>2. Marked(request, l, m, n)
  BY <1>1, LastCloses
<1>3. /\ DOMAIN request.messages = 1 .. Len(request.messages) /\ Len(request.messages) \in Nat
      /\ request.tools \in Seq(Marker \cup {None}) /\ request.messages \in Seq(Message)
  BY <1>1, CarrierBounds DEF RequestType
<1>4. mk # None
  BY NoneAssumption
<1>5. CASE l = 0
  <2>1. m \in DOMAIN request.tools
    BY <1>2, <1>3, <1>5 DEF Marked
  <2>2. /\ request' = [request EXCEPT !.tools[m] = mk]
        /\ reply' = IF request' = request THEN "same" ELSE "changed"
    BY <1>1, <1>4, <1>5 DEF ReplaceLastCacheBreakpoint, Refuse
  <2>3. request'.tools = [request.tools EXCEPT ![m] = mk] /\ request'.messages = request.messages
    BY <1>1, <2>2 DEF RequestType
  <2>4. /\ DOMAIN request'.tools = DOMAIN request.tools /\ request'.tools[m] = mk
        /\ \A i \in DOMAIN request.tools : i # m => request'.tools[i] = request.tools[i]
    BY <2>1, <2>3
  <2>5. request' = request <=> request.tools[m] = mk
    <3>1. ASSUME request.tools[m] = mk PROVE request' = request
      <4>1. [request.tools EXCEPT ![m] = mk] = request.tools
        BY <1>3, <3>1
      <4>2. request' = [request EXCEPT !.tools = request.tools]
        BY <2>2, <4>1
      <4> QED BY <1>1, <4>2 DEF RequestType
    <3> QED BY <2>4, <3>1
  <2> QED BY <1>1, <1>2, <1>5, <2>2, <2>3, <2>4, <2>5 DEF Swapped
<1>6. CASE l # 0
  <2> DEFINE b == request.messages[l].blocks[m]
             c == SetMarker(b, n, mk)
             new == [Blocks(l) EXCEPT ![m] = c]
  <2>1. /\ l \in DOMAIN request.messages /\ m \in DOMAIN request.messages[l].blocks /\ MarkedBlock(b, n)
        /\ l > 0
    BY <1>2, <1>3, <1>6 DEF Marked
  <2>2. request.messages[l].blocks \in Seq(Block) /\ b \in Block /\ request.messages[l] \in Message
    BY <1>1, <1>3, <2>1, CarrierBounds, ElementOfSeq
  <2>3. Apply(l, new)
    BY <1>1, <1>4, <2>1 DEF ReplaceLastCacheBreakpoint, Refuse, Blocks
  <2>4. c \in Block /\ (c = b <=> MarkerOf(b, n) = mk)
    <3> HIDE DEF b
    <3> QED BY <2>1, <2>2, SetMarkerBody
  <2>5. /\ request' = [request EXCEPT !.messages[l].blocks = new]
        /\ reply' = IF new = Blocks(l) THEN "same" ELSE "changed"
    BY <2>3 DEF Apply
  <2>6. new = Blocks(l) <=> c = b
    <3> HIDE DEF c
    <3>1. ASSUME new = Blocks(l) PROVE c = b
      BY <2>1, <3>1 DEF Blocks
    <3>2. ASSUME c = b PROVE new = Blocks(l)
      BY <2>2, <3>2 DEF Blocks
    <3> QED BY <3>1, <3>2
  <2>7. /\ DOMAIN new = DOMAIN request.messages[l].blocks /\ new[m] = c
        /\ \A j \in DOMAIN request.messages[l].blocks : j # m => new[j] = request.messages[l].blocks[j]
    <3> HIDE DEF c, b
    <3> QED BY <2>1, <2>2 DEF Blocks
  <2> HIDE DEF new
  <2>8. /\ request'.tools = request.tools /\ DOMAIN request'.messages = DOMAIN request.messages
        /\ \A i \in DOMAIN request.messages : i # l => request'.messages[i] = request.messages[i]
        /\ request'.messages[l].role = request.messages[l].role
        /\ request'.messages[l].blocks = new
    <3>1. request'.tools = request.tools
      BY <1>1, <2>5 DEF RequestType
    <3>2. request'.messages = [request.messages EXCEPT ![l] = [request.messages[l] EXCEPT !.blocks = new]]
      BY <1>1, <2>5 DEF RequestType
    <3>3. [request.messages[l] EXCEPT !.blocks = new].blocks = new
      BY <2>2 DEF Message
    <3>4. [request.messages[l] EXCEPT !.blocks = new].role = request.messages[l].role
      BY <2>2 DEF Message
    <3> QED BY <2>1, <3>1, <3>2, <3>3, <3>4
  <2>9. (reply' # "changed") <=> MarkerOf(b, n) = mk
    BY <2>4, <2>5, <2>6
  <2> HIDE DEF c
  <2> QED BY <1>1, <1>2, <1>6, <2>7, <2>8, <2>9 DEF Swapped, c, b
<1> QED BY <1>5, <1>6

\* An exchange moves no site, and what stands at a site only where the marker is.
LEMMA SwapSites ==
  ASSUME NEW req \in RequestType, NEW new, NEW l, NEW m, NEW n, NEW mk \in Marker, NEW same \in BOOLEAN,
         Marked(req, l, m, n), Swapped(req, new, l, m, n, mk, same)
  PROVE  /\ \A i, j, k : Site(new, i, j, k) <=> Site(req, i, j, k)
         /\ \A i, j, k : Site(req, i, j, k) =>
              AtomAt(new, i, j, k) = AtomAt(req, i, j, k) \/ (i = l /\ j = m /\ k = n)
         /\ AtomAt(new, l, m, n) = AtomAt(req, l, m, n) <=> same
<1>1. /\ DOMAIN req.messages = 1 .. Len(req.messages) /\ Len(req.messages) \in Nat
      /\ DOMAIN req.tools = 1 .. Len(req.tools) /\ Len(req.tools) \in Nat
      /\ 0 \notin DOMAIN req.messages
  BY CarrierBounds
<1>2. CASE l = 0
  <2>1. m \in DOMAIN req.tools /\ n = 0
    BY <1>1, <1>2 DEF Marked
  <2>2. /\ new.messages = req.messages /\ DOMAIN new.tools = DOMAIN req.tools /\ new.tools[m] = mk
        /\ \A i \in DOMAIN req.tools : i # m => new.tools[i] = req.tools[i]
        /\ same <=> req.tools[m] = mk
    BY <1>2 DEF Swapped
  <2>3. ASSUME NEW i, NEW j, NEW k PROVE Site(new, i, j, k) <=> Site(req, i, j, k)
    BY <2>2 DEF Site
  <2>4. ASSUME NEW i, NEW j, NEW k, Site(req, i, j, k)
        PROVE  AtomAt(new, i, j, k) = AtomAt(req, i, j, k) \/ (i = l /\ j = m /\ k = n)
    <3>1. CASE i = 0
      <4>1. j \in DOMAIN req.tools /\ k = 0
        BY <1>1, <2>4, <3>1 DEF Site
      <4> QED BY <1>2, <2>1, <2>2, <3>1, <4>1 DEF AtomAt
    <3>2. CASE i # 0
      BY <2>2, <3>2 DEF AtomAt
    <3> QED BY <3>1, <3>2
  <2>5. AtomAt(new, l, m, n) = AtomAt(req, l, m, n) <=> same
    <3>1. AtomAt(new, l, m, n) = <<"tool", mk>> /\ AtomAt(req, l, m, n) = <<"tool", req.tools[m]>>
      BY <1>2, <2>2 DEF AtomAt
    <3> QED BY <2>2, <3>1
  <2> QED BY <2>3, <2>4, <2>5
<1>3. CASE l # 0
  <2> DEFINE b == req.messages[l].blocks[m]
             c == new.messages[l].blocks[m]
  <2>1. l \in DOMAIN req.messages /\ m \in DOMAIN req.messages[l].blocks /\ MarkedBlock(b, n)
    BY <1>3 DEF Marked
  <2>2. /\ new.tools = req.tools /\ DOMAIN new.messages = DOMAIN req.messages
        /\ \A i \in DOMAIN req.messages : i # l => new.messages[i] = req.messages[i]
        /\ new.messages[l].role = req.messages[l].role
        /\ DOMAIN new.messages[l].blocks = DOMAIN req.messages[l].blocks
        /\ \A j \in DOMAIN req.messages[l].blocks :
             j # m => new.messages[l].blocks[j] = req.messages[l].blocks[j]
        /\ c = SetMarker(b, n, mk)
        /\ same <=> MarkerOf(b, n) = mk
    BY <1>3 DEF Swapped
  <2>3. /\ b \in Block /\ m # 0
        /\ b.kind = "tool_result" => Len(b.body) \in Nat /\ DOMAIN b.body = 1 .. Len(b.body)
    <3>1. /\ DOMAIN req.messages[l].blocks = 1 .. Len(req.messages[l].blocks)
          /\ Len(req.messages[l].blocks) \in Nat /\ b \in Block
          /\ b.kind = "tool_result" => Len(b.body) \in Nat /\ DOMAIN b.body = 1 .. Len(b.body)
      BY <2>1, CarrierBounds
    <3> QED BY <2>1, <3>1
  <2> HIDE DEF b, c
  <2>4. /\ c.kind = b.kind
        /\ n = 0 => c.body = mk
        /\ n # 0 => /\ Len(c.body) = Len(b.body) /\ c.body[n].arm = "cache" /\ c.body[n].body = mk
                    /\ \A k \in DOMAIN b.body : k # n => c.body[k] = b.body[k]
    BY <2>1, <2>2, <2>3, SetMarkerBody
  <2>5. \/ n = 0 /\ b.kind = "cache"
        \/ /\ n # 0 /\ n > 0 /\ b.kind = "tool_result" /\ n \in DOMAIN b.body /\ b.body[n].arm = "cache"
    BY <2>1, <2>3 DEF MarkedBlock
  <2>6. Arms(c) = Arms(b)
    BY <2>4, <2>5 DEF Arms
  <2>7. ASSUME NEW k, k \in Arms(b) PROVE AtomOf(c, k) = AtomOf(b, k) \/ k = n
    <3>1. CASE n = 0
      BY <2>5, <2>7, <3>1 DEF Arms
    <3>2. CASE n # 0
      <4>1. k = 0 \/ (k > 0 /\ k \in DOMAIN b.body)
        BY <2>3, <2>5, <2>7, <3>2 DEF Arms
      <4> QED BY <2>4, <2>5, <3>2, <4>1 DEF AtomOf
    <3> QED BY <3>1, <3>2
  <2>8. AtomOf(c, n) = AtomOf(b, n) <=> same
    <3>1. CASE n = 0
      <4>1. AtomOf(c, n) = <<"cache", mk>> /\ AtomOf(b, n) = <<"cache", b.body>>
        BY <2>4, <2>5, <3>1 DEF AtomOf
      <4> QED BY <2>2, <3>1, <4>1 DEF MarkerOf
    <3>2. CASE n # 0
      <4>1. AtomOf(c, n) = <<"cache", mk>> /\ AtomOf(b, n) = <<"cache", b.body[n].body>>
        BY <2>4, <2>5, <3>2 DEF AtomOf
      <4> QED BY <2>2, <3>2, <4>1 DEF MarkerOf
    <3> QED BY <3>1, <3>2
  <2>9. AtomAt(new, l, m, n) = AtomOf(c, n) /\ AtomAt(req, l, m, n) = AtomOf(b, n)
    BY <1>3, <2>3 DEF AtomAt, b, c
  <2>10. ASSUME NEW i, NEW j, NEW k
         PROVE  /\ Site(new, i, j, k) <=> Site(req, i, j, k)
                /\ Site(req, i, j, k) =>
                     AtomAt(new, i, j, k) = AtomAt(req, i, j, k) \/ (i = l /\ j = m /\ k = n)
    <3>1. CASE i # l
      <4>1. Site(new, i, j, k) <=> Site(req, i, j, k)
        BY <2>2, <3>1 DEF Site
      <4>2. Site(req, i, j, k) => AtomAt(new, i, j, k) = AtomAt(req, i, j, k)
        <5>1. CASE i = 0
          BY <2>2, <5>1 DEF AtomAt
        <5>2. CASE i # 0
          <6>1. Site(req, i, j, k) => i \in DOMAIN req.messages
            BY <5>2 DEF Site
          <6> QED BY <2>2, <3>1, <5>2, <6>1 DEF AtomAt
        <5> QED BY <5>1, <5>2
      <4> QED BY <4>1, <4>2
    <3>2. CASE i = l /\ j # m
      <4>1. Site(new, i, j, k) <=> Site(req, i, j, k)
        BY <1>3, <2>2, <3>2 DEF Site
      <4>2. Site(req, i, j, k) => AtomAt(new, i, j, k) = AtomAt(req, i, j, k)
        <5>1. CASE j = 0
          BY <1>3, <2>2, <3>2, <5>1 DEF AtomAt
        <5>2. CASE j # 0
          <6>1. Site(req, i, j, k) => j \in DOMAIN req.messages[l].blocks
            BY <1>3, <3>2, <5>2 DEF Site
          <6> QED BY <1>3, <2>2, <3>2, <5>2, <6>1 DEF AtomAt
        <5> QED BY <5>1, <5>2
      <4> QED BY <4>1, <4>2
    <3>3. CASE i = l /\ j = m
      <4>1. Site(new, i, j, k) <=> k \in Arms(c)
        BY <1>3, <2>1, <2>2, <2>3, <3>3 DEF Site, c
      <4>2. Site(req, i, j, k) <=> k \in Arms(b)
        BY <1>3, <2>1, <2>3, <3>3 DEF Site, b
      <4>3. AtomAt(new, i, j, k) = AtomOf(c, k) /\ AtomAt(req, i, j, k) = AtomOf(b, k)
        BY <1>3, <2>3, <3>3 DEF AtomAt, b, c
      <4> QED BY <2>6, <2>7, <3>3, <4>1, <4>2, <4>3
    <3> QED BY <3>1, <3>2, <3>3
  <2> QED BY <2>8, <2>9, <2>10
<1> QED BY <1>2, <1>3

\* What the property says of the requests before and after.
OnlyClosingMarker(old, new, changed) ==
  LET moved == {c \in DOMAIN old : old[c] # new[c]}
  IN /\ DOMAIN new = DOMAIN old
     /\ \A c \in moved : c \in MarkerAtoms(old) /\ ~ \E d \in MarkerAtoms(old) : Before(c, d)
     /\ changed <=> moved # {}

\* ReplaceLastCacheBreakpoint does that.
LEMMA StepSwap ==
  ASSUME EditsInv, NEW mk \in Marker, ReplaceLastCacheBreakpoint(mk), reply' # "error"
  PROVE  OnlyClosingMarker(Atoms(request), Atoms(request'), reply' = "changed")
<1> DEFINE old == Atoms(request)
           new == Atoms(request')
           moved == {c \in DOMAIN old : old[c] # new[c]}
<1>1. PICK l, m, n : /\ l = LastCacheMarker(request).msg /\ m = LastCacheMarker(request).block
                     /\ n = LastCacheMarker(request).arm
  OBVIOUS
<1>2. /\ request \in RequestType /\ HasMarker(request) /\ Marked(request, l, m, n)
      /\ Swapped(request, request', l, m, n, mk, reply' # "changed")
  BY <1>1, SwapsLast DEF EditsInv
<1>3. (reply' # "changed") \in BOOLEAN
  OBVIOUS
<1>4. /\ \A i, j, k : Site(request', i, j, k) <=> Site(request, i, j, k)
      /\ \A i, j, k : Site(request, i, j, k) =>
           AtomAt(request', i, j, k) = AtomAt(request, i, j, k) \/ (i = l /\ j = m /\ k = n)
      /\ AtomAt(request', l, m, n) = AtomAt(request, l, m, n) <=> reply' # "changed"
  <2>1. PICK new1 \in {request'}, same \in BOOLEAN : same = (reply' # "changed")
    BY <1>3
  <2>2. Swapped(request, new1, l, m, n, mk, same)
    BY <1>2, <2>1
  <2>3. /\ \A i, j, k : Site(new1, i, j, k) <=> Site(request, i, j, k)
        /\ \A i, j, k : Site(request, i, j, k) =>
             AtomAt(new1, i, j, k) = AtomAt(request, i, j, k) \/ (i = l /\ j = m /\ k = n)
        /\ AtomAt(new1, l, m, n) = AtomAt(request, l, m, n) <=> same
    BY <1>2, <2>2, SwapSites
  <2> QED BY <2>1, <2>3
<1>5. DOMAIN old = Sites(request) /\ DOMAIN new = Sites(request')
  BY DEF Atoms
<1>6. Sites(request') = Sites(request)
  <2>1. \A i, j, k : <<i, j, k>> \in Sites(request') <=> <<i, j, k>> \in Sites(request)
    BY <1>4, SitesAre
  <2>2. /\ \A p \in Sites(request') : p = <<p[1], p[2], p[3]>>
        /\ \A p \in Sites(request) : p = <<p[1], p[2], p[3]>>
    BY SitesAre
  <2>3. \A p : p \in Sites(request') <=> p \in Sites(request)
    BY <2>1, <2>2
  <2> QED BY <2>3
<1>7. \A i, j, k : <<i, j, k>> \in Sites(request) =>
        /\ old[<<i, j, k>>] = AtomAt(request, i, j, k)
        /\ new[<<i, j, k>>] = AtomAt(request', i, j, k)
  BY <1>6 DEF Atoms
<1>8. <<l, m, n>> \in Sites(request) /\ <<l, m, n>> \in MarkerAtoms(old)
  BY <1>2, MarkedAtoms, SitesAre
<1>9. \A d \in MarkerAtoms(old) : ~ Before(<<l, m, n>>, d)
  <2> SUFFICES ASSUME NEW d \in MarkerAtoms(old) PROVE ~ Before(<<l, m, n>>, d)
    OBVIOUS
  <2>1. d \in Sites(request)
    BY <1>5 DEF MarkerAtoms
  <2>2. PICK i, j, k : d = <<i, j, k>>
    BY <2>1, SitesAre
  <2>3. Marked(request, i, j, k) /\ Site(request, i, j, k) /\ Site(request, l, m, n)
    BY <1>2, <2>2, MarkedAtoms
  <2>4. i \in Nat /\ j \in Nat /\ k \in Nat /\ l \in Nat /\ m \in Nat /\ n \in Nat
    BY <1>2, <2>3, SiteCases
  <2>5. UpTo(i, j, k, l, m, n)
    BY <1>1, <1>2, <2>3, LastCloses
  <2>6. ~ Before(<<l, m, n>>, <<i, j, k>>)
    BY <2>4, <2>5, BeforeIs DEF UpTo
  <2> QED BY <2>2, <2>6
<1> HIDE DEF old, new
<1>10. \A c \in moved : c = <<l, m, n>>
  <2> SUFFICES ASSUME NEW c \in moved PROVE c = <<l, m, n>>
    OBVIOUS
  <2>1. c \in Sites(request) /\ old[c] # new[c]
    BY <1>5
  <2>2. PICK i, j, k : c = <<i, j, k>>
    BY <2>1, SitesAre
  <2>3. Site(request, i, j, k)
    BY <2>1, <2>2, SitesAre
  <2> QED BY <1>4, <1>7, <2>1, <2>2, <2>3
<1>11. <<l, m, n>> \in moved <=> reply' = "changed"
  BY <1>4, <1>5, <1>7, <1>8
<1> HIDE DEF moved
<1>12. reply' = "changed" <=> moved # {}
  BY <1>10, <1>11
<1> QED BY <1>5, <1>6, <1>8, <1>9, <1>10, <1>12 DEF OnlyClosingMarker, old, new, moved

\* Only the marker that closes the prefix is exchanged.
THEOREM SwapKeepsRest == Spec => MarkerSwapKeepsRest
<1>1. ASSUME EditsInv
      PROVE  reply' # "error" /\ (\E m \in Marker : ReplaceLastCacheBreakpoint(m)) =>
               OnlyClosingMarker(Atoms(request), Atoms(request'), reply' = "changed")
  BY <1>1, StepSwap
<1> QED
  BY <1>1, EditsAreInv, PTL DEF Spec, MarkerSwapKeepsRest, OnlyClosingMarker

-----------------------------------------------------------------------------
\* Framing: what FlattenSeq makes of a sequence of frames can be read back.

\* g collects the first n frames of s, as FlattenSeq does.
Flattens(g, s, n) == g = [i \in 1 .. n |-> IF i = 1 THEN s[i] ELSE g[i - 1] \o s[i]]

\* There is such a function, for every number of frames.
LEMMA FlattensAll ==
  ASSUME NEW s, NEW m \in Nat, m # 0
  PROVE  \E g : Flattens(g, s, m)
<1> DEFINE Bad == {n \in 1 .. m : ~ \E g : Flattens(g, s, n)}
<1>1. SUFFICES ASSUME Bad # {} PROVE FALSE
  <2>1. m \in 1 .. m
    OBVIOUS
  <2> QED BY <2>1
<1>2. PICK n \in Bad : \A k \in Bad : n <= k
  <2>1. Bad \in SUBSET (1 .. m)
    OBVIOUS
  <2> HIDE DEF Bad
  <2>2. IsFiniteSet(Bad) /\ Bad \subseteq Int
    BY <2>1, Places
  <2> QED BY <1>1, <2>2, Least
<1>3. n \in 1 .. m /\ ~ \E g : Flattens(g, s, n)
  OBVIOUS
<1>4. CASE n = 1
  <2> DEFINE g == [i \in 1 .. 1 |-> s[1]]
  <2>1. g = [i \in 1 .. 1 |-> IF i = 1 THEN s[i] ELSE g[i - 1] \o s[i]]
    <3>1. \A i \in 1 .. 1 : i = 1
      OBVIOUS
    <3> QED BY <3>1
  <2> QED BY <1>3, <1>4, <2>1 DEF Flattens
<1>5. CASE n # 1
  <2>1. n - 1 \in 1 .. m /\ n - 1 < n
    BY <1>3, <1>5
  <2>2. n - 1 \notin Bad
    BY <1>2, <1>3, <2>1
  <2>3. PICK g : Flattens(g, s, n - 1)
    BY <2>1, <2>2
  <2> DEFINE e == g[n - 1] \o s[n]
             h == [i \in 1 .. n |-> IF i = n THEN e ELSE g[i]]
  <2>4. \A i \in 1 .. n - 1 : g[i] = IF i = 1 THEN s[i] ELSE g[i - 1] \o s[i]
    BY <2>3 DEF Flattens
  <2>5. ASSUME NEW i \in 1 .. n PROVE h[i] = IF i = 1 THEN s[i] ELSE h[i - 1] \o s[i]
    <3>1. CASE i = n
      <4>1. i - 1 \in 1 .. n /\ i - 1 # n /\ i # 1
        BY <1>3, <1>5, <3>1
      <4>2. h[i - 1] = g[n - 1] /\ h[i] = e
        BY <3>1, <4>1
      <4> QED BY <3>1, <4>1, <4>2
    <3>2. CASE i # n
      <4>1. i \in 1 .. n - 1 /\ h[i] = g[i]
        BY <1>3, <3>2
      <4>2. i # 1 => i - 1 \in 1 .. n /\ i - 1 # n
        BY <1>3, <4>1
      <4>3. i # 1 => h[i - 1] = g[i - 1]
        BY <4>2
      <4> HIDE DEF h
      <4> QED BY <2>4, <4>1, <4>3
    <3> QED BY <3>1, <3>2
  <2>6. h = [i \in 1 .. n |-> h[i]]
    OBVIOUS
  <2> HIDE DEF h
  <2>7. h = [i \in 1 .. n |-> IF i = 1 THEN s[i] ELSE h[i - 1] \o s[i]]
    BY <2>5, <2>6
  <2> QED BY <1>3, <2>7 DEF Flattens
<1> QED BY <1>4, <1>5

\* FlattenSeq is the last entry of such a function.
LEMMA FlattenIs ==
  ASSUME NEW s, Len(s) \in Nat, Len(s) # 0
  PROVE  \E g : Flattens(g, s, Len(s)) /\ FlattenSeq(s) = g[Len(s)]
<1> DEFINE f == CHOOSE f : Flattens(f, s, Len(s))
<1>1. Flattens(f, s, Len(s))
  <2>1. \E g : Flattens(g, s, Len(s))
    BY FlattensAll
  <2> QED BY <2>1
<1>2. FlattenSeq(s) = f[Len(s)]
  BY DEF FlattenSeq, Flattens
<1> QED BY <1>1, <1>2

\* Frames follow one another: at[i] is where frame i ends in r.
Laid(r, at, s) ==
  /\ at \in [0 .. Len(s) -> Nat] /\ at[0] = 0 /\ at[Len(s)] = Len(r)
  /\ \A i \in 1 .. Len(s) : at[i] = at[i - 1] + Len(s[i])
  /\ \A i \in 0 .. Len(s) : at[i] <= Len(r)
  /\ \A i \in 1 .. Len(s) : \A k \in 1 .. Len(s[i]) : r[at[i - 1] + k] = s[i][k]

\* That is how FlattenSeq lays them.
LEMMA FlattenLays ==
  ASSUME NEW X, NEW s \in Seq(Seq(X))
  PROVE  FlattenSeq(s) \in Seq(X) /\ \E at : Laid(FlattenSeq(s), at, s)
<1> DEFINE m == Len(s)
<1>1. m \in Nat /\ \A i \in 1 .. m : s[i] \in Seq(X) /\ Len(s[i]) \in Nat
  BY LenProperties, ElementOfSeq
<1>2. CASE m = 0
  <2>1. s = <<>>
    BY <1>2, EmptySeq
  <2>2. FlattenSeq(s) = s /\ s \in Seq(X) /\ Len(s) = 0
    BY <1>2, <2>1, EmptySeq DEF FlattenSeq
  <2> DEFINE at == [i \in 0 .. 0 |-> 0]
  <2>3. at \in [0 .. 0 -> Nat] /\ at[0] = 0 /\ (\A i \in 0 .. 0 : at[i] = 0) /\ 1 .. 0 = {}
    OBVIOUS
  <2> HIDE DEF at
  <2>4. Laid(s, at, s)
    BY <2>2, <2>3 DEF Laid
  <2> QED BY <2>2, <2>4
<1>3. CASE m # 0
  <2>1. PICK f : Flattens(f, s, m) /\ FlattenSeq(s) = f[m]
    BY <1>1, <1>3, FlattenIs
  <2>2. \A i \in 1 .. m : f[i] = IF i = 1 THEN s[i] ELSE f[i - 1] \o s[i]
    BY <2>1 DEF Flattens
  <2> DEFINE at == [i \in 0 .. m |-> IF i = 0 THEN 0 ELSE Len(f[i])]
             Good(n) == /\ f[n] \in Seq(X) /\ Len(f[n]) \in Nat
                        /\ at[n] = at[n - 1] + Len(s[n])
                        /\ \A i \in 0 .. n : at[i] \in Nat /\ at[i] <= Len(f[n])
                        /\ \A i \in 1 .. n : \A k \in 1 .. Len(s[i]) :
                             at[i - 1] + k \in 1 .. Len(f[n]) /\ f[n][at[i - 1] + k] = s[i][k]
             Bad == {n \in 1 .. m : ~ Good(n)}
  <2>3. /\ at[0] = 0 /\ at = [i \in 0 .. m |-> at[i]]
        /\ \A i \in 1 .. m : at[i] = Len(f[i])
    BY <1>1
  <2> HIDE DEF at
  <2>4. ASSUME NEW n \in 1 .. m, n # 1 => Good(n - 1) PROVE Good(n)
    <3>1. CASE n = 1
      <4>1. f[1] = s[1] /\ f[1] \in Seq(X) /\ Len(f[1]) \in Nat /\ at[1] = Len(s[1]) /\ at[0] = 0
        BY <1>1, <2>2, <2>3, <3>1
      <4>2. at[1] = at[0] + Len(s[1])
        BY <1>1, <4>1, <3>1
      <4>3. \A i \in 0 .. 1 : i = 0 \/ i = 1
        OBVIOUS
      <4>4. \A i \in 0 .. 1 : at[i] \in Nat /\ at[i] <= Len(f[1])
        BY <4>1, <4>3
      <4>5. \A i \in 1 .. 1 : \A k \in 1 .. Len(s[i]) :
              at[i - 1] + k \in 1 .. Len(f[1]) /\ f[1][at[i - 1] + k] = s[i][k]
        <5>1. \A i \in 1 .. 1 : i = 1 /\ i - 1 = 0
          OBVIOUS
        <5>2. \A k \in 1 .. Len(s[1]) : 0 + k = k
          OBVIOUS
        <5> QED BY <4>1, <5>1, <5>2
      <4> QED BY <3>1, <4>1, <4>2, <4>4, <4>5
    <3>2. CASE n # 1
      <4> DEFINE p == f[n - 1]
                 q == s[n]
                 r == f[n]
      <4>1. Good(n - 1) /\ n - 1 \in 1 .. m /\ n \in Nat
        BY <1>1, <2>4, <3>2
      <4>2. /\ p \in Seq(X) /\ q \in Seq(X) /\ Len(p) \in Nat /\ Len(q) \in Nat
            /\ r = p \o q /\ at[n - 1] = Len(p) /\ at[n] = Len(r)
        BY <1>1, <2>2, <2>3, <3>2, <4>1
      <4>3. /\ \A i \in 0 .. n - 1 : at[i] \in Nat /\ at[i] <= Len(p)
            /\ \A i \in 1 .. n - 1 : \A k \in 1 .. Len(s[i]) :
                 at[i - 1] + k \in 1 .. Len(p) /\ p[at[i - 1] + k] = s[i][k]
        BY <4>1
      <4> HIDE DEF Good, p, r, q
      <4>4. /\ r \in Seq(X) /\ Len(r) = Len(p) + Len(q)
            /\ \A i \in 1 .. Len(p) + Len(q) : r[i] = IF i <= Len(p) THEN p[i] ELSE q[i - Len(p)]
        BY <4>2, ConcatProperties
      <4>5. at[n] = at[n - 1] + Len(q) /\ Len(r) \in Nat
        BY <4>2, <4>4
      <4>6. ASSUME NEW i \in 0 .. n PROVE at[i] \in Nat /\ at[i] <= Len(r)
        <5>1. i = n \/ i \in 0 .. n - 1
          BY <4>1
        <5> QED BY <4>2, <4>3, <4>4, <4>5, <5>1
      <4>7. ASSUME NEW i \in 1 .. n, NEW k \in 1 .. Len(s[i])
            PROVE  at[i - 1] + k \in 1 .. Len(r) /\ r[at[i - 1] + k] = s[i][k]
        <5>1. CASE i = n
          <6>1. k \in 1 .. Len(q) /\ at[i - 1] = Len(p)
            BY <4>2, <4>7, <5>1 DEF q
          <6>2. /\ Len(p) + k \in 1 .. Len(p) + Len(q) /\ ~ (Len(p) + k <= Len(p))
                /\ (Len(p) + k) - Len(p) = k
            BY SMTT(30), <4>2, <6>1
          <6>3. r[Len(p) + k] = q[k]
            BY <4>4, <6>2
          <6> QED BY <4>4, <5>1, <6>1, <6>2, <6>3 DEF q
        <5>2. CASE i # n
          <6>1. i \in 1 .. n - 1
            BY <4>1, <5>2
          <6>2. at[i - 1] + k \in 1 .. Len(p) /\ p[at[i - 1] + k] = s[i][k]
            BY <4>3, <6>1
          <6> QED BY <4>2, <4>4, <6>2
        <5> QED BY <5>1, <5>2
      <4> QED BY <4>4, <4>5, <4>6, <4>7 DEF Good, r, q
    <3> QED BY <3>1, <3>2
  <2>5. \A n \in 1 .. m : Good(n)
    <3> HIDE DEF Good
    <3>1. SUFFICES ASSUME Bad # {} PROVE FALSE
      OBVIOUS
    <3>2. PICK n \in Bad : \A k \in Bad : n <= k
      <4>1. Bad \in SUBSET (1 .. m)
        OBVIOUS
      <4> HIDE DEF Bad
      <4>2. IsFiniteSet(Bad) /\ Bad \subseteq Int
        BY <1>1, <4>1, Places
      <4> QED BY <3>1, <4>2, Least
    <3>3. n # 1 => n - 1 \in 1 .. m /\ ~ (n <= n - 1)
      BY <1>1
    <3>4. n # 1 => Good(n - 1)
      BY <3>2, <3>3
    <3> QED BY <2>4, <3>2, <3>4
  <2>6. m \in 1 .. m /\ \A i \in 1 .. m : at[i] = at[i - 1] + Len(s[i])
    BY <1>1, <1>3, <2>5
  <2>7. Good(m)
    BY <2>5, <2>6
  <2>8. /\ FlattenSeq(s) \in Seq(X) /\ at[m] = Len(FlattenSeq(s))
        /\ \A i \in 0 .. m : at[i] \in Nat /\ at[i] <= Len(FlattenSeq(s))
        /\ \A i \in 1 .. m : \A k \in 1 .. Len(s[i]) : FlattenSeq(s)[at[i - 1] + k] = s[i][k]
    BY <2>1, <2>3, <2>6, <2>7
  <2> HIDE DEF Good
  <2>9. at \in [0 .. m -> Nat]
    BY <2>3, <2>8
  <2> QED BY ZenonT(40), <2>3, <2>6, <2>8, <2>9 DEF Laid
<1> QED BY <1>2, <1>3

\* What two sequences of frames must have for their frames to be told apart: a
\* frame is not empty, and no frame is the beginning of the one in its place.
ToldApart(s, t) ==
  /\ \A i \in 1 .. Len(s) : s[i] # <<>>
  /\ \A i \in 1 .. Len(t) : t[i] # <<>>
  /\ \A i \in (1 .. Len(s)) \cap (1 .. Len(t)) :
       (\A k \in (1 .. Len(s[i])) \cap (1 .. Len(t[i])) : s[i][k] = t[i][k]) => s[i] = t[i]

\* Up to the end of the shorter one the frames are the same.
LEMMA SameStart ==
  ASSUME NEW X, NEW s \in Seq(Seq(X)), NEW t \in Seq(Seq(X)), NEW r, NEW a, NEW b,
         Laid(r, a, s), Laid(r, b, t), ToldApart(s, t),
         NEW n \in 1 .. Len(s), n <= Len(t)
  PROVE  s[n] = t[n] /\ a[n] = b[n]
<1>1. /\ Len(s) \in Nat /\ \A i \in 1 .. Len(s) : s[i] \in Seq(X) /\ Len(s[i]) \in Nat
      /\ Len(t) \in Nat /\ \A i \in 1 .. Len(t) : t[i] \in Seq(X) /\ Len(t[i]) \in Nat
  BY LenProperties, ElementOfSeq
<1> DEFINE Good(i) == s[i] = t[i] /\ a[i] = b[i]
           Bad == {i \in 1 .. n : ~ Good(i)}
<1>2. ASSUME NEW i \in 1 .. n, i # 1 => Good(i - 1) PROVE Good(i)
  <2>1. i \in 1 .. Len(s) /\ i \in 1 .. Len(t)
    BY <1>1
  <2>2. a[i - 1] = b[i - 1]
    BY <1>2 DEF Laid
  <2>3. ASSUME NEW k \in (1 .. Len(s[i])) \cap (1 .. Len(t[i])) PROVE s[i][k] = t[i][k]
    <3>1. r[a[i - 1] + k] = s[i][k]
      BY <2>1, <2>3 DEF Laid
    <3>2. r[b[i - 1] + k] = t[i][k]
      BY <2>1, <2>3 DEF Laid
    <3> QED BY <2>2, <3>1, <3>2
  <2>4. s[i] = t[i]
    BY <2>1, <2>3 DEF ToldApart
  <2>5. a[i] = a[i - 1] + Len(s[i]) /\ b[i] = b[i - 1] + Len(t[i])
    BY <2>1 DEF Laid
  <2> QED BY <2>2, <2>4, <2>5
<1> HIDE DEF Good
<1>3. Bad = {}
  <2>1. SUFFICES ASSUME Bad # {} PROVE FALSE
    OBVIOUS
  <2>2. PICK i \in Bad : \A k \in Bad : i <= k
    <3>1. Bad \in SUBSET (1 .. n) /\ n \in Nat
      OBVIOUS
    <3> HIDE DEF Bad
    <3>2. IsFiniteSet(Bad) /\ Bad \subseteq Int
      BY <3>1, Places
    <3> QED BY <2>1, <3>2, Least
  <2>3. i # 1 => i - 1 \in 1 .. n /\ ~ (i <= i - 1)
    OBVIOUS
  <2>4. i # 1 => Good(i - 1)
    BY <2>2, <2>3
  <2> QED BY <1>2, <2>2, <2>4
<1>4. n \in 1 .. n
  BY <1>1
<1>5. Good(n)
  BY <1>3, <1>4
<1> QED BY <1>5 DEF Good

\* So neither is longer.
LEMMA NoLonger ==
  ASSUME NEW X, NEW s \in Seq(Seq(X)), NEW t \in Seq(Seq(X)), NEW r, NEW a, NEW b,
         Laid(r, a, s), Laid(r, b, t), ToldApart(s, t)
  PROVE  ~ (Len(s) < Len(t))
<1> SUFFICES ASSUME Len(s) < Len(t) PROVE FALSE
  OBVIOUS
<1>1. /\ Len(s) \in Nat /\ Len(t) \in Nat
      /\ \A i \in 1 .. Len(t) : t[i] \in Seq(X) /\ Len(t[i]) \in Nat
  BY LenProperties, ElementOfSeq
<1> DEFINE n == Len(s)
<1>2. a[n] = Len(r) /\ b[n] = a[n]
  <2>1. CASE n = 0
    BY <2>1 DEF Laid
  <2>2. CASE n # 0
    <3>1. n \in 1 .. Len(s) /\ n <= Len(t)
      BY <1>1, <2>2
    <3>2. a[n] = b[n]
      BY <3>1, SameStart
    <3> QED BY <3>2 DEF Laid
  <2> QED BY <2>1, <2>2
<1>3. n + 1 \in 1 .. Len(t) /\ n + 1 \in 0 .. Len(t) /\ n \in 0 .. Len(t) /\ (n + 1) - 1 = n
  BY <1>1
<1>4. t[n + 1] # <<>> /\ t[n + 1] \in Seq(X)
  BY <1>1, <1>3 DEF ToldApart
<1>5. Len(t[n + 1]) \in Nat /\ Len(t[n + 1]) # 0
  BY <1>4, EmptySeq
<1>6. b[n + 1] = b[n] + Len(t[n + 1]) /\ b[n + 1] <= Len(r) /\ b[n] \in Nat
  BY <1>3 DEF Laid
<1> QED BY <1>2, <1>5, <1>6

\* Frames that can be told apart are read back from what they are joined to.
LEMMA Unambiguous ==
  ASSUME NEW X, NEW s \in Seq(Seq(X)), NEW t \in Seq(Seq(X)), ToldApart(s, t),
         FlattenSeq(s) = FlattenSeq(t)
  PROVE  s = t
<1>1. PICK a, b : Laid(FlattenSeq(s), a, s) /\ Laid(FlattenSeq(s), b, t)
  BY FlattenLays
<1>2. ToldApart(t, s)
  BY DEF ToldApart
<1>3. Len(s) \in Nat /\ Len(t) \in Nat
  BY LenProperties
<1>4. ~ (Len(s) < Len(t)) /\ ~ (Len(t) < Len(s))
  BY <1>1, <1>2, NoLonger
<1>5. Len(s) = Len(t)
  BY <1>3, <1>4
<1>6. \A n \in 1 .. Len(s) : s[n] = t[n]
  <2> SUFFICES ASSUME NEW n \in 1 .. Len(s) PROVE s[n] = t[n]
    OBVIOUS
  <2>1. n <= Len(t)
    BY <1>3, <1>5
  <2> QED BY <1>1, <2>1, SameStart
<1> QED BY <1>5, <1>6, SeqEqual

-----------------------------------------------------------------------------
\* The frames of a message.

\* What a frame holds, and what the digest of a result's content holds.
Tag ==
  {"role", "block", "kind", "iserr", "trsig", "nested", "payload", "usig", "text", "sig", "false", "true",
   "thinking", "tool_use", "tool_result", "cache", "other", "trailing", "unknown"}

Atom == Tag \cup STRING \cup Nat \cup Text \cup Call \cup Marker \cup Payload \cup Token \cup {None}
Frame == Atom \cup Seq(Atom)

ArmFrames(content) == [k \in DOMAIN content |-> <<content[k].arm, content[k].body>>]

\* The frames of the arms are told apart by their places alone.
LEMMA ArmFramesFacts ==
  ASSUME NEW c \in Seq(Arm)
  PROVE  /\ ArmFrames(c) \in Seq(Seq(Atom)) /\ Len(ArmFrames(c)) = Len(c)
         /\ \A k \in 1 .. Len(c) :
              /\ ArmFrames(c)[k] = <<c[k].arm, c[k].body>> /\ Len(ArmFrames(c)[k]) = 2
              /\ ArmFrames(c)[k] # <<>>
<1>1. Len(c) \in Nat /\ DOMAIN c = 1 .. Len(c) /\ \A k \in 1 .. Len(c) : c[k] \in Arm
  BY LenProperties, ElementOfSeq
<1>2. ASSUME NEW a \in Arm PROVE a.arm \in Atom /\ a.body \in Atom
  <2>1. "text" \in Tag /\ "unknown" \in Tag /\ "cache" \in Tag
    BY DEF Tag
  <2>2. a.arm \in {"text", "unknown", "cache"} /\ a.body \in Text \cup Payload \cup Marker
    BY DEF Arm
  <2> QED BY <2>1, <2>2 DEF Atom
<1>3. \A k \in 1 .. Len(c) : <<c[k].arm, c[k].body>> \in Seq(Atom)
  BY <1>1, <1>2
<1>4. ArmFrames(c) \in [1 .. Len(c) -> Seq(Atom)]
  BY <1>1, <1>3 DEF ArmFrames
<1>5. ArmFrames(c) \in Seq(Seq(Atom)) /\ Len(ArmFrames(c)) = Len(c)
  BY <1>1, <1>4
<1>6. \A k \in 1 .. Len(c) : ArmFrames(c)[k] = <<c[k].arm, c[k].body>>
  BY <1>1 DEF ArmFrames
<1>7. ASSUME NEW k \in 1 .. Len(c) PROVE Len(ArmFrames(c)[k]) = 2 /\ ArmFrames(c)[k] # <<>>
  <2>1. \A x, y : Len(<<x, y>>) = 2 /\ <<x, y>> # <<>>
    OBVIOUS
  <2> QED BY ZenonT(40), <1>6, <2>1
<1> QED BY <1>5, <1>6, <1>7

\* The digest of a result's content tells contents apart.
LEMMA ContentRead ==
  ASSUME NEW c \in Seq(Arm), NEW d \in Seq(Arm)
  PROVE  /\ ToolResultContentFingerprint(c) \in Seq(Atom)
         /\ ToolResultContentFingerprint(c) = ToolResultContentFingerprint(d) => c = d
<1>1. /\ Len(c) \in Nat /\ \A k \in 1 .. Len(c) : c[k] \in Arm
      /\ Len(d) \in Nat /\ \A k \in 1 .. Len(d) : d[k] \in Arm
  BY LenProperties, ElementOfSeq
<1> DEFINE p == <<Len(c)>>
           q == <<Len(d)>>
           r == FlattenSeq(ArmFrames(c))
           s == FlattenSeq(ArmFrames(d))
<1>2. ToolResultContentFingerprint(c) = p \o r /\ ToolResultContentFingerprint(d) = q \o s
  BY DEF ToolResultContentFingerprint, ArmFrames
<1>3. /\ p \in Seq(Atom) /\ Len(p) = 1 /\ p[1] = Len(c)
      /\ q \in Seq(Atom) /\ Len(q) = 1 /\ q[1] = Len(d)
  BY <1>1 DEF Atom
<1>4. r \in Seq(Atom) /\ s \in Seq(Atom)
  BY ArmFramesFacts, FlattenLays
<1> HIDE DEF p, q, r, s
<1>5. p \o r \in Seq(Atom) /\ (p \o r)[1] = Len(c) /\ (q \o s)[1] = Len(d)
  <2>1. Len(r) \in Nat /\ Len(s) \in Nat
    BY <1>4, LenProperties
  <2>2. 1 \in 1 .. Len(p) + Len(r) /\ 1 \in 1 .. Len(q) + Len(s) /\ 1 <= Len(p) /\ 1 <= Len(q)
    BY <1>3, <2>1
  <2> QED BY <1>3, <1>4, <2>2, ConcatProperties
<1>6. ASSUME p \o r = q \o s PROVE c = d
  <2>1. Len(c) = Len(d)
    BY <1>5, <1>6
  <2>2. r = s
    <3>1. p = q
      BY <2>1 DEF p, q
    <3> QED BY <1>3, <1>4, <1>6, <3>1, ConcatSimplifications
  <2>3. ToldApart(ArmFrames(c), ArmFrames(d))
    <3>1. /\ Len(ArmFrames(c)) = Len(c) /\ Len(ArmFrames(d)) = Len(d)
          /\ \A k \in 1 .. Len(c) : /\ ArmFrames(c)[k] \in Seq(Atom) /\ Len(ArmFrames(c)[k]) = 2
                                    /\ ArmFrames(c)[k] # <<>>
          /\ \A k \in 1 .. Len(d) : /\ ArmFrames(d)[k] \in Seq(Atom) /\ Len(ArmFrames(d)[k]) = 2
                                    /\ ArmFrames(d)[k] # <<>>
      BY ArmFramesFacts, ElementOfSeq
    <3>2. ASSUME NEW i \in (1 .. Len(c)) \cap (1 .. Len(d)),
                 \A k \in (1 .. 2) \cap (1 .. 2) : ArmFrames(c)[i][k] = ArmFrames(d)[i][k]
          PROVE  ArmFrames(c)[i] = ArmFrames(d)[i]
      <4> DEFINE x == ArmFrames(c)[i]
                 y == ArmFrames(d)[i]
      <4>1. x \in Seq(Atom) /\ y \in Seq(Atom) /\ Len(x) = 2 /\ Len(y) = 2
        BY <3>1
      <4>2. \A k \in 1 .. 2 : x[k] = y[k]
        BY <3>2
      <4> HIDE DEF x, y
      <4>3. x = y
        BY <4>1, <4>2, SeqEqual
      <4> QED BY <4>3 DEF x, y
    <3> QED BY <3>1, <3>2 DEF ToldApart
  <2>4. ArmFrames(c) = ArmFrames(d)
    <3>1. ArmFrames(c) \in Seq(Seq(Atom)) /\ ArmFrames(d) \in Seq(Seq(Atom))
      BY ArmFramesFacts
    <3> QED BY <2>2, <2>3, <3>1, Unambiguous DEF r, s
  <2>5. ASSUME NEW k \in 1 .. Len(c) PROVE c[k] = d[k]
    <3>1. <<c[k].arm, c[k].body>> = <<d[k].arm, d[k].body>>
      BY <2>1, <2>4, ArmFramesFacts
    <3>2. c[k].arm = d[k].arm /\ c[k].body = d[k].body /\ c[k] \in Arm /\ d[k] \in Arm
      BY <1>1, <2>1, <3>1
    <3> QED BY <3>2 DEF Arm
  <2> QED BY <2>1, <2>5, SeqEqual
<1> QED BY <1>2, <1>5, <1>6

\* What stands behind the four frames that head a block.
Behind(b) ==
  CASE b.kind = "tool_result" -> <<"iserr", b.is_error, "trsig", b.sig,
                                   "nested", ToolResultContentFingerprint(b.body)>>
    [] b.kind \in {"cache", "other"} -> <<"payload", b.body, "usig", b.sig>>
    [] b.kind = "trailing" -> <<"sig", b.sig>>
    [] OTHER -> <<"text", b.body, "sig", b.sig>>

HeadFrames(j, b) == <<"block", j, "kind", b.kind>>

\* The kind decides how many frames follow and what they hold.
LEMMA BehindFacts ==
  ASSUME NEW b \in Block, NEW q, q = Behind(b)
  PROVE  /\ q \in Seq(Frame)
         /\ Len(q) = IF b.kind = "tool_result" THEN 6 ELSE IF b.kind = "trailing" THEN 2 ELSE 4
         /\ b.kind = "tool_result" =>
              q[2] = b.is_error /\ q[4] = b.sig /\ q[6] = ToolResultContentFingerprint(b.body)
         /\ b.kind = "trailing" => q[2] = b.sig
         /\ b.kind \notin {"tool_result", "trailing"} => q[2] = b.body /\ q[4] = b.sig
<1>1. \A t \in Tag : t \in Frame
  BY DEF Frame, Atom
<1>2. b.sig \in Frame
  BY BlockFields DEF Frame, Atom
<1>3. CASE b.kind = "tool_result"
  <2>1. q = <<"iserr", b.is_error, "trsig", b.sig, "nested", ToolResultContentFingerprint(b.body)>>
    BY <1>3 DEF Behind
  <2>2. ToolResultContentFingerprint(b.body) \in Frame
    BY <1>3, BlockFields, ContentRead DEF Frame
  <2>3. b.is_error \in Frame
    <3>1. b.is_error \in {None, "false", "true"}
      BY <1>3, BlockOfKind DEF Fields
    <3> QED BY <1>1, <3>1 DEF Tag, Frame, Atom
  <2>4. "iserr" \in Frame /\ "trsig" \in Frame /\ "nested" \in Frame
    BY <1>1 DEF Tag
  <2> QED BY <1>2, <1>3, <2>1, <2>2, <2>3, <2>4
<1>4. CASE b.kind = "trailing"
  <2>1. q = <<"sig", b.sig>>
    BY <1>4 DEF Behind
  <2>2. "sig" \in Frame
    BY <1>1 DEF Tag
  <2> QED BY <1>2, <1>4, <2>1, <2>2
<1>5. CASE b.kind \notin {"tool_result", "trailing"}
  <2>1. b.body \in Text \cup Call \cup Marker \cup Payload
    BY <1>5 DEF Block, Fields
  <2>2. b.body \in Frame
    BY <2>1 DEF Frame, Atom
  <2>3. "payload" \in Frame /\ "usig" \in Frame /\ "text" \in Frame /\ "sig" \in Frame
    BY <1>1 DEF Tag
  <2>4. CASE b.kind \in {"cache", "other"}
    <3>1. q = <<"payload", b.body, "usig", b.sig>>
      BY <1>5, <2>4 DEF Behind
    <3> QED BY <1>2, <1>5, <2>2, <2>3, <3>1
  <2>5. CASE b.kind \notin {"cache", "other"}
    <3>1. q = <<"text", b.body, "sig", b.sig>>
      BY <1>5, <2>5 DEF Behind
    <3> QED BY <1>2, <1>5, <2>2, <2>3, <3>1
  <2> QED BY <2>4, <2>5
<1> QED BY <1>3, <1>4, <1>5

\* The frames of a block are those two parts.
LEMMA BlockFramesFacts ==
  ASSUME NEW b \in Block, NEW j \in Nat, NEW f, f = BlockFrames(j, b), NEW q, q = Behind(b)
  PROVE  /\ f \in Seq(Frame) /\ f # <<>>
         /\ Len(f) = 4 + Len(q) /\ Len(q) \in {2, 4, 6}
         /\ f[4] = b.kind
         /\ \A k \in 1 .. Len(q) : f[4 + k] = q[k]
<1> DEFINE h == HeadFrames(j, b)
<1>1. f = h \o q
  BY DEF BlockFrames, HeadFrames, Behind
<1>2. q \in Seq(Frame) /\ Len(q) \in {2, 4, 6}
  BY BehindFacts
<1>3. h \in Seq(Frame) /\ Len(h) = 4 /\ h[4] = b.kind
  <2>1. b.kind \in Tag /\ "block" \in Tag /\ "kind" \in Tag
    BY BlockFields DEF Tag
  <2>2. b.kind \in Frame /\ "block" \in Frame /\ "kind" \in Frame /\ j \in Frame
    BY <2>1 DEF Frame, Atom
  <2> QED BY <2>2 DEF HeadFrames
<1> HIDE DEF h
<1>4. /\ f \in Seq(Frame) /\ Len(f) = 4 + Len(q)
      /\ \A i \in 1 .. 4 + Len(q) : f[i] = IF i <= 4 THEN h[i] ELSE q[i - 4]
  <2>1. /\ h \o q \in Seq(Frame) /\ Len(h \o q) = Len(h) + Len(q)
        /\ \A i \in 1 .. Len(h) + Len(q) : (h \o q)[i] = IF i <= Len(h) THEN h[i] ELSE q[i - Len(h)]
    BY <1>2, <1>3, ConcatProperties
  <2> QED BY <1>1, <1>3, <2>1
<1>5. f[4] = b.kind
  BY <1>2, <1>3, <1>4
<1>6. ASSUME NEW k \in 1 .. Len(q) PROVE f[4 + k] = q[k]
  <2>1. 4 + k \in 1 .. 4 + Len(q) /\ ~ (4 + k <= 4) /\ (4 + k) - 4 = k
    BY <1>2
  <2> QED BY <1>4, <2>1
<1>7. f # <<>>
  BY <1>2, <1>4
<1> QED BY <1>2, <1>4, <1>5, <1>6, <1>7

\* The frames of a block tell what is in it, but for where it comes from.
LEMMA BlockRead ==
  ASSUME NEW b \in Block, NEW c \in Block, NEW j \in Nat, BlockFrames(j, b) = BlockFrames(j, c)
  PROVE  b.kind = c.kind /\ b.body = c.body /\ b.sig = c.sig /\ b.is_error = c.is_error
<1> DEFINE q == Behind(b)
           r == Behind(c)
           f == BlockFrames(j, b)
<1>1. /\ Len(f) = 4 + Len(q) /\ Len(q) \in {2, 4, 6} /\ f[4] = b.kind
      /\ \A k \in 1 .. Len(q) : f[4 + k] = q[k]
  BY BlockFramesFacts
<1>2. /\ Len(f) = 4 + Len(r) /\ Len(r) \in {2, 4, 6} /\ f[4] = c.kind
      /\ \A k \in 1 .. Len(r) : f[4 + k] = r[k]
  BY BlockFramesFacts
<1> HIDE DEF q, r, f
<1>3. b.kind = c.kind /\ Len(q) = Len(r) /\ \A k \in 1 .. Len(q) : q[k] = r[k]
  BY <1>1, <1>2
<1>4. CASE b.kind = "tool_result"
  <2>1. /\ Len(q) = 6 /\ q[2] = b.is_error /\ q[4] = b.sig /\ q[6] = ToolResultContentFingerprint(b.body)
        /\ r[2] = c.is_error /\ r[4] = c.sig /\ r[6] = ToolResultContentFingerprint(c.body)
    BY <1>3, <1>4, BehindFacts DEF q, r
  <2>2. ToolResultContentFingerprint(b.body) = ToolResultContentFingerprint(c.body)
    BY <1>3, <2>1
  <2>3. b.body \in Seq(Arm) /\ c.body \in Seq(Arm)
    BY <1>3, <1>4, BlockFields
  <2>4. b.body = c.body
    BY <2>2, <2>3, ContentRead
  <2> QED BY <1>3, <2>1, <2>4
<1>5. CASE b.kind = "trailing"
  <2>1. Len(q) = 2 /\ q[2] = b.sig /\ r[2] = c.sig
    BY <1>3, <1>5, BehindFacts DEF q, r
  <2>2. b.sig = c.sig
    BY <1>3, <2>1
  <2>3. b.body = None /\ c.body = None /\ b.is_error = None /\ c.is_error = None
    BY <1>3, <1>5, BlockFields
  <2> QED BY <1>3, <2>2, <2>3
<1>6. CASE b.kind \notin {"tool_result", "trailing"}
  <2>1. Len(q) = 4 /\ q[2] = b.body /\ q[4] = b.sig /\ r[2] = c.body /\ r[4] = c.sig
    BY <1>3, <1>6, BehindFacts DEF q, r
  <2>2. b.body = c.body /\ b.sig = c.sig
    BY <1>3, <2>1
  <2>3. b.is_error = None /\ c.is_error = None
    BY <1>3, <1>6, BlockFields
  <2> QED BY <1>3, <2>2, <2>3
<1> QED BY <1>4, <1>5, <1>6

\* Frames that agree where both have one are the same.
LEMMA BlockToldApart ==
  ASSUME NEW b \in Block, NEW c \in Block, NEW j \in Nat,
         NEW f, f = BlockFrames(j, b), NEW g, g = BlockFrames(j, c),
         \A k \in (1 .. Len(f)) \cap (1 .. Len(g)) : f[k] = g[k]
  PROVE  f = g
<1> DEFINE q == Behind(b)
           r == Behind(c)
<1>1. /\ f \in Seq(Frame) /\ Len(f) = 4 + Len(q) /\ Len(q) \in {2, 4, 6} /\ f[4] = b.kind
      /\ g \in Seq(Frame) /\ Len(g) = 4 + Len(r) /\ Len(r) \in {2, 4, 6} /\ g[4] = c.kind
  BY BlockFramesFacts
<1> HIDE DEF q, r
<1>2. b.kind = c.kind
  <2>1. 4 \in (1 .. Len(f)) \cap (1 .. Len(g))
    BY <1>1
  <2> QED BY <1>1, <2>1
<1>3. Len(q) = Len(r)
  BY <1>2, BehindFacts DEF q, r
<1> QED BY <1>1, <1>3, SeqEqual

AllFrames(m) == [j \in DOMAIN m.blocks |-> BlockFrames(j, m.blocks[j])]

\* The frames of a message, block by block.
LEMMA AllFramesFacts ==
  ASSUME NEW m \in Message
  PROVE  /\ AllFrames(m) \in Seq(Seq(Frame)) /\ Len(AllFrames(m)) = Len(m.blocks)
         /\ Len(m.blocks) \in Nat /\ DOMAIN m.blocks = 1 .. Len(m.blocks)
         /\ \A j \in 1 .. Len(m.blocks) :
              /\ m.blocks[j] \in Block /\ AllFrames(m)[j] = BlockFrames(j, m.blocks[j])
              /\ AllFrames(m)[j] # <<>>
<1>1. m.blocks \in Seq(Block)
  BY DEF Message
<1>2. /\ Len(m.blocks) \in Nat /\ DOMAIN m.blocks = 1 .. Len(m.blocks)
      /\ \A j \in 1 .. Len(m.blocks) : m.blocks[j] \in Block
  BY <1>1, LenProperties, ElementOfSeq
<1>3. \A j \in 1 .. Len(m.blocks) :
        BlockFrames(j, m.blocks[j]) \in Seq(Frame) /\ BlockFrames(j, m.blocks[j]) # <<>>
  <2> SUFFICES ASSUME NEW j \in 1 .. Len(m.blocks)
               PROVE  BlockFrames(j, m.blocks[j]) \in Seq(Frame) /\ BlockFrames(j, m.blocks[j]) # <<>>
    OBVIOUS
  <2>1. j \in Nat /\ m.blocks[j] \in Block
    BY <1>2
  <2> QED BY <2>1, BlockFramesFacts
<1>4. \A j \in 1 .. Len(m.blocks) : AllFrames(m)[j] = BlockFrames(j, m.blocks[j])
  BY <1>2 DEF AllFrames
<1>5. AllFrames(m) \in [1 .. Len(m.blocks) -> Seq(Frame)]
  BY <1>2, <1>3 DEF AllFrames
<1>6. AllFrames(m) \in Seq(Seq(Frame)) /\ Len(AllFrames(m)) = Len(m.blocks)
  BY <1>2, <1>5
<1> QED BY <1>2, <1>3, <1>4, <1>6

\* The frames of two messages are told apart.
LEMMA MessagesToldApart ==
  ASSUME NEW m \in Message, NEW n \in Message
  PROVE  ToldApart(AllFrames(m), AllFrames(n))
<1>1. /\ Len(AllFrames(m)) = Len(m.blocks) /\ Len(AllFrames(n)) = Len(n.blocks)
      /\ \A j \in 1 .. Len(m.blocks) : /\ m.blocks[j] \in Block /\ AllFrames(m)[j] # <<>>
                                       /\ AllFrames(m)[j] = BlockFrames(j, m.blocks[j])
      /\ \A j \in 1 .. Len(n.blocks) : /\ n.blocks[j] \in Block /\ AllFrames(n)[j] # <<>>
                                       /\ AllFrames(n)[j] = BlockFrames(j, n.blocks[j])
  BY AllFramesFacts
<1>2. ASSUME NEW i \in (1 .. Len(m.blocks)) \cap (1 .. Len(n.blocks)),
             NEW f, f = AllFrames(m)[i], NEW g, g = AllFrames(n)[i],
             \A k \in (1 .. Len(f)) \cap (1 .. Len(g)) : f[k] = g[k]
      PROVE  f = g
  <2>1. PICK b, c \in Block : b = m.blocks[i] /\ c = n.blocks[i]
    BY <1>1
  <2>2. i \in Nat /\ f = BlockFrames(i, b) /\ g = BlockFrames(i, c)
    BY <1>1, <1>2, <2>1
  <2> QED BY <1>2, <2>1, <2>2, BlockToldApart
<1> QED BY <1>1, <1>2 DEF ToldApart

\* What is left of a block when its origin is.
LEMMA PlainBlock ==
  ASSUME NEW b \in Block, NEW c \in Block
  PROVE  [b EXCEPT !.origin = 0] = [c EXCEPT !.origin = 0]
           <=> b.kind = c.kind /\ b.body = c.body /\ b.sig = c.sig /\ b.is_error = c.is_error
<1> DEFINE x == [b EXCEPT !.origin = 0]
           y == [c EXCEPT !.origin = 0]
<1>1. ASSUME NEW a \in Block, NEW z, z = [a EXCEPT !.origin = 0]
      PROVE  /\ z.kind = a.kind /\ z.body = a.body /\ z.sig = a.sig /\ z.is_error = a.is_error /\ z.origin = 0
             /\ z = [k \in {"kind", "body", "sig", "is_error", "origin"} |-> z[k]]
  BY <1>1 DEF Block, Fields
<1>2. /\ x.kind = b.kind /\ x.body = b.body /\ x.sig = b.sig /\ x.is_error = b.is_error /\ x.origin = 0
      /\ x = [k \in {"kind", "body", "sig", "is_error", "origin"} |-> x[k]]
  BY <1>1
<1>3. /\ y.kind = c.kind /\ y.body = c.body /\ y.sig = c.sig /\ y.is_error = c.is_error /\ y.origin = 0
      /\ y = [k \in {"kind", "body", "sig", "is_error", "origin"} |-> y[k]]
  BY <1>1
<1> HIDE DEF x, y
<1>4. ASSUME b.kind = c.kind, b.body = c.body, b.sig = c.sig, b.is_error = c.is_error PROVE x = y
  <2>1. \A k \in {"kind", "body", "sig", "is_error", "origin"} : x[k] = y[k]
    BY <1>2, <1>3, <1>4
  <2> QED BY <1>2, <1>3, <2>1
<1>5. ASSUME x = y PROVE b.kind = c.kind /\ b.body = c.body /\ b.sig = c.sig /\ b.is_error = c.is_error
  BY <1>2, <1>3, <1>5
<1> QED BY <1>4, <1>5 DEF x, y

\* Blocks that differ in their origin at most have the same frames.
LEMMA SameFrames ==
  ASSUME NEW b, NEW c, NEW j, b.kind = c.kind, b.body = c.body, b.sig = c.sig, b.is_error = c.is_error
  PROVE  BlockFrames(j, b) = BlockFrames(j, c)
  BY DEF BlockFrames

Plain(m) == [j \in DOMAIN m.blocks |-> [m.blocks[j] EXCEPT !.origin = 0]]

\* A fingerprint stands for one message.
LEMMA FingerprintRead ==
  ASSUME NEW m \in Message, NEW n \in Message, m.role = n.role
  PROVE  RequestBlocksFingerprint(m) = RequestBlocksFingerprint(n) <=> Plain(m) = Plain(n)
<1> DEFINE F == AllFrames(m)
           G == AllFrames(n)
           h == <<"role", m.role>>
<1>1. RequestBlocksFingerprint(m) = h \o FlattenSeq(F) /\ RequestBlocksFingerprint(n) = h \o FlattenSeq(G)
  BY DEF RequestBlocksFingerprint, AllFrames
<1>2. h \in Seq(Frame)
  <2>1. m.role \in Frame /\ "role" \in Frame
    BY DEF Message, Frame, Atom, Tag
  <2> QED BY <2>1
<1>3. F \in Seq(Seq(Frame)) /\ G \in Seq(Seq(Frame)) /\ ToldApart(F, G)
  BY AllFramesFacts, MessagesToldApart
<1>4. FlattenSeq(F) \in Seq(Frame) /\ FlattenSeq(G) \in Seq(Frame)
  BY <1>3, FlattenLays
<1>5. /\ Len(F) = Len(m.blocks) /\ Len(G) = Len(n.blocks)
      /\ DOMAIN m.blocks = 1 .. Len(m.blocks) /\ DOMAIN n.blocks = 1 .. Len(n.blocks)
      /\ Len(m.blocks) \in Nat /\ Len(n.blocks) \in Nat
      /\ \A j \in 1 .. Len(m.blocks) : m.blocks[j] \in Block /\ F[j] = BlockFrames(j, m.blocks[j])
      /\ \A j \in 1 .. Len(n.blocks) : n.blocks[j] \in Block /\ G[j] = BlockFrames(j, n.blocks[j])
  BY AllFramesFacts
<1> HIDE DEF F, G, h
<1>6. ASSUME h \o FlattenSeq(F) = h \o FlattenSeq(G) PROVE Plain(m) = Plain(n)
  <2>1. FlattenSeq(F) = FlattenSeq(G)
    BY <1>2, <1>4, <1>6, ConcatSimplifications
  <2>2. F = G
    BY <1>3, <2>1, Unambiguous
  <2>3. DOMAIN m.blocks = DOMAIN n.blocks
    BY <1>5, <2>2
  <2>4. ASSUME NEW j \in DOMAIN m.blocks
        PROVE  [m.blocks[j] EXCEPT !.origin = 0] = [n.blocks[j] EXCEPT !.origin = 0]
    <3>1. PICK b, c \in Block : b = m.blocks[j] /\ c = n.blocks[j]
      BY <1>5, <2>3
    <3>2. j \in Nat /\ BlockFrames(j, b) = BlockFrames(j, c)
      BY <1>5, <2>2, <2>3, <3>1
    <3>3. [b EXCEPT !.origin = 0] = [c EXCEPT !.origin = 0]
      BY <3>2, BlockRead, PlainBlock
    <3> QED BY <3>1, <3>3
  <2> QED BY <2>3, <2>4 DEF Plain
<1>7. ASSUME Plain(m) = Plain(n) PROVE F = G
  <2>1. DOMAIN m.blocks = DOMAIN n.blocks
    <3>1. DOMAIN Plain(m) = DOMAIN m.blocks /\ DOMAIN Plain(n) = DOMAIN n.blocks
      BY DEF Plain
    <3> QED BY <1>7, <3>1
  <2>2. Len(F) = Len(G)
    BY <1>5, <2>1
  <2>3. ASSUME NEW j \in 1 .. Len(F) PROVE F[j] = G[j]
    <3>1. PICK b, c \in Block : b = m.blocks[j] /\ c = n.blocks[j]
      BY <1>5, <2>2
    <3>2. [b EXCEPT !.origin = 0] = Plain(m)[j] /\ [c EXCEPT !.origin = 0] = Plain(n)[j]
      BY <1>5, <2>1, <3>1 DEF Plain
    <3>3. BlockFrames(j, b) = BlockFrames(j, c)
      BY <1>7, <3>2, PlainBlock, SameFrames
    <3> QED BY <1>5, <2>2, <3>1, <3>3
  <2> QED BY <1>3, <2>2, <2>3, SeqEqual
<1> QED BY <1>1, <1>6, <1>7

\* The invariant types both requests and keeps the roles.
LEMMA InvFingerprint == EditsInv => FingerprintTellsApart
<1> SUFFICES ASSUME EditsInv PROVE FingerprintTellsApart
  OBVIOUS
<1> SUFFICES ASSUME NEW i \in DOMAIN request.messages
             PROVE  RequestBlocksFingerprint(accepted.messages[i]) = RequestBlocksFingerprint(request.messages[i])
                      <=> Plain(accepted.messages[i]) = Plain(request.messages[i])
  BY DEF FingerprintTellsApart, Plain
<1>1. /\ accepted.messages \in Seq(Message) /\ request.messages \in Seq(Message)
      /\ i \in DOMAIN accepted.messages
      /\ accepted.messages[i].role = request.messages[i].role
  BY DEF EditsInv, RequestType
<1>2. accepted.messages[i] \in Message /\ request.messages[i] \in Message
  BY <1>1, LenProperties, ElementOfSeq
<1> QED BY <1>1, <1>2, FingerprintRead

\* No edit of a hook escapes who compares fingerprints.
THEOREM FingerprintTells == Spec => []FingerprintTellsApart
<1> QED
  BY EditsAreInv, InvFingerprint, PTL
=============================================================================
