------------------------ MODULE OutboundPolicyProofs ------------------------
(***************************************************************************)
(* Proofs about the start-up check of the policy tables, for any number of *)
(* edits of any kind the edit constants allow: in tables a host trusts no  *)
(* change of a hook's result is free, and every provider token has one     *)
(* statement of what it covers.                                            *)
(***************************************************************************)
EXTENDS OutboundPolicy, FiniteSetTheorems, SequenceTheorems, WellFoundedInduction, TLAPS

-----------------------------------------------------------------------------
\* Steps from a message to the ones it leads to.

\* A nonempty set of numbers has a least one.
LEMMA LeastOf ==
  ASSUME NEW S \in SUBSET Nat, S # {}
  PROVE  \E n \in S : \A k \in S : n <= k
<1> DEFINE R == OpToRel(<, Nat)
<1>1. IsWellFoundedOn(R, Nat)
  BY NatLessThanWellFounded
<1>2. \A k, n \in Nat : k < n => <<k, n>> \in R
  BY DEF OpToRel
<1> HIDE DEF R
<1>3. PICK n \in S : \A k \in S : <<k, n>> \notin R
  BY <1>1, WFMin
<1>4. \A k \in S : ~ k < n
  BY <1>2, <1>3
<1> QED BY <1>4

\* g[n] is what can be reached from R in at most n steps of nx.
Grows(g, R, nx, M) ==
  g = [n \in 0 .. M |->
         IF n = 0 THEN R ELSE g[n - 1] \cup UNION {nx[m] : m \in g[n - 1] \cap DOMAIN nx}]

\* There is such a function, for any number of steps.
LEMMA GrowsAll ==
  ASSUME NEW R, NEW nx, NEW M \in Nat
  PROVE  \E g : Grows(g, R, nx, M)
<1> DEFINE Bad == {n \in Nat : ~ \E g : Grows(g, R, nx, n)}
<1>1. SUFFICES ASSUME Bad # {} PROVE FALSE
  OBVIOUS
<1>2. PICK n \in Bad : \A k \in Bad : n <= k
  <2>1. Bad \in SUBSET Nat
    OBVIOUS
  <2> HIDE DEF Bad
  <2> QED BY <1>1, <2>1, LeastOf
<1>3. n \in Nat /\ ~ \E g : Grows(g, R, nx, n)
  OBVIOUS
<1>4. CASE n = 0
  <2> DEFINE g == [i \in 0 .. 0 |-> R]
  <2>1. g = [i \in 0 .. 0 |->
               IF i = 0 THEN R ELSE g[i - 1] \cup UNION {nx[m] : m \in g[i - 1] \cap DOMAIN nx}]
    <3>1. \A i \in 0 .. 0 : i = 0
      OBVIOUS
    <3> QED BY <3>1
  <2> QED BY <1>3, <1>4, <2>1 DEF Grows
<1>5. CASE n # 0
  <2>1. n - 1 \in Nat /\ n - 1 < n
    BY <1>3, <1>5
  <2>2. n - 1 \notin Bad
    BY <1>2, <1>3, <2>1
  <2>3. PICK g : Grows(g, R, nx, n - 1)
    BY <2>1, <2>2
  <2> DEFINE More(S) == S \cup UNION {nx[m] : m \in S \cap DOMAIN nx}
             e == More(g[n - 1])
             h == [i \in 0 .. n |-> IF i = n THEN e ELSE g[i]]
  <2>4. \A i \in 0 .. n - 1 : g[i] = IF i = 0 THEN R ELSE More(g[i - 1])
    BY <2>3 DEF Grows
  <2> HIDE DEF More
  <2>5. ASSUME NEW i \in 0 .. n PROVE h[i] = IF i = 0 THEN R ELSE More(h[i - 1])
    <3>1. CASE i = n
      <4>1. i - 1 \in 0 .. n /\ i - 1 # n /\ i # 0
        BY <1>3, <1>5, <3>1
      <4>2. h[i - 1] = g[n - 1] /\ h[i] = e
        BY <3>1, <4>1
      <4> QED BY <3>1, <4>1, <4>2
    <3>2. CASE i # n
      <4>1. i \in 0 .. n - 1 /\ h[i] = g[i]
        BY <1>3, <3>2
      <4>2. i # 0 => i - 1 \in 0 .. n /\ i - 1 # n
        BY <1>3, <4>1
      <4>3. i # 0 => h[i - 1] = g[i - 1]
        BY <4>2
      <4> HIDE DEF h
      <4> QED BY <2>4, <4>1, <4>3
    <3> QED BY <3>1, <3>2
  <2>6. h = [i \in 0 .. n |-> h[i]]
    OBVIOUS
  <2> HIDE DEF h
  <2>7. h = [i \in 0 .. n |-> IF i = 0 THEN R ELSE More(h[i - 1])]
    BY <2>5, <2>6
  <2>8. Grows(h, R, nx, n)
    BY <2>7 DEF Grows, More
  <2> QED BY <1>3, <2>8
<1> QED BY <1>4, <1>5

\* What the inventory check visits, and what the comparison goes into, step by
\* step.
VisitedSteps(v) ==
  v = [n \in 0 .. MaxMessages |->
         IF n = 0 THEN OutboundRoots
         ELSE v[n - 1] \cup UNION {NextMessages(m) : m \in v[n - 1] \cap DOMAIN policies}]
GoesInto(m) == UNION {ComparedInto(m, f) : f \in DOMAIN descriptors[m]}
ComparedSteps(c) ==
  c = [n \in 0 .. MaxMessages |->
         IF n = 0 THEN OutboundRoots
         ELSE c[n - 1] \cup UNION {GoesInto(m) : m \in c[n - 1] \cap DOMAIN policies}]

\* What is visited is where such steps end.
LEMMA VisitedIs == \E v : VisitedSteps(v) /\ Visited = v[MaxMessages]
<1> DEFINE nx == [m \in DOMAIN policies |-> NextMessages(m)]
           v == CHOOSE v : VisitedSteps(v)
<1>1. MaxMessages \in Nat
  BY MaxMessagesAssumption
<1>2. \A S : {nx[m] : m \in S \cap DOMAIN nx} = {NextMessages(m) : m \in S \cap DOMAIN policies}
  OBVIOUS
<1> HIDE DEF nx
<1>3. PICK g : Grows(g, OutboundRoots, nx, MaxMessages)
  BY <1>1, GrowsAll
<1>4. VisitedSteps(g)
  BY <1>2, <1>3 DEF Grows, VisitedSteps
<1>5. VisitedSteps(v)
  BY <1>4
<1>6. Visited = v[MaxMessages]
  BY DEF Visited, VisitedSteps
<1> QED BY <1>5, <1>6

\* And so is what is compared.
LEMMA ComparedIs == \E c : ComparedSteps(c) /\ Compared = c[MaxMessages]
<1> DEFINE nx == [m \in DOMAIN policies |-> GoesInto(m)]
           c == CHOOSE c : ComparedSteps(c)
<1>1. MaxMessages \in Nat
  BY MaxMessagesAssumption
<1>2. \A S : {nx[m] : m \in S \cap DOMAIN nx} = {GoesInto(m) : m \in S \cap DOMAIN policies}
  OBVIOUS
<1> HIDE DEF nx
<1>3. PICK g : Grows(g, OutboundRoots, nx, MaxMessages)
  BY <1>1, GrowsAll
<1>4. ComparedSteps(g)
  BY <1>2, <1>3 DEF Grows, ComparedSteps
<1>5. ComparedSteps(c)
  BY <1>4
<1>6. Compared = c[MaxMessages]
  BY DEF Compared, ComparedSteps, GoesInto
<1> QED BY <1>5, <1>6

\* Every step of the visit is part of its end.
LEMMA VisitedGrows ==
  ASSUME NEW v, VisitedSteps(v), NEW n \in 0 .. MaxMessages
  PROVE  v[n] \subseteq v[MaxMessages]
<1> DEFINE Bad == {k \in Nat : k <= MaxMessages /\ ~ v[MaxMessages - k] \subseteq v[MaxMessages]}
<1>1. MaxMessages \in Nat
  BY MaxMessagesAssumption
<1>2. ASSUME Bad # {} PROVE FALSE
  <2>1. PICK k \in Bad : \A j \in Bad : k <= j
    <3>1. Bad \in SUBSET Nat
      OBVIOUS
    <3> HIDE DEF Bad
    <3> QED BY <1>2, <3>1, LeastOf
  <2>2. k \in Nat /\ k <= MaxMessages /\ ~ v[MaxMessages - k] \subseteq v[MaxMessages]
    BY <2>1
  <2>3. k # 0
    BY <1>1, <2>2
  <2>4. k - 1 \notin Bad /\ k - 1 \in Nat
    BY <2>1, <2>2, <2>3
  <2>5. v[MaxMessages - (k - 1)] \subseteq v[MaxMessages]
    BY <1>1, <2>2, <2>4
  <2>6. PICK i \in 0 .. MaxMessages : i = MaxMessages - (k - 1) /\ i - 1 = MaxMessages - k /\ i # 0
    BY <1>1, <2>2, <2>3
  <2>7. v[i - 1] \subseteq v[i]
    BY <2>6 DEF VisitedSteps
  <2> QED BY <2>2, <2>5, <2>6, <2>7
<1>3. MaxMessages - n \notin Bad
  BY <1>2
<1>4. MaxMessages - n \in Nat /\ MaxMessages - n <= MaxMessages /\ MaxMessages - (MaxMessages - n) = n
  BY <1>1
<1> QED BY <1>3, <1>4

-----------------------------------------------------------------------------
\* What Validate says of what the comparison meets.

\* Every message the check visits is complete.
VisitComplete(descs) == \A m \in Visited : MessageComplete(m, descs)

\* The comparison goes from a complete message only to where the check went.
LEMMA IntoNext ==
  ASSUME NEW descs, DelegatesKnown(descs), NEW m, MessageComplete(m, descs)
  PROVE  GoesInto(m) \subseteq NextMessages(m)
<1> SUFFICES ASSUME NEW f \in DOMAIN descriptors[m], NEW x \in ComparedInto(m, f)
             PROVE  x \in NextMessages(m)
  BY DEF GoesInto
<1>1. m \in DOMAIN policies /\ f \in DOMAIN policies[m] \cap DOMAIN descriptors[m]
  BY DEF MessageComplete
<1>2. PolicyValid(policies[m][f])
  BY DEF MessageComplete
<1>3. policies[m][f].kind = "delegate" => policies[m][f].delegate \in DOMAIN targets
  BY <1>2 DEF PolicyValid, DelegatesKnown
<1> QED BY <1>1, <1>3 DEF ComparedInto, NextMessages

\* So the comparison meets only what was visited.
LEMMA ComparedVisited ==
  ASSUME NEW descs, DelegatesKnown(descs), VisitComplete(descs)
  PROVE  Compared \subseteq Visited
<1>1. PICK v : VisitedSteps(v) /\ Visited = v[MaxMessages]
  BY VisitedIs
<1>2. PICK c : ComparedSteps(c) /\ Compared = c[MaxMessages]
  BY ComparedIs
<1>3. MaxMessages \in Nat
  BY MaxMessagesAssumption
<1> DEFINE Bad == {n \in Nat : n <= MaxMessages /\ ~ c[n] \subseteq v[n]}
<1>4. ASSUME Bad # {} PROVE FALSE
  <2>1. PICK n \in Bad : \A k \in Bad : n <= k
    <3>1. Bad \in SUBSET Nat
      OBVIOUS
    <3> HIDE DEF Bad
    <3> QED BY <1>4, <3>1, LeastOf
  <2>2. n \in 0 .. MaxMessages /\ ~ c[n] \subseteq v[n]
    BY <1>3, <2>1
  <2>3. n # 0
    BY <1>1, <1>2, <2>2 DEF VisitedSteps, ComparedSteps
  <2>4. n - 1 \in 0 .. MaxMessages /\ n - 1 \notin Bad
    BY <1>3, <2>1, <2>2, <2>3
  <2>5. c[n - 1] \subseteq v[n - 1]
    BY <2>4
  <2> HIDE DEF Bad
  <2>6. v[n - 1] \subseteq Visited
    BY <1>1, <2>4, VisitedGrows
  <2>7. \A m \in c[n - 1] : GoesInto(m) \subseteq NextMessages(m)
    BY <2>5, <2>6, IntoNext DEF VisitComplete
  <2>8. c[n] = c[n - 1] \cup UNION {GoesInto(m) : m \in c[n - 1] \cap DOMAIN policies}
    BY <1>2, <2>2, <2>3 DEF ComparedSteps
  <2>9. v[n] = v[n - 1] \cup UNION {NextMessages(m) : m \in v[n - 1] \cap DOMAIN policies}
    BY <1>1, <2>2, <2>3 DEF VisitedSteps
  <2>10. ASSUME NEW x \in c[n] PROVE x \in v[n]
    <3>1. CASE x \in c[n - 1]
      BY <2>5, <2>9, <3>1
    <3>2. ASSUME NEW m \in c[n - 1] \cap DOMAIN policies, x \in GoesInto(m) PROVE x \in v[n]
      BY <2>5, <2>7, <2>9, <3>2
    <3> QED BY <2>8, <3>1, <3>2
  <2> QED BY <2>2, <2>10
<1>5. MaxMessages \notin Bad
  BY <1>4
<1> QED BY <1>1, <1>2, <1>3, <1>5

\* A field of a complete message is answered.
LEMMA CompleteAnswered ==
  ASSUME NEW descs, NEW m, MessageComplete(m, descs), NEW f \in DOMAIN descriptors[m]
  PROVE  Answered(m, f)
<1> DEFINE p == policies[m][f]
<1>1. m \in DOMAIN policies /\ f \in DOMAIN policies[m]
  BY DEF MessageComplete
<1>2. PolicyValid(p) /\ KindFits(p, descriptors[m][f])
  BY DEF MessageComplete
<1>3. "ir.stream.write" \in WritePermissions
  BY DEF WritePermissions
<1> QED BY <1>1, <1>2, <1>3 DEF PolicyValid, PolicyKinds, KindFits, Answered

\* What NoFreeChange says of trusted tables.
ChangesAnswered ==
  \A m \in Compared : m \in DOMAIN policies /\ \A f \in DOMAIN descriptors[m] : Answered(m, f)

\* It follows from what Validate asks.
LEMMA ValidAnswers ==
  ASSUME NEW descs, Validate(descs)
  PROVE  ChangesAnswered
<1>1. DelegatesKnown(descs) /\ VisitComplete(descs)
  BY DEF Validate, VisitComplete
<1>2. Compared \subseteq Visited
  BY <1>1, ComparedVisited
<1>3. \A m \in Compared : MessageComplete(m, descs)
  BY <1>1, <1>2 DEF VisitComplete
<1>4. \A m \in Compared : m \in DOMAIN policies
  BY <1>3 DEF MessageComplete
<1> QED BY <1>3, <1>4, CompleteAnswered DEF ChangesAnswered

\* What is said of tables stays true while they do.
LEMMA AnswersStay ==
  ASSUME ChangesAnswered, UNCHANGED tables
  PROVE  ChangesAnswered'
<1>1. Compared' = Compared
  BY SMT DEF tables, Compared, ComparedInto
<1>2. descriptors' = descriptors /\ policies' = policies
  BY DEF tables
<1>3. \A m, f : Answered(m, f)' = Answered(m, f)
  BY <1>2 DEF Answered
<1> HIDE DEF Compared
<1> QED BY <1>1, <1>2, <1>3 DEF ChangesAnswered

\* A process is trusted only by its start, which leaves the tables alone.
LEMMA TrustedAtStart ==
  ASSUME [Next]_vars, phase' = "trusted"
  PROVE  UNCHANGED tables /\ (phase = "trusted" \/ \E descs : Validate(descs))
<1>1. CASE Edit
  BY <1>1 DEF Edit
<1>2. CASE Start
  <2>1. Validate(OutboundDescriptors)
    BY <1>2 DEF Start
  <2> QED BY <1>2, <2>1 DEF Start
<1>3. CASE UNCHANGED vars
  BY <1>3 DEF vars, tables
<1> QED BY <1>1, <1>2, <1>3 DEF Next

\* In tables a host trusts no change of a hook's result is free, however the
\* schema and the tables were edited before.
THEOREM NoChangeIsFree == Spec => []NoFreeChange
<1> DEFINE IInv == phase = "trusted" => ChangesAnswered
<1>1. Init => IInv
  BY DEF Init
<1>2. IInv /\ [Next]_vars => IInv'
  <2> SUFFICES ASSUME IInv, [Next]_vars, phase' = "trusted" PROVE ChangesAnswered'
    OBVIOUS
  <2>1. ChangesAnswered /\ UNCHANGED tables
    BY TrustedAtStart, ValidAnswers
  <2> QED BY <2>1, AnswersStay
<1>3. IInv => NoFreeChange
  BY DEF NoFreeChange, ChangesAnswered
<1> QED BY <1>1, <1>2, <1>3, PTL DEF Spec

-----------------------------------------------------------------------------
\* Every token has one statement of what it covers.

\* The members of a sequence are its entries.
LEMMA Entries ==
  ASSUME NEW s, NEW x \in ToSet(s)
  PROVE  \E i \in DOMAIN s : s[i] = x
  BY DEF ToSet

\* What Validate asks of bindings and policies gives each token its binding.
LEMMA ValidBindsOnce ==
  ASSUME NEW descs, Validate(descs)
  PROVE  OneBindingEach
<1> SUFFICES ASSUME NEW domain \in SignatureDomains, NEW token \in Tokens(domain)
             PROVE  \E i \in DOMAIN bindings :
                      /\ BindingsOf(domain, token) = {i}
                      /\ bindings[i].content # <<>>
                      /\ \A ref \in ToSet(bindings[i].content) :
                           ref.field \in DOMAIN descriptors[Owner(bindings[i], ref)]
  BY DEF OneBindingEach
<1> DEFINE Named(b) == b.domain = domain /\ <<b.message, b.field>> = token
<1>1. \E b \in ToSet(bindings) : Named(b)
  <2>1. CASE domain = "request"
    <3> DEFINE tokens == {SubSeq(path, Len(path) - 1, Len(path)) : path \in TokenPaths}
               declared == {<<b.message, b.field>> : b \in {c \in ToSet(bindings) : c.domain = "request"}}
    <3>1. declared = tokens
      BY DEF Validate, RequestBindingCompleteness
    <3>2. token \in tokens
      BY <2>1 DEF Tokens
    <3> HIDE DEF tokens
    <3>3. token \in declared
      BY <3>1, <3>2
    <3> QED BY <2>1, <3>3
  <2>2. CASE domain # "request"
    <3> DEFINE signed(m) == {<<m, f>> : f \in {g \in DOMAIN policies[m] : policies[m][g].kind = "bound_signature"}}
               declared == {<<b.message, b.field>> : b \in {c \in ToSet(bindings) : c.domain = "outbound"}}
    <3>1. domain = "outbound"
      BY <2>2 DEF SignatureDomains
    <3>2. declared = UNION {signed(m) : m \in DOMAIN policies}
      BY DEF Validate, BoundSignaturePairing
    <3>3. \E m \in Visited : token \in signed(m)
      BY <2>2 DEF Tokens
    <3>4. \A m \in Visited : m \in DOMAIN policies
      BY DEF Validate, MessageComplete
    <3> HIDE DEF signed
    <3>5. token \in declared
      BY <3>2, <3>3, <3>4
    <3> QED BY <3>1, <3>5
  <2> QED BY <2>1, <2>2
<1>2. PICK i \in DOMAIN bindings : Named(bindings[i])
  BY <1>1, Entries
<1>3. ASSUME NEW j \in DOMAIN bindings, Named(bindings[j]) PROVE j = i
  <2> DEFINE name == [k \in DOMAIN bindings |-> <<bindings[k].domain, bindings[k].message, bindings[k].field>>]
  <2>1. NoRepeats(name)
    BY DEF Validate, BindingsUnique
  <2>2. name[i] = <<domain, token[1], token[2]>> /\ name[j] = <<domain, token[1], token[2]>>
    BY <1>2, <1>3
  <2>3. DOMAIN name = DOMAIN bindings
    OBVIOUS
  <2> HIDE DEF name
  <2> QED BY <2>1, <2>2, <2>3 DEF NoRepeats
<1>4. BindingsOf(domain, token) = {i}
  BY <1>2, <1>3 DEF BindingsOf
<1>5. bindings[i] \in ToSet(bindings)
  BY DEF ToSet
<1>6. bindings[i].content # <<>>
  BY <1>5 DEF Validate, BindingShape
<1>7. ASSUME NEW ref \in ToSet(bindings[i].content)
      PROVE  ref.field \in DOMAIN descriptors[Owner(bindings[i], ref)]
  <2>1. CASE domain = "request"
    <3>1. RequestBindingFits(bindings[i], descs)
      BY <1>2, <1>5, <2>1 DEF Validate
    <3> QED BY <1>7, <3>1 DEF RequestBindingFits
  <2>2. CASE domain # "request"
    <3>1. OutboundBindingFits(bindings[i], descs)
      BY <1>2, <1>5, <2>2 DEF Validate, SignatureDomains
    <3> QED BY <1>7, <3>1 DEF OutboundBindingFits
  <2> QED BY <2>1, <2>2
<1> QED BY <1>4, <1>6, <1>7

-----------------------------------------------------------------------------
\* The tables are lists, whatever was edited.

Listing(s) == s \in Seq(ToSet(s))
Covering(e) == "content" \in DOMAIN e /\ Listing(e.content)
IsTable(t) == Listing(t) /\ \A i \in DOMAIN t : Covering(t[i])

\* What a list is.
LEMMA ListingIs ==
  ASSUME NEW s, NEW R, s \in Seq(R)
  PROVE  Listing(s) /\ Len(s) \in Nat /\ DOMAIN s = 1 .. Len(s) /\ ToSet(s) \subseteq R
  BY DEF Listing, ToSet

\* One entry fewer.
LEMMA RemoveLists ==
  ASSUME NEW s, Listing(s), NEW i \in DOMAIN s
  PROVE  /\ Listing(RemoveAt(s, i))
         /\ \A j \in DOMAIN RemoveAt(s, i) : \E k \in DOMAIN s : RemoveAt(s, i)[j] = s[k]
<1> DEFINE R == ToSet(s)
<1>1. s \in Seq(R) /\ Len(s) \in Nat /\ i \in 1 .. Len(s)
  BY DEF Listing
<1> HIDE DEF R
<1>2. SubSeq(s, 1, i - 1) \in Seq(R) /\ SubSeq(s, i + 1, Len(s)) \in Seq(R)
  BY <1>1
<1>3. RemoveAt(s, i) \in Seq(R)
  BY <1>2 DEF RemoveAt
<1>4. Listing(RemoveAt(s, i))
  BY <1>3, ListingIs
<1>5. \A j \in DOMAIN RemoveAt(s, i) : RemoveAt(s, i)[j] \in R
  BY <1>3
<1> QED BY <1>4, <1>5, Entries DEF R

\* One entry more.
LEMMA AppendLists ==
  ASSUME NEW s, Listing(s), NEW x
  PROVE  /\ Listing(Append(s, x))
         /\ \A j \in DOMAIN Append(s, x) :
              Append(s, x)[j] = x \/ \E k \in DOMAIN s : Append(s, x)[j] = s[k]
<1> DEFINE R == ToSet(s)
<1>1. s \in Seq(R) /\ Len(s) \in Nat
  BY DEF Listing
<1> HIDE DEF R
<1>2. Append(s, x) \in Seq(R \cup {x})
  BY <1>1
<1>3. Listing(Append(s, x))
  BY <1>2, ListingIs
<1>4. \A j \in DOMAIN Append(s, x) : Append(s, x)[j] \in R \cup {x}
  BY <1>2
<1> QED BY <1>3, <1>4, Entries DEF R

\* One entry replaced.
LEMMA ReplaceLists ==
  ASSUME NEW s, Listing(s), NEW i \in DOMAIN s, NEW x
  PROVE  /\ Listing([s EXCEPT ![i] = x])
         /\ DOMAIN [s EXCEPT ![i] = x] = DOMAIN s
         /\ \A j \in DOMAIN s : [s EXCEPT ![i] = x][j] = IF j = i THEN x ELSE s[j]
<1> DEFINE R == ToSet(s)
<1>1. s \in Seq(R) /\ Len(s) \in Nat
  BY DEF Listing
<1> HIDE DEF R
<1>2. [s EXCEPT ![i] = x] \in Seq(R \cup {x})
  BY <1>1
<1>3. Listing([s EXCEPT ![i] = x])
  BY <1>2, ListingIs
<1> QED BY <1>3

\* An edit of a table leaves a table whose entries list what they cover.
LEMMA EditsOfTables ==
  ASSUME NEW t, IsTable(t), NEW u \in Edits(t)
  PROVE  IsTable(u)
<1>1. Listing(t) /\ \A i \in DOMAIN t : Covering(t[i])
  BY DEF IsTable
<1>2. ASSUME NEW i \in DOMAIN t, u = RemoveAt(t, i) PROVE IsTable(u)
  <2>1. Listing(u) /\ \A j \in DOMAIN u : \E k \in DOMAIN t : u[j] = t[k]
    BY <1>1, <1>2, RemoveLists
  <2> QED BY <1>1, <2>1 DEF IsTable
<1>3. ASSUME NEW i \in DOMAIN t, u = Append(t, t[i]) PROVE IsTable(u)
  <2>1. Listing(u) /\ \A j \in DOMAIN u : u[j] = t[i] \/ \E k \in DOMAIN t : u[j] = t[k]
    BY <1>1, <1>3, AppendLists
  <2> QED BY <1>1, <2>1 DEF IsTable
<1>4. ASSUME NEW i \in DOMAIN t, NEW e \in Recovered(t[i]), u = [t EXCEPT ![i] = e] PROVE IsTable(u)
  <2> DEFINE s == t[i].content
  <2>1. Covering(t[i]) /\ Listing(s)
    BY <1>1 DEF Covering
  <2>2. Covering(e)
    <3>1. "content" \in DOMAIN t[i]
      BY <2>1 DEF Covering
    <3> HIDE DEF s
    <3>2. ASSUME NEW j \in DOMAIN s, e = [t[i] EXCEPT !.content = RemoveAt(s, j)] PROVE Covering(e)
      <4>1. Listing(RemoveAt(s, j))
        BY <2>1, RemoveLists
      <4>2. "content" \in DOMAIN e /\ e.content = RemoveAt(s, j)
        BY <3>1, <3>2
      <4> QED BY <4>1, <4>2 DEF Covering
    <3>3. ASSUME NEW ref \in SomeRefs, e = [t[i] EXCEPT !.content = Append(s, ref)] PROVE Covering(e)
      <4>1. Listing(Append(s, ref))
        BY <2>1, AppendLists
      <4>2. "content" \in DOMAIN e /\ e.content = Append(s, ref)
        BY <3>1, <3>3
      <4> QED BY <4>1, <4>2 DEF Covering
    <3>4. ASSUME NEW j \in DOMAIN s, NEW ref \in SomeRefs,
                 e = [t[i] EXCEPT !.content = [s EXCEPT ![j] = ref]] PROVE Covering(e)
      <4>1. Listing([s EXCEPT ![j] = ref])
        BY <2>1, ReplaceLists
      <4>2. "content" \in DOMAIN e /\ e.content = [s EXCEPT ![j] = ref]
        BY <3>1, <3>4
      <4> QED BY <4>1, <4>2 DEF Covering
    <3>5. \/ \E j \in DOMAIN s : e = [t[i] EXCEPT !.content = RemoveAt(s, j)]
          \/ \E ref \in SomeRefs : e = [t[i] EXCEPT !.content = Append(s, ref)]
          \/ \E j \in DOMAIN s : \E ref \in SomeRefs : e = [t[i] EXCEPT !.content = [s EXCEPT ![j] = ref]]
      BY <1>4 DEF Recovered, s
    <3> QED BY <3>2, <3>3, <3>4, <3>5
  <2>3. /\ Listing(u) /\ DOMAIN u = DOMAIN t
        /\ \A j \in DOMAIN t : u[j] = IF j = i THEN e ELSE t[j]
    BY <1>1, <1>4, ReplaceLists
  <2> QED BY <1>1, <2>2, <2>3 DEF IsTable
<1>5. \/ \E i \in DOMAIN t : u = RemoveAt(t, i)
      \/ \E i \in DOMAIN t : u = Append(t, t[i])
      \/ \E i \in DOMAIN t : \E e \in Recovered(t[i]) : u = [t EXCEPT ![i] = e]
  BY DEF Edits
<1> QED BY <1>2, <1>3, <1>4, <1>5

\* The bindings stay a table.
LEMMA BindingsStayTable ==
  ASSUME IsTable(bindings), [Next]_vars
  PROVE  IsTable(bindings')
<1>1. CASE UNCHANGED bindings
  BY <1>1
<1>2. ASSUME EditBindings PROVE IsTable(bindings')
  <2>1. CASE bindings' \in Edits(bindings)
    BY <2>1, EditsOfTables
  <2>2. ASSUME NEW i \in DOMAIN bindings, NEW e, "content" \in DOMAIN e,
               e.content = bindings[i].content, bindings' = [bindings EXCEPT ![i] = e]
        PROVE  IsTable(bindings')
    <3>1. Listing(bindings) /\ \A j \in DOMAIN bindings : Covering(bindings[j])
      BY DEF IsTable
    <3>2. /\ Listing(bindings') /\ DOMAIN bindings' = DOMAIN bindings
          /\ \A j \in DOMAIN bindings : bindings'[j] = IF j = i THEN e ELSE bindings[j]
      BY <2>2, <3>1, ReplaceLists
    <3>3. Covering(e)
      BY <2>2, <3>1 DEF Covering
    <3> QED BY <3>1, <3>2, <3>3 DEF IsTable
  <2>3. \A i \in DOMAIN bindings : "content" \in DOMAIN bindings[i]
    BY DEF IsTable, Covering
  <2>4. ASSUME NEW i \in DOMAIN bindings, NEW x, bindings' = [bindings EXCEPT ![i].domain = x]
        PROVE  IsTable(bindings')
    <3> DEFINE e == [bindings[i] EXCEPT !.domain = x]
    <3>1. "content" \in DOMAIN e /\ e.content = bindings[i].content
      BY <2>3
    <3>2. bindings' = [bindings EXCEPT ![i] = e]
      BY <2>4
    <3> HIDE DEF e
    <3> QED BY <2>2, <3>1, <3>2
  <2>5. ASSUME NEW i \in DOMAIN bindings, NEW x, bindings' = [bindings EXCEPT ![i].message = x]
        PROVE  IsTable(bindings')
    <3> DEFINE e == [bindings[i] EXCEPT !.message = x]
    <3>1. "content" \in DOMAIN e /\ e.content = bindings[i].content
      BY <2>3
    <3>2. bindings' = [bindings EXCEPT ![i] = e]
      BY <2>5
    <3> HIDE DEF e
    <3> QED BY <2>2, <3>1, <3>2
  <2>6. \/ bindings' \in Edits(bindings)
        \/ \E i \in DOMAIN bindings : \E x : bindings' = [bindings EXCEPT ![i].domain = x]
        \/ \E i \in DOMAIN bindings : \E x : bindings' = [bindings EXCEPT ![i].message = x]
    BY <1>2 DEF EditBindings
  <2> QED BY <2>1, <2>4, <2>5, <2>6
<1>3. UNCHANGED bindings \/ EditBindings
  BY DEF Next, Edit, Start, EditSchema, EditPolicy, EditTargets, EditContracts, vars, tables
<1> QED BY <1>1, <1>2, <1>3

\* Fields of a message listed one by one.
LEMMA OwnLists ==
  ASSUME NEW X, NEW fields \in Seq(X)
  PROVE  Own(fields) \in Seq({Ref("same_message", "", f) : f \in X})
<1> DEFINE O == {Ref("same_message", "", f) : f \in X}
<1>1. Len(fields) \in Nat /\ DOMAIN fields = 1 .. Len(fields) /\ \A i \in DOMAIN fields : fields[i] \in X
  OBVIOUS
<1>2. \A x \in X : Ref("same_message", "", x) \in O
  OBVIOUS
<1>3. DOMAIN Own(fields) = 1 .. Len(fields) /\ \A i \in DOMAIN fields : Own(fields)[i] = Ref("same_message", "", fields[i])
  BY <1>1 DEF Own
<1>4. Own(fields) = [i \in 1 .. Len(fields) |-> Own(fields)[i]]
  BY <1>1 DEF Own
<1> HIDE DEF O
<1>5. Own(fields) \in [1 .. Len(fields) -> O]
  BY <1>1, <1>2, <1>3, <1>4
<1>6. Own(fields) \in Seq(O)
  BY <1>1, <1>5
<1> QED BY <1>6 DEF O

\* The coverage of every request token that ships is a list.
LEMMA CoverageLists ==
  /\ RequestCoverage \in Seq(ToSet(RequestCoverage))
  /\ \A i \in DOMAIN RequestCoverage : Listing(RequestCoverage[i][2])
<1> DEFINE X == {"text", "part_metadata_json", "id", "name", "arguments_json", "input_text", "invocation_kind",
                 "kind", "payload_json", "tool_call_id", "tool_name", "will_continue", "scheduling", "content"}
           O == {Ref("same_message", "", f) : f \in X}
           a == <<"text", "part_metadata_json">>
           b == <<"id", "name", "arguments_json", "input_text", "invocation_kind", "part_metadata_json">>
           c == <<"kind", "payload_json", "part_metadata_json">>
           d == <<"tool_call_id", "tool_name", "part_metadata_json", "will_continue", "scheduling",
                  "content", "invocation_kind">>
           e == <<"part_metadata_json">>
           t == <<Ref("trailing", "RequestTextBlock", "text"), Ref("trailing", "RequestThinkingBlock", "text")>>
<1>1. a \in Seq(X) /\ b \in Seq(X) /\ c \in Seq(X) /\ d \in Seq(X) /\ e \in Seq(X)
  OBVIOUS
<1>2. RequestCoverage =
        <<<<"RequestThinkingBlock", Own(a)>>, <<"RequestToolUseBlock", Own(b)>>,
          <<"RequestUnknownBlock", Own(c)>>, <<"RequestToolResultBlock", Own(d)>>,
          <<"RequestTrailingSignatureBlock", Own(e) \o t>>, <<"RequestTextBlock", Own(a)>>>>
  BY DEF RequestCoverage
<1> HIDE DEF X, a, b, c, d, e
<1>3. Own(a) \in Seq(O) /\ Own(b) \in Seq(O) /\ Own(c) \in Seq(O) /\ Own(d) \in Seq(O) /\ Own(e) \in Seq(O)
  BY <1>1, OwnLists
<1>4. t \in Seq(ToSet(t))
  BY DEF ToSet
<1> HIDE DEF O, t
<1>5. Own(e) \o t \in Seq(O \cup ToSet(t))
  BY <1>3, <1>4
<1>6. Listing(Own(a)) /\ Listing(Own(b)) /\ Listing(Own(c)) /\ Listing(Own(d)) /\ Listing(Own(e) \o t)
  BY <1>3, <1>5, ListingIs
<1>7. /\ DOMAIN RequestCoverage = 1 .. 6
      /\ RequestCoverage[1][2] = Own(a) /\ RequestCoverage[2][2] = Own(b)
      /\ RequestCoverage[3][2] = Own(c) /\ RequestCoverage[4][2] = Own(d)
      /\ RequestCoverage[5][2] = Own(e) \o t /\ RequestCoverage[6][2] = Own(a)
  BY <1>2
<1>8. ASSUME NEW i \in 1 .. 6 PROVE Listing(RequestCoverage[i][2])
  <2>1. i = 1 \/ i = 2 \/ i = 3 \/ i = 4 \/ i = 5 \/ i = 6
    OBVIOUS
  <2> QED BY <1>6, <1>7, <2>1
<1>9. RequestCoverage \in Seq(ToSet(RequestCoverage))
  <2>1. RequestCoverage = [i \in 1 .. 6 |-> RequestCoverage[i]]
    BY <1>2
  <2>2. \A i \in 1 .. 6 : RequestCoverage[i] \in ToSet(RequestCoverage)
    BY <1>7 DEF ToSet
  <2> QED BY <2>1, <2>2
<1> QED BY <1>7, <1>8, <1>9

\* The tables that ship list what their entries cover.
LEMMA ShippedLists ==
  /\ IsTable(SignatureBindings)
  /\ \A i \in DOMAIN RequestSignatureContracts : Listing(RequestSignatureContracts[i].content)
<1> DEFINE B(i) == Binding("request", RequestCoverage[i][1], "signature", RequestCoverage[i][2])
           request == [i \in DOMAIN RequestCoverage |-> B(i)]
           C == {e \in ToSet(request) \cup ToSet(OutboundBindings) : Covering(e)}
<1>1. \A i \in DOMAIN RequestCoverage : Covering(B(i))
  BY CoverageLists DEF Binding, Covering
<1>2. request \in Seq(C)
  <2>1. \A i \in DOMAIN RequestCoverage : request[i] = B(i) /\ B(i) \in ToSet(request)
    BY DEF ToSet
  <2>2. \A i \in DOMAIN RequestCoverage : B(i) \in C
    BY <1>1, <2>1
  <2>3. Len(RequestCoverage) \in Nat /\ DOMAIN RequestCoverage = 1 .. Len(RequestCoverage)
    BY CoverageLists
  <2> HIDE DEF B, C
  <2>4. request \in [1 .. Len(RequestCoverage) -> C]
    BY <2>2, <2>3
  <2> HIDE DEF request
  <2> QED BY <2>3, <2>4
<1>3. OutboundBindings \in Seq(C)
  <2> DEFINE X == {"id", "name", "arguments_json", "invocation_kind"}
             a == <<"id", "name", "arguments_json">>
             b == <<"id", "name", "invocation_kind">>
             t == <<Ref("tool_block", "ToolCallDelta", "arguments_delta"),
                    Ref("tool_block", "ToolCallDelta", "input_text_delta")>>
             u == <<Ref("current_block", "StreamEvent", "text_delta"),
                    Ref("current_block", "StreamEvent", "thinking_delta"),
                    Ref("trailing", "StreamEvent", "text_delta"),
                    Ref("trailing", "StreamEvent", "thinking_delta")>>
             O == {Ref("same_message", "", f) : f \in X}
  <2>1. a \in Seq(X) /\ b \in Seq(X)
    OBVIOUS
  <2>2. t \in Seq(ToSet(t)) /\ u \in Seq(ToSet(u))
    BY DEF ToSet
  <2>3. OutboundBindings =
          <<Binding("outbound", "ToolCall", "signature", Own(a)),
            Binding("outbound", "ToolCallRef", "signature", Own(b) \o t),
            Binding("outbound", "StreamEvent", "signature_delta", u)>>
    BY DEF OutboundBindings
  <2> HIDE DEF X, a, b, t, u
  <2>4. Own(a) \in Seq(O) /\ Own(b) \in Seq(O)
    BY <2>1, OwnLists
  <2> HIDE DEF O
  <2>5. Own(b) \o t \in Seq(O \cup ToSet(t))
    BY <2>2, <2>4
  <2>6. Listing(Own(a)) /\ Listing(Own(b) \o t) /\ Listing(u)
    BY <2>2, <2>4, <2>5, ListingIs
  <2>7. \A message, field, content : Listing(content) => Covering(Binding("outbound", message, field, content))
    BY DEF Binding, Covering
  <2>8. DOMAIN OutboundBindings = 1 .. 3 /\ \A i \in 1 .. 3 : Covering(OutboundBindings[i])
    <3>1. /\ DOMAIN OutboundBindings = 1 .. 3
          /\ OutboundBindings[1] = Binding("outbound", "ToolCall", "signature", Own(a))
          /\ OutboundBindings[2] = Binding("outbound", "ToolCallRef", "signature", Own(b) \o t)
          /\ OutboundBindings[3] = Binding("outbound", "StreamEvent", "signature_delta", u)
      BY <2>3
    <3>2. \A i \in 1 .. 3 : i = 1 \/ i = 2 \/ i = 3
      OBVIOUS
    <3> QED BY <2>6, <2>7, <3>1, <3>2
  <2>9. \A i \in 1 .. 3 : OutboundBindings[i] \in C
    BY <2>8 DEF ToSet
  <2>10. OutboundBindings = [i \in 1 .. 3 |-> OutboundBindings[i]]
    BY <2>3
  <2> HIDE DEF C
  <2> QED BY <2>9, <2>10
<1>4. SignatureBindings = request \o OutboundBindings
  BY DEF SignatureBindings
<1> HIDE DEF request
<1>5. SignatureBindings \in Seq(C)
  BY <1>2, <1>3, <1>4
<1>6. IsTable(SignatureBindings)
  <2>1. \A i \in DOMAIN SignatureBindings : SignatureBindings[i] \in C
    BY <1>5
  <2>2. \A i \in DOMAIN SignatureBindings : Covering(SignatureBindings[i])
    BY <2>1
  <2> HIDE DEF C
  <2> QED BY <1>5, <2>2, ListingIs DEF IsTable
<1>7. ASSUME NEW i \in DOMAIN RequestSignatureContracts
      PROVE  Listing(RequestSignatureContracts[i].content)
  BY CoverageLists DEF RequestSignatureContracts
<1> QED BY <1>6, <1>7

\* A list without repeats that is as long as another and names nothing else
\* names all of it.
LEMMA SameLengthSameFields ==
  ASSUME NEW b, NEW c, Listing(b), Listing(c), NoRepeats(b), Len(b) = Len(c), ToSet(b) \subseteq ToSet(c)
  PROVE  ToSet(b) = ToSet(c)
<1> DEFINE B == ToSet(b)
           C == ToSet(c)
           n == Len(b)
<1>1. n \in Nat /\ DOMAIN b = 1 .. n /\ DOMAIN c = 1 .. n
  BY ListingIs DEF Listing
<1>2. IsFiniteSet(1 .. n) /\ Cardinality(1 .. n) = n
  <2>1. n \in Nat
    BY <1>1
  <2> HIDE DEF n
  <2>2. IsFiniteSet(1 .. n) /\ Cardinality(1 .. n) = IF 1 > n THEN 0 ELSE n - 1 + 1
    BY <2>1, FS_Interval
  <2> QED BY <2>1, <2>2
<1>3. c \in Surjection(1 .. n, C)
  <2>1. c \in [1 .. n -> C]
    BY <1>1 DEF Listing
  <2>2. \A x \in C : \E i \in 1 .. n : c[i] = x
    BY <1>1 DEF ToSet
  <2> HIDE DEF C, n
  <2> QED BY <2>1, <2>2 DEF Surjection
<1>4. b \in Injection(1 .. n, C)
  <2>1. b \in [1 .. n -> C]
    <3>1. b \in [1 .. n -> B]
      BY <1>1 DEF Listing
    <3> HIDE DEF B, n
    <3>2. B \subseteq C
      BY DEF B
    <3> QED BY <3>1, <3>2
  <2>2. \A i, j \in 1 .. n : b[i] = b[j] => i = j
    BY <1>1 DEF NoRepeats
  <2> HIDE DEF C, n
  <2> QED BY <2>1, <2>2 DEF Injection, IsInjective
<1> HIDE DEF n, C
<1>5. IsFiniteSet(C) /\ Cardinality(C) <= n
  BY <1>2, <1>3, FS_Surjection
<1>6. n <= Cardinality(C) /\ (n = Cardinality(C) <=> b \in Surjection(1 .. n, C))
  BY <1>2, <1>4, <1>5, FS_Injection
<1>7. Cardinality(C) \in Nat
  BY <1>5, FS_CardinalityType
<1>8. b \in Surjection(1 .. n, C)
  BY <1>1, <1>5, <1>6, <1>7 DEF n
<1>9. \A x \in C : \E i \in 1 .. n : b[i] = x
  BY <1>8 DEF Surjection
<1>10. C \subseteq B
  BY <1>1, <1>9 DEF ToSet
<1> QED BY <1>10 DEF C

\* Tables that Validate accepts cover what the contracts that shipped say.
LEMMA ValidCovers ==
  ASSUME NEW descs, Validate(descs), IsTable(bindings), contracts = RequestSignatureContracts
  PROVE  CoversItsContract
<1> SUFFICES ASSUME NEW i \in DOMAIN bindings, bindings[i].domain = "request"
             PROVE  \E c \in ToSet(contracts) :
                      c.message = bindings[i].message /\ ToSet(c.content) = ToSet(bindings[i].content)
  BY DEF CoversItsContract
<1> DEFINE b == bindings[i]
<1>1. b \in ToSet(bindings) /\ Listing(b.content)
  BY DEF ToSet, IsTable, Covering
<1>2. RequestBindingShape(b, descs)
  BY <1>1 DEF Validate, BindingShape
<1>3. PICK k \in DOMAIN contracts :
        /\ contracts[k].message = b.message
        /\ NoRepeats(b.content)
        /\ Len(b.content) = Len(contracts[k].content)
        /\ ToSet(b.content) \subseteq ToSet(contracts[k].content)
  BY <1>2 DEF RequestBindingShape, IsContractOf
<1>4. Listing(contracts[k].content)
  BY ShippedLists
<1> HIDE DEF b
<1>5. ToSet(b.content) = ToSet(contracts[k].content)
  BY <1>1, <1>3, <1>4, SameLengthSameFields
<1>6. contracts[k] \in ToSet(contracts)
  BY DEF ToSet
<1> QED BY <1>3, <1>5, <1>6 DEF b

-----------------------------------------------------------------------------
\* Provider tokens and what they cover.

\* What TrustedTokens says of trusted tables.
TokensBound ==
  OneBindingEach /\ (contracts = RequestSignatureContracts => CoversItsContract)

\* What is said of tokens stays true while the tables do.
LEMMA TokensStay ==
  ASSUME TokensBound, UNCHANGED tables
  PROVE  TokensBound'
<1>1. /\ descriptors' = descriptors /\ policies' = policies /\ targets' = targets
      /\ bindings' = bindings /\ contracts' = contracts
  BY DEF tables
<1>2. Visited' = Visited /\ TokenPaths' = TokenPaths
  BY SMT, <1>1 DEF Visited, NextMessages, TokenPaths
<1>3. \A domain : Tokens(domain)' = Tokens(domain)
  BY <1>1, <1>2 DEF Tokens
<1>4. \A domain, token : BindingsOf(domain, token)' = BindingsOf(domain, token)
  BY <1>1 DEF BindingsOf
<1>5. OneBindingEach'
  BY <1>1, <1>3, <1>4 DEF TokensBound, OneBindingEach, Owner
<1>6. contracts' = RequestSignatureContracts => CoversItsContract'
  BY <1>1 DEF TokensBound, CoversItsContract
<1> QED BY <1>5, <1>6 DEF TokensBound

\* In tables a host trusts every provider token has one statement of what it
\* covers, and a request token covers what its contract says, word for word,
\* while the contracts are the ones that shipped.
THEOREM TokensTrusted == Spec => []TrustedTokens
<1> DEFINE IInv == IsTable(bindings) /\ (phase = "trusted" => TokensBound)
<1>1. Init => IInv
  BY ShippedLists DEF Init
<1>2. IInv /\ [Next]_vars => IInv'
  <2> SUFFICES ASSUME IInv, [Next]_vars PROVE IInv'
    OBVIOUS
  <2>1. IsTable(bindings')
    BY BindingsStayTable
  <2>2. ASSUME phase' = "trusted" PROVE TokensBound'
    <3>1. UNCHANGED tables /\ (phase = "trusted" \/ \E descs : Validate(descs))
      BY <2>2, TrustedAtStart
    <3>2. ASSUME NEW descs, Validate(descs) PROVE TokensBound
      BY <3>2, ValidBindsOnce, ValidCovers DEF TokensBound
    <3>3. TokensBound
      BY <3>1, <3>2
    <3> QED BY <3>1, <3>3, TokensStay
  <2>3. IsTable(bindings)'
    BY <2>1 DEF IsTable, Listing, Covering
  <2> QED BY <2>2, <2>3
<1>3. IInv => TrustedTokens
  BY DEF TrustedTokens, TokensBound
<1> QED BY <1>1, <1>2, <1>3, PTL DEF Spec

\* What the checks find at the start.
Passes == Loads(OutboundDescriptors) /\ Validate(OutboundDescriptors)

\* They find the same while the tables are the same.
LEMMA PassesStay ==
  ASSUME Passes, UNCHANGED tables
  PROVE  Passes'
<1>1. /\ descriptors' = descriptors /\ policies' = policies /\ targets' = targets
      /\ bindings' = bindings /\ contracts' = contracts
  BY DEF tables
<1>2. Visited' = Visited
  BY SMT, <1>1 DEF Visited, NextMessages
<1>3. TokenPaths' = TokenPaths
  BY SMT, <1>1 DEF TokenPaths
<1>4. OutboundDescriptors' = OutboundDescriptors
  BY SMT, <1>1 DEF OutboundDescriptors, Walk, SubMessages
<1> DEFINE D == OutboundDescriptors
<1> HIDE DEF D
<1>5. \A b, ref, descs : CoveredFieldKind(b, ref, descs)' = CoveredFieldKind(b, ref, descs)
  BY <1>1 DEF CoveredFieldKind, Owner
<1>6. \A k, b : IsContractOf(k, b)' = IsContractOf(k, b)
  BY <1>1 DEF IsContractOf
<1>7. \A b, descs : RequestBindingShape(b, descs)' = RequestBindingShape(b, descs)
  BY <1>1, <1>5, <1>6 DEF RequestBindingShape
<1>8. \A b, descs : BindingShape(b, descs)' = BindingShape(b, descs)
  BY <1>7 DEF BindingShape
<1>9. \A descs : Loads(descs)' = Loads(descs)
  BY <1>1, <1>8 DEF Loads
<1>10. \A m, descs : MessageComplete(m, descs)' = MessageComplete(m, descs)
  BY <1>1 DEF MessageComplete
<1>11. \A b, descs : OutboundBindingFits(b, descs)' = OutboundBindingFits(b, descs)
  BY <1>1 DEF OutboundBindingFits
<1>12. \A b, descs : RequestBindingFits(b, descs)' = RequestBindingFits(b, descs)
  BY <1>1 DEF RequestBindingFits
<1>13. \A descs : DelegatesKnown(descs)' = DelegatesKnown(descs)
  BY <1>1 DEF DelegatesKnown
<1>14. BindingsUnique' = BindingsUnique /\ BoundSignaturePairing' = BoundSignaturePairing
  BY <1>1 DEF BindingsUnique, BoundSignaturePairing
<1>15. RequestBindingCompleteness' = RequestBindingCompleteness
  BY <1>1, <1>3 DEF RequestBindingCompleteness
<1>16. \A descs : Validate(descs)' = Validate(descs)
  BY <1>1, <1>2, <1>8, <1>10, <1>11, <1>12, <1>13, <1>14, <1>15 DEF Validate
<1> QED BY <1>4, <1>9, <1>16 DEF Passes

\* Where the tables pass as they ship, which the first states of a run show,
\* no process is refused or crashes before an edit, and in tables a host trusts
\* every provider token has one statement of what it covers.
THEOREM TokensCovered == Passes /\ Spec => []TokensStayCovered
<1> DEFINE IInv == /\ edits \in Nat
                   /\ edits = 0 => Passes
                   /\ phase \in {"refused", "crashed"} => edits > 0
<1>1. Init /\ Passes => IInv
  BY DEF Init
<1>2. IInv /\ [Next]_vars => IInv'
  <2> SUFFICES ASSUME IInv, [Next]_vars PROVE IInv'
    OBVIOUS
  <2>1. CASE Edit
    <3>1. edits' = edits + 1
      BY <2>1 DEF Edit
    <3> QED BY <3>1
  <2>2. CASE Start
    <3>1. UNCHANGED tables /\ edits' = edits
      BY <2>2 DEF Start
    <3>2. edits = 0 => Passes'
      BY <3>1, PassesStay
    <3>3. ASSUME phase' \in {"refused", "crashed"} PROVE edits # 0
      <4>1. ~ (Loads(OutboundDescriptors) /\ Validate(OutboundDescriptors))
        BY <2>2, <3>3 DEF Start
      <4> QED BY <4>1 DEF Passes
    <3> QED BY <3>1, <3>2, <3>3
  <2>3. CASE UNCHANGED vars
    <3>1. UNCHANGED tables /\ UNCHANGED <<edits, phase>>
      BY <2>3 DEF vars, tables
    <3>2. edits = 0 => Passes'
      BY <3>1, PassesStay
    <3> QED BY <3>1, <3>2
  <2> QED BY <2>1, <2>2, <2>3 DEF Next
<1>3. IInv /\ TrustedTokens => TokensStayCovered
  BY DEF TokensStayCovered
<1>4. Spec => []TrustedTokens
  BY TokensTrusted
<1> QED BY <1>1, <1>2, <1>3, <1>4, PTL DEF Spec
=============================================================================
