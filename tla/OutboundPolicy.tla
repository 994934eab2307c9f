--------------------------- MODULE OutboundPolicy ---------------------------
(***************************************************************************)
(* The start-up proof of outboundpolicy/policy.go.  The policy of what a   *)
(* plugin may change is kept in tables beside a protobuf schema, and both  *)
(* are edited by hand; a host trusts them after init and Validate have     *)
(* looked at them.  The behaviours are the edits a maintainer makes to the *)
(* schema and to each table, and the start of a process with the result.   *)
(***************************************************************************)
EXTENDS OutboundTables, WireSchema, SequencesExt

CONSTANTS
  MaxEdits,         \* bound: edits before the process starts
  MaxMessages,      \* bound: messages, and so steps from one to a nested one
  Edited,           \* the messages whose schema and policies are edited
  NewFields,        \* names of fields an edit may add
  SomeDescriptors,  \* what a field may become
  SomePolicies,     \* what a policy may become
  SomeRefs          \* what a covered field may become

ASSUME MaxMessagesAssumption ==
  MaxMessages \in Nat /\ Cardinality(DOMAIN Descriptors) < MaxMessages

VARIABLES
  descriptors,  \* the schema
  policies, targets, bindings, contracts,  \* the tables
  edits,        \* edits so far
  phase         \* "source", then what became of the process

tables == <<descriptors, policies, targets, bindings, contracts>>
vars == <<tables, edits, phase>>

-----------------------------------------------------------------------------
(* What init and Validate look at. *)

SubMessages(m) == {descriptors[m][f].of : f \in DOMAIN descriptors[m]} \ {""}

Walk(start) ==
  LET reached[S \in SUBSET DOMAIN descriptors] ==
        LET T == S \cup UNION {SubMessages(m) : m \in S} IN IF T = S THEN S ELSE reached[T]
  IN reached[start]

\* The messages the checks know: those named here and all they contain.
InventoryRoots ==
  {"ChatResponse", "StreamEvent", "StreamEvents", "HookResult", "Suppress", "ChatRequest", "Message",
   "ResponseMessage", "ResponseBlock", "ResponseTextBlock", "ToolCall", "ToolCallDelta", "ToolCallRef",
   "ContentBlockStart", "ContentBlockStop", "MessageStart", "MessageStop", "Usage", "StreamError",
   "ProviderBlock", "TextBlock", "ThinkingBlock"}
OutboundDescriptors == Walk(InventoryRoots)

PolicyValid(p) ==
  /\ p.kind \in PolicyKinds
  /\ CASE p.kind = "section" -> p.section \in WritePermissions \ {"ir.stream.write"}
       [] p.kind = "topology" -> p.section = "ir.stream.write"
       [] OTHER -> p.section = ""
  /\ IF p.kind = "delegate" THEN p.delegate \in DelegateKinds ELSE p.delegate = ""

\* The message that a covered field of a binding belongs to.
Owner(b, ref) == IF ref.message = "" THEN b.message ELSE ref.message

\* A covered field of a request is of the class pinned for it: text or bytes,
\* unless it is one of the named exceptions.
CoveredFieldKind(b, ref, descs) ==
  LET m == Owner(b, ref)
      full == <<m, ref.field>>
  IN /\ ref.message = "" => ref.scope = "same_message"
     /\ m \in descs /\ ref.field \in DOMAIN descriptors[m]
     /\ LET fd == descriptors[m][ref.field] IN
        IF full = PinnedRepeatedContentTarget THEN fd.kind = "message" /\ fd.card = "repeated"
        ELSE /\ fd.kind # "message" /\ fd.card # "repeated"
             /\ IF full \in DOMAIN RequestCoveredFieldKinds
                THEN LET pin == RequestCoveredFieldKinds[full]
                     IN fd.kind = pin.kind /\ (fd.card = "optional" <=> pin.optional)
                ELSE fd.kind \in {"string", "bytes"} /\ fd.card = "singular"

NoRepeats(s) == \A i, j \in DOMAIN s : s[i] = s[j] => i = j

\* The contract a request binding is held to, the first of its name.
IsContractOf(k, b) ==
  /\ contracts[k].message = b.message /\ contracts[k].field = b.field
  /\ \A j \in 1 .. k - 1 : ~ (contracts[j].message = b.message /\ contracts[j].field = b.field)

\* Slip: the binding may cover less than its contract.
RequestBindingShapeLoose(b, descs) ==
  \E k \in DOMAIN contracts :
    /\ IsContractOf(k, b)
    /\ NoRepeats(b.content)
    /\ ToSet(b.content) \subseteq ToSet(contracts[k].content)
    /\ \A ref \in ToSet(contracts[k].content) : CoveredFieldKind(b, ref, descs)
RequestBindingShape(b, descs) ==
  \E k \in DOMAIN contracts :
    /\ IsContractOf(k, b)
    /\ NoRepeats(b.content)
    /\ Len(b.content) = Len(contracts[k].content)
    /\ ToSet(b.content) \subseteq ToSet(contracts[k].content)
    /\ \A ref \in ToSet(contracts[k].content) : CoveredFieldKind(b, ref, descs)

\* A scope fits the token it is stated for.
ScopeFits(b, ref) ==
  /\ ref.scope \in SignatureScopes
  /\ ref.scope = "same_message" => ref.message \in {"", b.message}
  /\ ref.scope = "tool_block" => b.message = "ToolCallRef" /\ ref.message # ""
  /\ ref.scope = "current_block" => b.field = "signature_delta" /\ ref.message # ""
  /\ ref.scope = "trailing" /\ b.domain = "outbound" => b.field = "signature_delta" /\ ref.message # ""

BindingShape(b, descs) ==
  /\ b.domain \in SignatureDomains /\ b.message # "" /\ b.field # ""
  /\ b.content # <<>>
  /\ \A ref \in ToSet(b.content) : ref.field # "" /\ ScopeFits(b, ref)
  /\ b.domain = "request" => RequestBindingShape(b, descs)

\* init: a process whose tables are malformed does not come up.
Loads(descs) ==
  /\ \A m \in DOMAIN policies : \A f \in DOMAIN policies[m] : PolicyValid(policies[m][f])
  /\ \A b \in ToSet(bindings) : BindingShape(b, descs)

-----------------------------------------------------------------------------
(* Validate: the inventory is complete. *)

DelegatesKnown(descs) ==
  /\ DelegateKinds \subseteq DOMAIN targets
  /\ \A d \in DelegateKinds : targets[d] \subseteq DOMAIN policies \cap descs

\* Where the check goes on from a registered message: into the targets of a
\* delegate, and into a nested message otherwise.
\* Slip: it does not go on where the policy is not a container.
NextMessagesOfContainers(m) ==
  UNION {IF policies[m][f].kind = "delegate"
         THEN IF policies[m][f].delegate \in DOMAIN targets THEN targets[policies[m][f].delegate] ELSE {}
         ELSE IF policies[m][f].kind \in {"container", "fixed_container"}
         THEN {descriptors[m][f].of} \ {""} ELSE {}
         : f \in DOMAIN policies[m] \cap DOMAIN descriptors[m]}
NextMessages(m) ==
  UNION {IF policies[m][f].kind = "delegate"
         THEN IF policies[m][f].delegate \in DOMAIN targets THEN targets[policies[m][f].delegate] ELSE {}
         ELSE {descriptors[m][f].of} \ {""}
         : f \in DOMAIN policies[m] \cap DOMAIN descriptors[m]}

OutboundRoots == {"ChatResponse", "StreamEvent", "StreamEvents", "HookResult", "Suppress"}

Visited ==
  LET reached[n \in 0 .. MaxMessages] ==
        IF n = 0 THEN OutboundRoots
        ELSE LET S == reached[n - 1]
             IN S \cup UNION {NextMessages(m) : m \in S \cap DOMAIN policies}
  IN reached[MaxMessages]

KindFits(policy, fd) ==
  /\ policy.kind \in {"container", "delegate", "fixed_container"} => fd.kind = "message"
  /\ policy.kind = "fixed_container" => fd.card = "repeated"

MessageComplete(m, descs) ==
  /\ m \in DOMAIN policies \cap descs
  /\ DOMAIN policies[m] = DOMAIN descriptors[m]
  /\ \A f \in DOMAIN policies[m] :
       PolicyValid(policies[m][f]) /\ KindFits(policies[m][f], descriptors[m][f])

(* The bindings name what there is, once, and say the same as the policies. *)

OutboundBindingFits(b, descs) ==
  /\ b.message \in descs /\ b.field \in DOMAIN descriptors[b.message]
  /\ \A ref \in ToSet(b.content) :
       LET m == Owner(b, ref) IN
       /\ m \in descs /\ ref.field \in DOMAIN descriptors[m]
       /\ m \in DOMAIN policies /\ ref.field \in DOMAIN policies[m]

RequestBindingFits(b, descs) ==
  /\ b.message \in descs /\ b.field \in DOMAIN descriptors[b.message]
  /\ b.message \notin DOMAIN policies
  /\ \A ref \in ToSet(b.content) :
       Owner(b, ref) \in descs /\ ref.field \in DOMAIN descriptors[Owner(b, ref)]

BindingsUnique ==
  /\ NoRepeats([i \in DOMAIN bindings |-> <<bindings[i].domain, bindings[i].message, bindings[i].field>>])
  /\ \A b \in ToSet(bindings) : NoRepeats(b.content)

\* The ways from a message to a string field called signature.  A message
\* that is reached twice counts twice.
TokenPaths ==
  LET paths[m \in DOMAIN descriptors] ==
        {<<m, f>> : f \in {g \in DOMAIN descriptors[m] : g = "signature" /\ descriptors[m][g].kind = "string"}}
        \cup UNION {{<<m, f>> \o path : path \in paths[descriptors[m][f].of]} :
                    f \in {g \in DOMAIN descriptors[m] : descriptors[m][g].kind = "message"}}
  IN paths["Message"]

RequestBindingCompleteness ==
  LET paths == TokenPaths
      tokens == {SubSeq(path, Len(path) - 1, Len(path)) : path \in paths}
      declared == {<<b.message, b.field>> : b \in {c \in ToSet(bindings) : c.domain = "request"}}
      required == {<<c.message, c.field>> : c \in ToSet(contracts)}
  IN /\ declared = required /\ declared = tokens
     /\ NoRepeats([i \in DOMAIN contracts |-> <<contracts[i].message, contracts[i].field>>])
     /\ Cardinality(paths) = Cardinality(tokens)

BoundSignaturePairing ==
  {<<b.message, b.field>> : b \in {c \in ToSet(bindings) : c.domain = "outbound"}}
  = UNION {{<<m, f>> : f \in {g \in DOMAIN policies[m] : policies[m][g].kind = "bound_signature"}} :
           m \in DOMAIN policies}

Validate(descs) ==
  /\ DelegatesKnown(descs)
  /\ \A m \in Visited : MessageComplete(m, descs)
  /\ \A b \in ToSet(bindings) :
       /\ BindingShape(b, descs)
       /\ b.domain = "outbound" => OutboundBindingFits(b, descs)
       /\ b.domain = "request" => RequestBindingFits(b, descs)
  /\ BindingsUnique
  /\ RequestBindingCompleteness
  /\ BoundSignaturePairing

-----------------------------------------------------------------------------
(* The edits. *)

Init ==
  /\ descriptors = Descriptors
  /\ policies = OutboundMessageFieldPolicies /\ targets = OutboundDelegateTargets
  /\ bindings = SignatureBindings /\ contracts = RequestSignatureContracts
  /\ edits = 0 /\ phase = "source"

Without(f, k) == [x \in DOMAIN f \ {k} |-> f[x]]

\* No edit makes a message contain itself: the token walk would not end.
EditSchema(m) ==
  /\ \/ \E f \in DOMAIN descriptors[m] : descriptors' = [descriptors EXCEPT ![m] = Without(@, f)]
     \/ \E f \in DOMAIN descriptors[m] \cup NewFields, d \in SomeDescriptors :
          /\ d.kind = "message" => m \notin Walk({d.of})
          /\ descriptors' = [descriptors EXCEPT ![m] = f :> d @@ @]
  /\ UNCHANGED <<policies, targets, bindings, contracts>>

EditPolicy(m) ==
  /\ \/ policies' = Without(policies, m)
     \/ /\ m \in DOMAIN policies
        /\ \/ \E f \in DOMAIN policies[m] : policies' = [policies EXCEPT ![m] = Without(@, f)]
           \/ \E f \in DOMAIN policies[m] \cup NewFields, p \in SomePolicies :
                policies' = [policies EXCEPT ![m] = f :> p @@ @]
     \/ m \notin DOMAIN policies /\ policies' = m :> All({}, HostOwned) @@ policies
  /\ UNCHANGED <<descriptors, targets, bindings, contracts>>

EditTargets ==
  /\ \E d \in DOMAIN targets :
       \/ targets' = Without(targets, d)
       \/ \E m \in targets[d] \cup Edited :
            targets' = [targets EXCEPT ![d] = IF m \in @ THEN @ \ {m} ELSE @ \cup {m}]
  /\ UNCHANGED <<descriptors, policies, bindings, contracts>>

\* What may become of one entry of a table: gone, doubled, or covering one
\* field fewer, more or other.
Recovered(entry) ==
  {[entry EXCEPT !.content = RemoveAt(@, j)] : j \in DOMAIN entry.content}
  \cup {[entry EXCEPT !.content = Append(@, ref)] : ref \in SomeRefs}
  \cup {[entry EXCEPT !.content[j] = ref] : j \in DOMAIN entry.content, ref \in SomeRefs}
Edits(table) ==
  {RemoveAt(table, i) : i \in DOMAIN table}
  \cup {Append(table, table[i]) : i \in DOMAIN table}
  \cup UNION {{[table EXCEPT ![i] = entry] : entry \in Recovered(table[i])} :
              i \in {j \in DOMAIN table : table[j].message \in Edited}}

EditBindings ==
  /\ \/ bindings' \in Edits(bindings)
     \/ \E i \in DOMAIN bindings :
          bindings' = [bindings EXCEPT ![i].domain = IF @ = "request" THEN "outbound" ELSE "request"]
     \/ \E i \in DOMAIN bindings, m \in Edited : bindings' = [bindings EXCEPT ![i].message = m]
  /\ UNCHANGED <<descriptors, policies, targets, contracts>>

EditContracts ==
  /\ \/ contracts' \in Edits(contracts)
     \/ \E m \in Edited :
          contracts' = Append(contracts, [message |-> m, field |-> "signature", content |-> Own(<<"text">>)])
  /\ UNCHANGED <<descriptors, policies, targets, bindings>>

Edit ==
  /\ phase = "source" /\ edits < MaxEdits
  /\ edits' = edits + 1
  /\ \/ \E m \in Edited : EditSchema(m) \/ EditPolicy(m)
     \/ EditTargets \/ EditBindings \/ EditContracts
  /\ UNCHANGED phase

\* A host process comes up, and calls Validate once.
Start ==
  /\ phase = "source"
  /\ LET descs == OutboundDescriptors
     IN phase' = IF ~ Loads(descs) THEN "crashed" ELSE IF Validate(descs) THEN "trusted" ELSE "refused"
  /\ UNCHANGED <<tables, edits>>

Next == Edit \/ Start

Spec == Init /\ [][Next]_vars

-----------------------------------------------------------------------------
(* What a host that trusts the tables may rely on. *)

\* The comparison of a result with what the hook was given goes into every
\* nested message, but for the ones that are immutable as a whole, and hands a
\* delegated one to a verifier with messages of its own.
ComparedInto(m, f) ==
  IF f \notin DOMAIN policies[m] \/ policies[m][f].kind = "host_owned" THEN {}
  ELSE IF policies[m][f].kind = "delegate" THEN targets[policies[m][f].delegate]
  ELSE {descriptors[m][f].of} \ {""}

Compared ==
  LET reached[n \in 0 .. MaxMessages] ==
        IF n = 0 THEN OutboundRoots
        ELSE LET S == reached[n - 1]
             IN S \cup UNION {UNION {ComparedInto(m, f) : f \in DOMAIN descriptors[m]} :
                              m \in S \cap DOMAIN policies}
  IN reached[MaxMessages]

\* A change of the field is answered: it is refused, costs a grant, follows
\* the rule of signatures, or is a change further down.
Answered(m, f) ==
  /\ m \in DOMAIN policies /\ f \in DOMAIN policies[m]
  /\ LET p == policies[m][f]
         leaf == descriptors[m][f].kind # "message"
     IN \/ p.kind \in {"host_owned", "bound_signature"}
        \/ p.kind \in {"section", "topology"} /\ p.section \in WritePermissions
        \/ p.kind \in {"container", "fixed_container", "delegate"} /\ ~ leaf

\* In tables a host trusts no change is free: whatever leaf of a hook's result
\* a plugin alters, the recursive comparison finds an answer for it, however
\* the schema grew.
NoFreeChange ==
  phase = "trusted" =>
    \A m \in Compared :
      m \in DOMAIN policies /\ \A f \in DOMAIN descriptors[m] : Answered(m, f)

Tokens(domain) ==
  IF domain = "request"
  THEN {SubSeq(path, Len(path) - 1, Len(path)) : path \in TokenPaths}
  ELSE UNION {{<<m, f>> : f \in {g \in DOMAIN policies[m] : policies[m][g].kind = "bound_signature"}} :
              m \in Visited}

BindingsOf(domain, token) ==
  {i \in DOMAIN bindings : bindings[i].domain = domain /\ <<bindings[i].message, bindings[i].field>> = token}

\* Every token has one statement of what it covers, of fields that exist.
OneBindingEach ==
  \A domain \in SignatureDomains : \A token \in Tokens(domain) :
    \E i \in DOMAIN bindings :
      /\ BindingsOf(domain, token) = {i}
      /\ bindings[i].content # <<>>
      /\ \A ref \in ToSet(bindings[i].content) :
           ref.field \in DOMAIN descriptors[Owner(bindings[i], ref)]

\* A request token covers what a contract says, word for word.
CoversItsContract ==
  \A i \in DOMAIN bindings : bindings[i].domain = "request" =>
    \E c \in ToSet(contracts) :
      c.message = bindings[i].message /\ ToSet(c.content) = ToSet(bindings[i].content)

\* In tables a host trusts every provider token has one statement of what it
\* covers, so keeping it over changed content shows and clearing it is not held
\* against the SDK.  What a request token covers shrinks or grows only where its
\* contract was changed as well: one edit of one table never does it.
TrustedTokens ==
  phase = "trusted" =>
    OneBindingEach /\ (contracts = RequestSignatureContracts => CoversItsContract)

\* The same, and the tables as they ship are trusted.
TokensStayCovered ==
  /\ TrustedTokens
  /\ phase \in {"refused", "crashed"} => edits > 0
=============================================================================
