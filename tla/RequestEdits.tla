---------------------------- MODULE RequestEdits ----------------------------
(***************************************************************************)
(* A before-request hook that edits the request it was handed with the     *)
(* body helpers of the SDK (body.go) and ReplaceLastCacheBreakpoint        *)
(* (pb/v1/observableprefix.go), in any order, and then returns it.         *)
(* A helper that reports an error leaves the request alone.                *)
(***************************************************************************)
EXTENDS RequestBody, FiniteSetsExt

CONSTANTS
  Requests,    \* the requests a host may hand over
  MaxBlocks    \* bound: a helper adds to a message of fewer blocks, a trailing
               \*   token not counted

ASSUME MaxBlocksAssumption == MaxBlocks \in Nat

\* What the message types can carry, legal or not; origin as it is defined.
Carried ==
  Fields(STRING, Text \cup Call \cup Marker \cup Payload \cup {None} \cup Seq(Arm),
         Token \cup {None}, {None, "false", "true"})

ASSUME RequestsAssumption ==
  \A r \in Requests :
    /\ r \in [tools : Seq(Marker \cup {None}), messages : Seq([role : STRING, blocks : Seq(Carried)])]
    /\ \A i \in DOMAIN r.messages : \A j \in DOMAIN r.messages[i].blocks :
         r.messages[i].blocks[j].origin = j

VARIABLES
  accepted,    \* the request the host dispatched
  request,     \* what the hook has made of it
  touched,     \* history: accepted blocks, by message and origin, whose signed
               \*   content some edit changed
  reply,       \* whether the last helper failed, found nothing to do or did it
  phase        \* "editing", then how the hook ended

vars == <<accepted, request, touched, reply, phase>>

\* The host normalises its input; DispatchHook refuses what does not validate.
Init ==
  /\ accepted \in {r \in Requests : Replaceable(r)}
  /\ request = accepted
  /\ touched = {}
  /\ reply = "none"
  /\ phase = "editing"

-----------------------------------------------------------------------------
Blocks(i) == request.messages[i].blocks

Is(i, j, kind) == j \in DOMAIN Blocks(i) /\ Blocks(i)[j].kind = kind

\* clearTrailingSignature
Unsealed(blocks) ==
  IF blocks # <<>> /\ Last(blocks).kind = "trailing" THEN Front(blocks) ELSE blocks

\* The accepted blocks of message i that an edit from old to new has touched.
TouchedBy(i, old, new) ==
  {<<i, old[j].origin>> : j \in {j \in DOMAIN old :
     \/ old[j].kind = "trailing" /\ CoveredTexts(old) # CoveredTexts(new)
     \/ \E k \in DOMAIN new : /\ new[k].origin = old[j].origin /\ old[j].origin # 0
                             /\ new[k].body # old[j].body}}

Refuse == reply' = "error" /\ UNCHANGED <<accepted, request, touched, phase>>

Apply(i, new) ==
  /\ request' = [request EXCEPT !.messages[i].blocks = new]
  /\ touched' = touched \cup TouchedBy(i, Blocks(i), new)
  /\ reply' = IF new = Blocks(i) THEN "same" ELSE "changed"
  /\ UNCHANGED <<accepted, phase>>

Helper(legal, i, new) == IF legal THEN Apply(i, new) ELSE Refuse

-----------------------------------------------------------------------------
\* Texts.
WithText(b, text) ==
  IF b.body = text THEN b ELSE [b EXCEPT !.body = text, !.sig = None]

\* *Slip* of SetText: the trailing token goes even if the text stays.
SlipSetText(blocks, j, text) ==
  Unsealed([blocks EXCEPT ![j] = WithText(@, text)])

SetText(blocks, j, text) ==
  IF blocks[j].body = text THEN blocks
  ELSE Unsealed([blocks EXCEPT ![j] = WithText(@, text)])

SetTextAt(i, j, text) ==
  Helper(Is(i, j, "text"), i, SetText(Blocks(i), j, text))

\* One text is left, where the first was; none is put at the end.
CollapseText(blocks, text) ==
  LET texts == {j \in DOMAIN blocks : blocks[j].kind = "text"}
      first == Min(texts)
      kept == Kept([blocks EXCEPT ![first] = WithText(@, text)],
                   (DOMAIN blocks \ texts) \cup {first})
  IN IF texts = {} THEN Append(Unsealed(blocks), Added("text", text))
     ELSE IF kept = blocks THEN blocks ELSE Unsealed(kept)

ReplaceAllText(i, text) ==
  /\ Len(Unsealed(Blocks(i))) < MaxBlocks \/ \E j \in DOMAIN Blocks(i) : Is(i, j, "text")
  /\ Apply(i, CollapseText(Blocks(i), text))

-----------------------------------------------------------------------------
\* Tool results.
TextArm(text) == [arm |-> "text", body |-> text]
ArmsOf(content, arm) == {k \in DOMAIN content : content[k].arm = arm}

SetArm(b, text) ==
  LET k == CHOOSE k \in ArmsOf(b.body, "text") : TRUE
  IN IF b.body[k].body = text THEN b
     ELSE [b EXCEPT !.body[k].body = text, !.sig = None]

\* The trailing token covers no tool result and stays.
ReplaceToolResultText(i, j, text) ==
  Helper(/\ Is(i, j, "tool_result")
         /\ Cardinality(ArmsOf(Blocks(i)[j].body, "text")) = 1
         /\ ArmsOf(Blocks(i)[j].body, "unknown") = {},
         i, [Blocks(i) EXCEPT ![j] = SetArm(@, text)])

\* The first of each run of arms between markers.
Visible(content) == DOMAIN content \ ArmsOf(content, "cache")
Starts(content) == {k \in Visible(content) : k - 1 \notin Visible(content)}

\* *Slip* of Withheld: insertedInSegment is not reset at a marker.
SlipWithheld(content, text) ==
  LET first == {k \in Visible(content) : \A i \in Visible(content) : k <= i}
  IN Kept([k \in DOMAIN content |-> IF k \in Visible(content) THEN TextArm(text) ELSE content[k]],
          ArmsOf(content, "cache") \cup first)

\* One text for each run; the markers stay.
Withheld(content, text) ==
  Kept([k \in DOMAIN content |-> IF k \in Visible(content) THEN TextArm(text) ELSE content[k]],
       ArmsOf(content, "cache") \cup Starts(content))

FailedWith(b, text) ==
  LET failed == [b EXCEPT !.body = Withheld(@, text), !.is_error = "true"]
  IN IF failed = b THEN b ELSE [failed EXCEPT !.sig = None]

ReplaceToolResultWithError(i, j, text) ==
  Helper(/\ Is(i, j, "tool_result")
         /\ ArmsOf(Blocks(i)[j].body, "cache") # DOMAIN Blocks(i)[j].body,
         i, [Blocks(i) EXCEPT ![j] = FailedWith(@, text)])

-----------------------------------------------------------------------------
\* *Slip* of MayInsert: the trailing token is not looked at.
SlipMayInsert(blocks, at) == at \in 1 .. Len(blocks) + 1

\* Insertion at a position; nothing goes behind a trailing token.
MayInsert(blocks, at) ==
  /\ at \in 1 .. Len(blocks) + 1
  /\ at = Len(blocks) + 1 => Unsealed(blocks) = blocks

\* Tool calls.  None stands for one without id or name, or ill-formed.
AddToolCall(i, at, call) ==
  /\ Len(Unsealed(Blocks(i))) < MaxBlocks
  /\ Helper(MayInsert(Blocks(i), at) /\ call # None,
            i, InsertAt(Blocks(i), at, Added("tool_use", call)))

ReplaceToolCall(i, j, call) ==
  Helper(Is(i, j, "tool_use") /\ call # None,
         i, [Blocks(i) EXCEPT ![j] = WithText(@, call)])

\* Cache breakpoints.
SetCacheBreakpoint(i, j, marker) ==
  Helper(Is(i, j, "cache") /\ marker # None,
         i, [Blocks(i) EXCEPT ![j].body = marker])

AddCacheBreakpoint(i, at, marker) ==
  /\ Len(Unsealed(Blocks(i))) < MaxBlocks
  /\ Helper(MayInsert(Blocks(i), at) /\ marker # None,
            i, InsertAt(Blocks(i), at, Added("cache", marker)))

DeleteCacheBreakpoint(i, j) ==
  Helper(Is(i, j, "cache"), i, RemoveAt(Blocks(i), j))

\* *Slip* of SetMarker: the token of a result outlives its nested marker.
SlipSetMarker(b, arm, marker) ==
  IF arm = 0 THEN [b EXCEPT !.body = marker]
  ELSE [b EXCEPT !.body[arm].body = marker]

\* *Slip* of SetMarker: every marker of the result is set.
SlipSetEveryMarker(b, arm, marker) ==
  IF arm = 0 THEN [b EXCEPT !.body = marker]
  ELSE IF b.body[arm].body = marker THEN b
  ELSE [b EXCEPT !.sig = None,
                 !.body = [k \in DOMAIN @ |->
                   IF @[k].arm = "cache" THEN [@[k] EXCEPT !.body = marker] ELSE @[k]]]

\* A marker inside a result is part of what the result's token signs.
SetMarker(b, arm, marker) ==
  IF arm = 0 THEN [b EXCEPT !.body = marker]
  ELSE IF b.body[arm].body = marker THEN b
  ELSE [b EXCEPT !.body[arm].body = marker, !.sig = None]

ReplaceLastCacheBreakpoint(marker) ==
  LET at == LastCacheMarker(request)
  IN IF ~Replaceable(request) \/ marker = None \/ ~HasMarker(request) THEN Refuse
     ELSE IF at.msg > 0
     THEN Apply(at.msg, [Blocks(at.msg) EXCEPT ![at.block] = SetMarker(@, at.arm, marker)])
     ELSE /\ request' = [request EXCEPT !.tools[at.block] = marker]
          /\ reply' = IF request'= request THEN "same" ELSE "changed"
          /\ UNCHANGED <<accepted, touched, phase>>

-----------------------------------------------------------------------------
\* The hook returns.  A replacement that does not validate traps the guest.
PassRequest ==
  /\ phase' = "passed"
  /\ UNCHANGED <<accepted, request, touched, reply>>

ReplaceRequest ==
  /\ phase' = IF Replaceable(request) THEN "replaced" ELSE "trapped"
  /\ UNCHANGED <<accepted, request, touched, reply>>

\* Positions one past the end stand for all that are out of range.
Edit(i) ==
  LET Position == 1 .. Len(Blocks(i)) + 1
  IN \/ \E t \in Text : ReplaceAllText(i, t)
     \/ \E j \in Position, t \in Text :
          \/ SetTextAt(i, j, t)
          \/ ReplaceToolResultText(i, j, t)
          \/ ReplaceToolResultWithError(i, j, t)
     \/ \E j \in Position : DeleteCacheBreakpoint(i, j)
     \/ \E j \in Position, c \in Call \cup {None} : ReplaceToolCall(i, j, c)
     \/ \E j \in Position, m \in Marker \cup {None} : SetCacheBreakpoint(i, j, m)
     \/ \E at \in 1 .. Len(Blocks(i)) + 2 :
          \/ \E c \in Call \cup {None} : AddToolCall(i, at, c)
          \/ \E m \in Marker \cup {None} : AddCacheBreakpoint(i, at, m)

Next ==
  /\ phase = "editing"
  /\ \/ \E i \in DOMAIN request.messages : Edit(i)
     \/ \E m \in Marker \cup {None} : ReplaceLastCacheBreakpoint(m)
     \/ PassRequest
     \/ ReplaceRequest

Spec == Init /\ [][Next]_vars

-----------------------------------------------------------------------------
(***************************************************************************)
(* Properties                                                              *)
(***************************************************************************)
Survivors(i, j) == {k \in DOMAIN Blocks(i) : Blocks(i)[k].origin = j}

\* How the host's rule judges the token of accepted block j of message i.  A
\* block that was taken out has nothing left to judge, except the trailing
\* token, whose removal is a clearing of it.
Verdicts(i, j) ==
  LET old == accepted.messages[i].blocks
      new == Blocks(i)
  IN IF old[j].kind = "trailing"
     THEN {Classify(old[j].sig,
                    IF Survivors(i, j) = {} THEN None ELSE old[j].sig,
                    CoveredTexts(old) # CoveredTexts(new))}
     ELSE {Classify(old[j].sig, new[k].sig, old[j].body # new[k].body) :
             k \in Survivors(i, j)}

\* No sequence of helper calls leaves a provider token over content the
\* provider did not sign, changes one, or puts one on a block of the plugin's
\* own: the three verdicts of ClassifySignatureMutation the host rejects as
\* dangerous or forged.
TokensHonest ==
  \A i \in DOMAIN accepted.messages :
    /\ \A j \in DOMAIN accepted.messages[i].blocks :
         Verdicts(i, j) \cap {"stale", "forged", "added"} = {}
    /\ \A k \in Survivors(i, 0) : Blocks(i)[k].sig = None

\* A token is gone from content that reads as accepted only if an edit changed
\* that content on the way, or the result was marked as failed.
TokensGoneForCause ==
  \A i \in DOMAIN accepted.messages : \A j \in DOMAIN accepted.messages[i].blocks :
    "dropped" \in Verdicts(i, j) =>
      \/ <<i, j>> \in touched
      \/ \E k \in Survivors(i, j) :
           Blocks(i)[k].is_error # accepted.messages[i].blocks[j].is_error

\* However the helpers are combined, what they leave is a legal replacement:
\* a trailing token stays last and keeps something to cover.  The one way out is
\* to delete every block of a message that held nothing but cache breakpoints.
StaysReplaceable ==
  \A i \in DOMAIN request.messages :
    \/ ReplaceableMessage(request.messages[i])
    \/ /\ Blocks(i) = <<>>
       /\ \A j \in DOMAIN accepted.messages[i].blocks :
            accepted.messages[i].blocks[j].kind = "cache"

\* When a result is marked as failed no withheld content survives in it: all
\* that is left is one and the same text, once per run of visible arms, between
\* the markers that were there, in their order.
OnlyOneText(old, new) ==
  LET Markers(c) == Kept(c, ArmsOf(c, "cache"))
  IN /\ Markers(new) = Markers(old)
     /\ \E t \in Text : \A k \in Visible(new) : new[k] = TextArm(t)
     /\ Cardinality(Visible(new)) = Cardinality(Starts(old))
     /\ Starts(new) = Visible(new)

GuardedResult ==
  [][\A i \in DOMAIN request.messages : \A j \in DOMAIN Blocks(i) :
       LET new == request'.messages[i].blocks
       IN j \in DOMAIN new /\ new[j].origin = Blocks(i)[j].origin
            /\ new[j].is_error # Blocks(i)[j].is_error
          => OnlyOneText(Blocks(i)[j].body, new[j].body)]_vars

\* A request as the provider reads it: what is at each site of it, tokens and
\* error flags left out.  A site is a message, a block and an arm.  The tools are
\* message 0; a role comes before the blocks of its message, and what makes a
\* block a result before its arms.
Arms(b) == IF b.kind = "tool_result" THEN 0 .. Len(b.body) ELSE {0}

Sites(req) ==
  {<<0, i, 0>> : i \in DOMAIN req.tools} \cup {<<i, 0, 0>> : i \in DOMAIN req.messages}
  \cup UNION {UNION {{<<i, j, k>> : k \in Arms(req.messages[i].blocks[j])} :
                       j \in DOMAIN req.messages[i].blocks} : i \in DOMAIN req.messages}

AtomOf(b, k) ==
  IF k > 0 THEN <<b.body[k].arm, b.body[k].body>>
  ELSE IF b.kind = "tool_result" THEN <<"tool_result", None>> ELSE <<b.kind, b.body>>

AtomAt(req, i, j, k) ==
  IF i = 0 THEN <<"tool", req.tools[j]>>
  ELSE IF j = 0 THEN <<"role", req.messages[i].role>> ELSE AtomOf(req.messages[i].blocks[j], k)

Atoms(req) == [at \in Sites(req) |-> AtomAt(req, at[1], at[2], at[3])]

MarkerAtoms(atoms) ==
  {at \in DOMAIN atoms : atoms[at][1] \in {"tool", "cache"} /\ atoms[at][2] # None}

\* The order of serialisation decides at the first number that differs.
Before(c, d) == \E n \in 1 .. 3 : c[n] < d[n] /\ \A k \in 1 .. n - 1 : c[k] = d[k]

\* The observable prefix is what precedes the last marker in the order of
\* serialisation, marker included: neither a later carrier is in it nor an
\* earlier one left out, whatever mix of tool, block and nested markers there is.
PrefixEndsAtLastMarker ==
  LET whole == Atoms(request)
      prefix == Atoms(RequestObservablePrefix(request))
      marks == MarkerAtoms(whole)
  IN Replaceable(request) =>
       /\ DOMAIN prefix = {c \in DOMAIN whole : marks = {} \/ \E d \in marks : c = d \/ Before(c, d)}
       /\ \A c \in DOMAIN prefix : prefix[c] = whole[c]

\* ReplaceLastCacheBreakpoint changes the marker that closes the cached prefix
\* and nothing else the provider reads, so the boundary stays where it was; and
\* it reports a change exactly when it made one.
MarkerSwapKeepsRest ==
  [][reply' # "error" /\ (\E m \in Marker : ReplaceLastCacheBreakpoint(m)) =>
       LET old == Atoms(request)
           new == Atoms(request')
           moved == {c \in DOMAIN old : old[c] # new[c]}
       IN /\ DOMAIN new = DOMAIN old
          /\ \A c \in moved : c \in MarkerAtoms(old) /\ ~ \E d \in MarkerAtoms(old) : Before(c, d)
          /\ reply' = "changed" <=> moved # {}]_vars

\* Two bodies of a message have the same fingerprint only if they are the same,
\* so no edit, of a token or an error flag either, escapes who compares them.
FingerprintTellsApart ==
  \A i \in DOMAIN request.messages :
    LET Plain(m) == [j \in DOMAIN m.blocks |-> [m.blocks[j] EXCEPT !.origin = 0]]
        old == accepted.messages[i]
        new == request.messages[i]
    IN RequestBlocksFingerprint(old) = RequestBlocksFingerprint(new)
         <=> Plain(old) = Plain(new)
=============================================================================
