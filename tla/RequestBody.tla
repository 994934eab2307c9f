---------------------------- MODULE RequestBody ----------------------------
(***************************************************************************)
(* The request a hook is handed: what makes it a legal replacement         *)
(* (pb/v1/request_validate.go), which content each provider token signs    *)
(* (outboundpolicy/policy.go), which part of it the provider caches        *)
(* (pb/v1/observableprefix.go) and how a message is fingerprinted          *)
(* (requestblocks.go).                                                     *)
(*                                                                         *)
(* Texts, calls and JSON payloads are opaque values.  Tools are reduced to *)
(* their cache markers, and model, parameters and metadata are left out:   *)
(* no helper touches them.  A tool result has a sequence of arms as body.  *)
(***************************************************************************)
EXTENDS Naturals, FiniteSets, SequencesExt

CONSTANTS
  Text,      \* texts of text and thinking blocks and of result arms
  Call,      \* id, name and input of a tool call, well formed
  Marker,    \* cache markers that are strict JSON objects
  Payload,   \* bodies of redacted, unknown and refusal blocks, unknown arms
  Token,     \* provider signatures
  None       \* an empty field, or bytes that are no JSON object

ASSUME NoneAssumption == None \notin Text \cup Call \cup Marker \cup Payload \cup Token

Arm == [arm : {"text"}, body : Text]
       \cup [arm : {"unknown"}, body : Payload]
       \cup [arm : {"cache"}, body : Marker]

\* origin is the position the block had in the accepted message, 0 for a block
\* the plugin added.  The program has no such field: only properties read it.
Fields(kinds, bodies, sigs, flags) ==
  [kind : kinds, body : bodies, sig : sigs, is_error : flags, origin : Nat]

Block ==
  LET Sig == Token \cup {None}
  IN Fields({"text", "thinking"}, Text, Sig, {None})
     \cup Fields({"tool_use"}, Call, Sig, {None})
     \cup Fields({"tool_result"}, Seq(Arm) \ {<<>>}, Sig, {None, "false", "true"})
     \cup Fields({"cache"}, Marker, {None}, {None})
     \cup Fields({"other"}, Payload, Sig, {None})
     \cup Fields({"trailing"}, {None}, Token, {None})

Added(kind, body) ==
  [kind |-> kind, body |-> body, sig |-> None, is_error |-> None, origin |-> 0]

\* The elements of s at these places, in their order.
Kept(s, places) ==
  LET Rank(j) == Cardinality({i \in places : i <= j})
  IN [k \in 1 .. Cardinality(places) |-> s[CHOOSE j \in places : Rank(j) = k]]

-----------------------------------------------------------------------------
\* ValidateReplacement.  A trailing token is the last block of an assistant
\* message and has text or thinking to cover.
ReplaceableBlock(m, j) ==
  LET b == m.blocks[j]
  IN /\ b \in Block
     /\ b.kind = "trailing" =>
          /\ m.role = "assistant"
          /\ j = Len(m.blocks)
          /\ \E k \in DOMAIN m.blocks : m.blocks[k].kind \in {"text", "thinking"}

ReplaceableMessage(m) ==
  m.blocks # <<>> /\ \A j \in DOMAIN m.blocks : ReplaceableBlock(m, j)

Replaceable(req) ==
  /\ \A i \in DOMAIN req.messages : ReplaceableMessage(req.messages[i])
  /\ \A i \in DOMAIN req.tools : req.tools[i] \in Marker \cup {None}

-----------------------------------------------------------------------------
\* What a token signs: its own block's body, is_error not included, or, for
\* the trailing token, every text and thinking of the message.
CoveredTexts(blocks) ==
  Kept([j \in DOMAIN blocks |-> blocks[j].body],
       {j \in DOMAIN blocks : blocks[j].kind \in {"text", "thinking"}})

\* ClassifySignatureMutation
Classify(accepted, returned, changed) ==
  CASE accepted = returned /\ accepted # None /\ changed -> "stale"
    [] accepted = returned /\ (accepted = None \/ ~changed) -> "intact"
    [] accepted # returned /\ returned = None /\ ~changed -> "dropped"
    [] accepted # returned /\ returned = None /\ changed -> "cleared"
    [] accepted # returned /\ returned # None /\ accepted = None -> "added"
    [] OTHER -> "forged"

-----------------------------------------------------------------------------
\* The carriers of cache markers: message 0 stands for the tools, arm 0 for a
\* block that is itself the marker.
ToolMarkers(tools) ==
  {[msg |-> 0, block |-> i, arm |-> 0] : i \in {i \in DOMAIN tools : tools[i] # None}}

BlockMarkers(i, j, b) ==
  {[msg |-> i, block |-> j, arm |-> k] :
     k \in IF b.kind = "cache" THEN {0}
           ELSE IF b.kind = "tool_result" THEN {k \in DOMAIN b.body : b.body[k].arm = "cache"}
           ELSE {}}

MarkerPositions(req) ==
  ToolMarkers(req.tools) \cup
  UNION {UNION {BlockMarkers(i, j, req.messages[i].blocks[j]) :
                  j \in DOMAIN req.messages[i].blocks} : i \in DOMAIN req.messages}

\* The order of serialisation: tools, then each message block by block.
Precedes(c, d) ==
  \/ c.msg < d.msg
  \/ c.msg = d.msg /\ c.block < d.block
  \/ c.msg = d.msg /\ c.block = d.block /\ c.arm < d.arm

HasMarker(req) == MarkerPositions(req) # {}
LastCacheMarker(req) ==
  CHOOSE c \in MarkerPositions(req) : \A d \in MarkerPositions(req) \ {c} : Precedes(d, c)

\* *Slip* of TruncateMessage: the result is kept whole behind its marker.
SlipTruncateMessage(m, block, arm) == [m EXCEPT !.blocks = SubSeq(@, 1, block)]

TruncateMessage(m, block, arm) ==
  LET kept == SubSeq(m.blocks, 1, block)
  IN [m EXCEPT !.blocks =
       IF arm = 0 THEN kept ELSE [kept EXCEPT ![block].body = SubSeq(@, 1, arm)]]

\* What the provider caches; defined for replaceable requests.
RequestObservablePrefix(req) ==
  LET at == LastCacheMarker(req)
  IN IF ~HasMarker(req) THEN req
     ELSE IF at.msg = 0
     THEN [tools |-> SubSeq(req.tools, 1, at.block), messages |-> <<>>]
     ELSE [req EXCEPT !.messages =
            Append(SubSeq(@, 1, at.msg - 1),
                   TruncateMessage(@[at.msg], at.block, at.arm))]

-----------------------------------------------------------------------------
\* The frames that are hashed; a digest is as good as what it digests.
ToolResultContentFingerprint(content) ==
  <<Len(content)>> \o FlattenSeq([k \in DOMAIN content |->
                        <<content[k].arm, content[k].body>>])

\* *Slip* of BlockFrames: the error flag is not framed.
SlipBlockFrames(j, b) ==
  <<"block", j, "kind", b.kind, b.body, b.sig>>

BlockFrames(j, b) ==
  <<"block", j, "kind", b.kind>> \o
  CASE b.kind = "tool_result" -> <<"iserr", b.is_error, "trsig", b.sig,
                                   "nested", ToolResultContentFingerprint(b.body)>>
    [] b.kind \in {"cache", "other"} -> <<"payload", b.body, "usig", b.sig>>
    [] b.kind = "trailing" -> <<"sig", b.sig>>
    [] OTHER -> <<"text", b.body, "sig", b.sig>>

RequestBlocksFingerprint(m) ==
  <<"role", m.role>> \o FlattenSeq([j \in DOMAIN m.blocks |-> BlockFrames(j, m.blocks[j])])
=============================================================================
