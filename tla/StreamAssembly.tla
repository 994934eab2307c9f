-------------------------- MODULE StreamAssembly --------------------------
(***************************************************************************)
(* StreamHandler and StreamAssembler (stream.go): the run_on_stream_chunk  *)
(* hook that buffers the fragments of each tool call in the request's      *)
(* metadata, hands the assembled call to OnToolCall and emits what the     *)
(* callback decided.  One step is one event: the provider sends it, the    *)
(* host calls Handle, and the result is passed on.                         *)
(*                                                                         *)
(* The guest has no variable here because it has no state in the code:     *)
(* "successive WASM calls may land on different module instances", so all  *)
(* that survives between two events is meta, the host's journal            *)
(* (env.meta_append).  A journal entry is the framed reference followed by *)
(* the fragments; an absent entry is the empty sequence.                   *)
(***************************************************************************)
EXTENDS StreamBlocks

CONSTANTS
  Replacement,   \* the payloads a callback may substitute
  MaxPayload,    \* bound: fragments per tool call, one if the plugin adds its own
  OwnText        \* what a plugin that calls MetaAppend itself appends

ASSUME ReplacementAssumption == Replacement \subseteq Payload
ASSUME FrameAssumption == Fragment \cap Ref = {} /\ OwnText \in Fragment

VARIABLES
  handler,  \* which callbacks the plugin registered, and whether it calls MetaAppend itself
  meta,     \* meta[i]: the journal of block i
  in,       \* the stream the provider has sent so far
  out       \* the stream the client has received so far

vars == <<handler, meta, in, out>>

Handler == [tool : BOOLEAN, text : BOOLEAN, own : BOOLEAN]

Init ==
  /\ handler \in Handler /\ (handler.own => handler.tool)
  /\ meta = [i \in Index |-> <<>>]
  /\ in = EmptyStream
  /\ out = EmptyStream

-----------------------------------------------------------------------------
(* What the host does with a result. *)

Forward(e) == out' = Observe(out, e)
Suppress == UNCHANGED out
\* A hook error under failure_mode "block" ends the stream.
Fail == out' = [out EXCEPT !.status = "failed"]

(* The metadata calls of Feed. *)

\* Slips: append overwrites; one buffer for all blocks.
MetaAppendOverwriting(i, fragment) == meta' = [meta EXCEPT ![i] = IF fragment = <<>> THEN @ ELSE fragment]
MetaAppendShared(i, fragment) == meta' = [j \in Index |-> meta[j] \o fragment]

MetaAppend(i, fragment) == meta' = [meta EXCEPT ![i] = @ \o fragment]

\* The host refuses the call: permission, quota or transport.
MetaRefused == UNCHANGED meta /\ Fail

(* EmitAssembledToolCall: the signature stays only on an unchanged payload. *)

\* Slip: the signature stays on whatever is emitted.
ReemitSigned(i, call, payload) ==
  /\ out' = ObserveBlock(out, Start(i, call.ref), Delta(i, call.ref.kind, payload), Stop(i))

Reemit(i, call, payload) ==
  /\ out' = ObserveBlock(out,
              Start(i, [call.ref EXCEPT !.sig = @ /\ payload = call.payload]),
              Delta(i, call.ref.kind, payload),
              Stop(i))

(* decodeToolFrame: the reference in front, the rest is the payload. *)

Framed(journal) == journal # <<>> /\ Head(journal) \in Ref
Decode(journal) == [ref |-> Head(journal), payload |-> Tail(journal)]

-----------------------------------------------------------------------------
(* What a callback answers. *)

Pass == [do |-> "pass"]
SuppressCall == [do |-> "suppress"]
Error == [do |-> "error"]
Replace(kind, payload) == [do |-> "replace", kind |-> kind, payload |-> payload]

Answers == {Pass, SuppressCall, Error} \cup {Replace(k, p) : k \in Kind, p \in Replacement}

\* ReplaceToolArguments refuses what is not JSON; empty input is not.
Unusable(a) ==
  \/ a.do = "error"
  \/ a.do = "replace" /\ a.kind = "FUNCTION" /\ a.payload = <<>>

Mismatched(call, a) == a.do = "replace" /\ a.kind # call.ref.kind

\* Handle, once the call is complete.
Decide(i, call, a) ==
  \/ Unusable(a) /\ Fail
  \/ ~Unusable(a) /\ Mismatched(call, a) /\ Fail
  \/ a.do = "suppress" /\ Suppress
  \/ a.do = "pass" /\ Reemit(i, call, call.payload)
  \/ a.do = "replace" /\ ~Unusable(a) /\ ~Mismatched(call, a) /\ Reemit(i, call, a.payload)

-----------------------------------------------------------------------------
(* Handle and Feed, one action per kind of event. *)

Sent(e) == out.status \in {"open", "stopped"} /\ Legal(in, e) /\ in' = Observe(in, e) /\ UNCHANGED handler

\* The text callback sees text deltas before the assembler does.
HandleText ==
  /\ Sent(Text)
  /\ UNCHANGED meta
  /\ \/ Forward(Text)
     \/ handler.text /\ (Suppress \/ Fail)

\* Slip: a start that cannot be buffered is passed on.
ToolStartFailOpen(i, ref) ==
  /\ Sent(Start(i, ref))
  /\ \/ handler.tool /\ MetaAppend(i, <<ref>>) /\ Suppress
     \/ UNCHANGED meta /\ Forward(Start(i, ref))

ToolStart(i, ref) ==
  /\ Sent(Start(i, ref))
  /\ \/ ~handler.tool /\ Forward(Start(i, ref)) /\ UNCHANGED meta
     \/ handler.tool /\ MetaAppend(i, <<ref>>) /\ Suppress
     \/ handler.tool /\ MetaRefused

ToolDelta(i, kind, payload) ==
  /\ Sent(Delta(i, kind, payload))
  /\ Len(in.payload[i]) + Len(payload) <= IF handler.own THEN 1 ELSE MaxPayload
  /\ \/ ~handler.tool /\ Forward(Delta(i, kind, payload)) /\ UNCHANGED meta
     \/ handler.tool /\ MetaAppend(i, payload) /\ Suppress
     \/ handler.tool /\ payload # <<>> /\ MetaRefused

\* Slip: a corrupt journal counts as no journal.
BlockStopUnframed(i, a) ==
  /\ Sent(Stop(i))
  /\ UNCHANGED meta
  /\ \/ ~(handler.tool /\ Framed(meta[i])) /\ Forward(Stop(i))
     \/ handler.tool /\ Framed(meta[i]) /\ Decide(i, Decode(meta[i]), a)

\* Reading with an empty fragment changes nothing.  An empty journal is a block
\* that was not buffered; a journal without a reference is corrupt.
BlockStop(i, a) ==
  /\ Sent(Stop(i))
  /\ UNCHANGED meta
  /\ \/ (~handler.tool \/ meta[i] = <<>>) /\ Forward(Stop(i))
     \/ handler.tool /\ meta[i] # <<>> /\ ~Framed(meta[i]) /\ Fail
     \/ handler.tool /\ Framed(meta[i]) /\ Decide(i, Decode(meta[i]), a)
     \/ handler.tool /\ MetaRefused

\* Starts of other blocks, usage, StreamError and MessageStop pass; buffers of
\* calls that StreamError cuts off stay in meta, unread.
PassThrough(e) == Sent(e) /\ Forward(e) /\ UNCHANGED meta

\* MetaAppend is exported: a callback or another hook of the same request can
\* put text of its own into the journal of a block (here: into a short one, a
\* bound).  Text is never taken for the length prefix of a reference.
OwnAppend(i) ==
  /\ handler.own
  /\ Len(meta[i]) <= 1
  /\ MetaAppend(i, <<OwnText>>)
  /\ UNCHANGED <<handler, in, out>>

Next ==
  \/ \E i \in Index : OwnAppend(i)
  \/ HandleText
  \/ \E e \in {Usage, StreamError, MessageStop} : PassThrough(e)
  \/ \E i \in Index :
       \/ PassThrough(Start(i, NoRef))
       \/ \E kind \in Kind, sig \in BOOLEAN : ToolStart(i, [id |-> i, kind |-> kind, sig |-> sig])
       \/ \E kind \in Kind, payload \in {<<>>} \cup {<<f>> : f \in Fragment} : ToolDelta(i, kind, payload)
       \/ \E a \in Answers : BlockStop(i, a)

Spec == Init /\ [][Next]_vars

-----------------------------------------------------------------------------
(* Properties *)

\* The client's stream obeys the block rules of the ABI whatever the plugin
\* decides and however tool calls overlap: every delta and stop has its start,
\* no index opens twice, text never meets an open tool block.
OutputWellFormed == out.ok

\* A plugin that assembles never leaves half a tool call with the client, not
\* even when the stream errors or the hook fails between start and stop
\* ("Callers must not pass the current fragment alone").
NoPartialCall == handler.tool => \A i \in Index : out.phase[i] # "tool"

\* A signature that reaches the client signs exactly the call the provider
\* sent: same block, same reference, same payload.  A replaced payload never
\* carries the old signature (EmitAssembledToolCall).
SignatureBindsCall ==
  ~handler.own => \A i \in Index :
    out.phase[i] = "closed" /\ out.ref[i].sig
      => out.ref[i] = in.ref[i] /\ out.payload[i] = in.payload[i]

\* The journal of a buffered block is the frame of exactly what the provider
\* has sent for that block: interleaved deltas of other blocks never end up in
\* it and none of its own is lost or reordered.
JournalIsFrame ==
  out.status = "open" /\ handler.tool /\ ~handler.own =>
    \A i \in Index : meta[i] = IF in.ref[i] = NoRef THEN <<>> ELSE <<in.ref[i]>> \o in.payload[i]

\* What the client gets of a tool call, seen from the provider's side.  Nothing
\* is promised to a plugin that writes into the journals itself: its stream
\* shows as one on which nothing happens.
Seen(stream) ==
  LET s == IF handler.own THEN EmptyStream ELSE stream
  IN [i \in Index |-> [phase |-> s.phase[i], ref |-> s.ref[i], payload |-> s.payload[i]]]

Delivery == INSTANCE ToolCallDelivery WITH
  whole <- handler.tool,
  cut <- ~handler.own /\ out.status = "failed",
  sent <- Seen(in),
  got <- Seen(out)

\* Buffering is invisible: as far as the client can tell, each finished call is
\* delivered in one piece, unchanged, with another payload and no signature, or
\* not at all.
DeliversWhole == Delivery!Spec

=============================================================================
