--------------------------- MODULE StreamBlocks ---------------------------
(***************************************************************************)
(* The stream-state rules of the ABI (torana.proto, StreamEvent) as an     *)
(* automaton that reads one event after the other.  The model uses it      *)
(* twice: for what the provider sends to the plugin and for what the       *)
(* plugin sends on to the client.                                          *)
(*                                                                         *)
(* A payload is a sequence of fragments, so that appending is              *)
(* concatenation.  A tool reference is [id, kind, sig]: id stands for all  *)
(* that a plugin cannot change (id, name, fields of newer hosts), sig says *)
(* whether the provider's signature is on it.  NoRef opens a text,         *)
(* thinking or provider block.                                             *)
(***************************************************************************)
EXTENDS Integers, Sequences

CONSTANTS
  Index,     \* content block indexes
  Fragment   \* pieces of arguments or free-form input

Kind == {"FUNCTION", "FREEFORM"}
Ref == [id : Index, kind : Kind, sig : BOOLEAN]
NoRef == [id |-> -1, kind |-> "none", sig |-> FALSE]
Phase == {"fresh", "tool", "other", "closed"}
Payload == Seq(Fragment)

ASSUME IndexAssumption == Index \subseteq Nat

Start(i, ref) == [type |-> "start", index |-> i, ref |-> ref]
Delta(i, kind, payload) == [type |-> "delta", index |-> i, kind |-> kind, payload |-> payload]
Stop(i) == [type |-> "stop", index |-> i]
Text == [type |-> "text"]
Usage == [type |-> "usage"]
StreamError == [type |-> "error"]
MessageStop == [type |-> "message_stop"]

Event ==
  {Start(i, r) : i \in Index, r \in Ref \cup {NoRef}}
    \cup {Delta(i, k, p) : i \in Index, k \in Kind, p \in Payload}
    \cup {Stop(i) : i \in Index}
    \cup {Text, Usage, StreamError, MessageStop}

-----------------------------------------------------------------------------
\* phase[i], ref[i] and payload[i] say how far block i got and what it
\* carried; status how far the message got; ok turns FALSE at the first event
\* the rules forbid.
Stream == [phase : [Index -> Phase], ref : [Index -> Ref \cup {NoRef}],
           payload : [Index -> Payload],
           status : {"open", "stopped", "errored", "failed"}, ok : BOOLEAN]

EmptyStream ==
  [phase |-> [i \in Index |-> "fresh"], ref |-> [i \in Index |-> NoRef],
   payload |-> [i \in Index |-> <<>>], status |-> "open", ok |-> TRUE]

NoneIn(s, phases) == \A i \in Index : s.phase[i] \notin phases

\* Non-tool blocks are exclusive, tool blocks may overlap each other; deltas and
\* stops name an open block; nothing stays open at the end of the message;
\* usage may follow it.
Legal(s, e) ==
  /\ s.status = "open" \/ (s.status = "stopped" /\ e.type = "usage")
  /\ e.type = "start" => /\ s.phase[e.index] = "fresh"
                         /\ NoneIn(s, IF e.ref = NoRef THEN {"tool", "other"} ELSE {"other"})
  /\ e.type = "delta" => s.phase[e.index] = "tool" /\ s.ref[e.index].kind = e.kind
  /\ e.type = "stop" => s.phase[e.index] \in {"tool", "other"}
  /\ e.type = "text" => ~NoneIn(s, {"other"})
  /\ e.type = "message_stop" => NoneIn(s, {"tool", "other"})

Advance(s, e) ==
  CASE e.type = "start" ->
         [s EXCEPT !.phase[e.index] = IF e.ref = NoRef THEN "other" ELSE "tool",
                   !.ref[e.index] = e.ref]
    [] e.type = "delta" -> [s EXCEPT !.payload[e.index] = @ \o e.payload]
    [] e.type = "stop" -> [s EXCEPT !.phase[e.index] = "closed"]
    [] e.type = "error" -> [s EXCEPT !.status = "errored"]
    [] e.type = "message_stop" -> [s EXCEPT !.status = "stopped"]
    [] OTHER -> s

Observe(s, e) == IF Legal(s, e) THEN Advance(s, e) ELSE [s EXCEPT !.ok = FALSE]

ObserveBlock(s, a, b, c) == Observe(Observe(Observe(s, a), b), c)
=============================================================================
