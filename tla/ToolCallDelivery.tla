------------------------- MODULE ToolCallDelivery -------------------------
(***************************************************************************)
(* What StreamHandler promises about a streamed tool call, with no word of *)
(* buffers, frames or events: while the provider spells the call out the   *)
(* client sees nothing of it; when it is complete the client gets all of   *)
(* it, as sent or with another payload and no signature, or never hears of *)
(* it.  Other blocks, and all blocks of a plugin without a tool callback,  *)
(* pass as they come.                                                      *)
(***************************************************************************)
EXTENDS StreamBlocks

CONSTANTS Replacement   \* the payloads a plugin may substitute

VARIABLES
  whole,   \* the plugin wants whole tool calls
  sent,    \* sent[i]: block i as far as the provider got
  got,     \* got[i]: block i as far as the client got
  cut      \* the plugin failed and the host ended the stream

vars == <<whole, sent, got, cut>>

Block(phase, ref, payload) == [phase |-> phase, ref |-> ref, payload |-> payload]

Blank == Block("fresh", NoRef, <<>>)
Piece == {<<>>} \cup {<<f>> : f \in Fragment}

Init ==
  /\ whole \in BOOLEAN
  /\ sent = [i \in Index |-> Blank]
  /\ got = [i \in Index |-> Blank]
  /\ cut = FALSE

\* How a block can go on.
Further(b) ==
  CASE b.phase = "fresh" -> {Block("tool", r, b.payload) : r \in Ref} \cup {Block("other", b.ref, b.payload)}
    [] b.phase = "tool" -> {Block("tool", b.ref, b.payload \o p) : p \in Piece}
                             \cup {Block("closed", b.ref, b.payload)}
    [] b.phase = "other" -> {Block("closed", b.ref, b.payload)}
    [] OTHER -> {}

\* The client follows the provider event by event.
Relay(i) ==
  /\ ~cut
  /\ got[i] = sent[i]
  /\ \E b \in Further(sent[i]) :
       /\ whole => b.ref = NoRef
       /\ sent' = [sent EXCEPT ![i] = b]
       /\ got' = [got EXCEPT ![i] = b]
  /\ UNCHANGED <<whole, cut>>

\* The provider goes on and the client hears nothing of it: tool calls are
\* held back, other blocks only when the stream ends here.
Withhold(i) ==
  /\ whole /\ ~cut
  /\ cut' \in BOOLEAN
  /\ \E b \in Further(sent[i]) : (cut' \/ b.ref # NoRef) /\ sent' = [sent EXCEPT ![i] = b]
  /\ UNCHANGED <<whole, got>>

\* The plugin fails on an event of no block.
Cut == ~cut /\ cut' = TRUE /\ UNCHANGED <<whole, sent, got>>

\* The call is complete and the client gets it in one piece.
Deliver(i) ==
  /\ whole /\ ~cut
  /\ sent[i].phase = "tool"
  /\ LET ref == sent[i].ref  payload == sent[i].payload
     IN /\ sent' = [sent EXCEPT ![i] = Block("closed", ref, payload)]
        /\ \/ got' = [got EXCEPT ![i] = Block("closed", ref, payload)]
           \/ \E p \in Replacement :
                got' = [got EXCEPT ![i] = Block("closed", [ref EXCEPT !.sig = FALSE], p)]
  /\ UNCHANGED <<whole, cut>>

Next == Cut \/ \E i \in Index : Relay(i) \/ Withhold(i) \/ Deliver(i)

Spec == Init /\ [][Next]_vars
=============================================================================
