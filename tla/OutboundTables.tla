--------------------------- MODULE OutboundTables ---------------------------
(***************************************************************************)
(* The tables of outboundpolicy/policy.go as they ship: what a plugin may  *)
(* change in a response or a stream, field by field, which content each    *)
(* provider token covers, and which contract the request tokens are held   *)
(* to.                                                                     *)
(***************************************************************************)
EXTENDS TLC, Sequences, HostCatalog

PolicyKinds ==
  {"section", "host_owned", "bound_signature", "delegate", "topology", "container", "fixed_container"}
DelegateKinds == {"request", "response", "stream", "http", "tick"}

Policy(kind, section, delegate) == [kind |-> kind, section |-> section, delegate |-> delegate]

Section(s) == Policy("section", s, "")
HostOwned == Policy("host_owned", "", "")
BoundSignature == Policy("bound_signature", "", "")
Topology == Policy("topology", "ir.stream.write", "")
Container == Policy("container", "", "")
FixedContainer == Policy("fixed_container", "", "")
Delegate(d) == Policy("delegate", "", d)

Assistant == Section("ir.messages.write.assistant")

All(names, policy) == [f \in names |-> policy]

-----------------------------------------------------------------------------
(* The field policies, one table per message. *)

ChatResponsePolicies ==
  "message" :> Container
  @@ All({"model", "id", "finish_reason", "usage", "upstream_status", "duration_ms",
          "provider_extensions_json", "provider", "completed_at_unix_ms", "torana_meta_json"}, HostOwned)
ResponseMessagePolicies == "blocks" :> FixedContainer
ResponseBlockPolicies == All({"text", "tool_call"}, Container)
ResponseTextBlockPolicies == "text" :> Assistant
ResponseToolCallPolicies ==
  "id" :> HostOwned @@ All({"name", "arguments_json"}, Assistant) @@ "signature" :> BoundSignature
UsagePolicies ==
  All({"input_tokens", "output_tokens", "cache_read_tokens", "cache_write_tokens"}, HostOwned)
StreamEventVariantPolicies ==
  All({"text_delta", "thinking_delta"}, Assistant)
  @@ All({"usage", "error", "message_start"}, HostOwned)
  @@ All({"tool_call_delta", "message_stop"}, Container)
  @@ All({"content_block_start", "content_block_stop"}, Topology)
  @@ "signature_delta" :> BoundSignature
ToolCallDeltaPolicies == "index" :> Topology @@ All({"arguments_delta", "input_text_delta"}, Assistant)
StreamErrorPolicies == All({"code", "message"}, HostOwned)
MessageStartPolicies == All({"role", "id", "model"}, HostOwned)
MessageStopPolicies == "finish_reason" :> Assistant
ContentBlockStartPolicies ==
  All({"index", "text", "thinking", "provider"}, Topology) @@ "tool_call" :> Container
ToolCallRefPolicies ==
  All({"id", "name", "invocation_kind"}, Assistant) @@ "signature" :> BoundSignature
ProviderBlockPolicies == "kind" :> Topology
ContentBlockStopPolicies == "index" :> Topology
StreamEventsPolicies == "events" :> Delegate("stream")
HookResultActionPolicies ==
  "replace_request" :> Delegate("request") @@ "replace_response" :> Delegate("response")
  @@ All({"emit_events", "suppress"}, Delegate("stream"))
  @@ "serve_http" :> Delegate("http") @@ "tick_outcome" :> Delegate("tick")

OutboundMessageFieldPolicies ==
  [ChatResponse |-> ChatResponsePolicies, ResponseMessage |-> ResponseMessagePolicies,
   ResponseBlock |-> ResponseBlockPolicies, ResponseTextBlock |-> ResponseTextBlockPolicies,
   ToolCall |-> ResponseToolCallPolicies, Usage |-> UsagePolicies,
   StreamEvent |-> StreamEventVariantPolicies, ToolCallDelta |-> ToolCallDeltaPolicies,
   StreamError |-> StreamErrorPolicies, MessageStart |-> MessageStartPolicies,
   MessageStop |-> MessageStopPolicies, ContentBlockStart |-> ContentBlockStartPolicies,
   ToolCallRef |-> ToolCallRefPolicies, ProviderBlock |-> ProviderBlockPolicies,
   ContentBlockStop |-> ContentBlockStopPolicies, StreamEvents |-> StreamEventsPolicies,
   TextBlock |-> All({}, HostOwned), ThinkingBlock |-> All({}, HostOwned),
   Suppress |-> All({}, HostOwned), HookResult |-> HookResultActionPolicies]

OutboundDelegateTargets ==
  "response" :> {"ChatResponse"} @@ "stream" :> {"StreamEvents", "StreamEvent", "Suppress"}
  @@ All({"request", "http", "tick"}, {})

-----------------------------------------------------------------------------
(* The signature bindings and the contracts of the request tokens. *)

\* How a covered field is found from the token: on its message, in the open
\* block, in the blocks closed before, in the block of the same index.
SignatureScopes == {"same_message", "current_block", "trailing", "tool_block"}
SignatureDomains == {"request", "outbound"}

\* A covered field; no message stands for the token's own.
Ref(scope, message, field) == [scope |-> scope, message |-> message, field |-> field]
Own(fields) == [i \in DOMAIN fields |-> Ref("same_message", "", fields[i])]

Binding(domain, message, field, content) ==
  [domain |-> domain, message |-> message, field |-> field, content |-> content]

\* Both tables state the request tokens, in the same words.
RequestCoverage ==
  <<<<"RequestThinkingBlock", Own(<<"text", "part_metadata_json">>)>>,
    <<"RequestToolUseBlock",
      Own(<<"id", "name", "arguments_json", "input_text", "invocation_kind", "part_metadata_json">>)>>,
    <<"RequestUnknownBlock", Own(<<"kind", "payload_json", "part_metadata_json">>)>>,
    <<"RequestToolResultBlock",
      Own(<<"tool_call_id", "tool_name", "part_metadata_json", "will_continue", "scheduling",
            "content", "invocation_kind">>)>>,
    <<"RequestTrailingSignatureBlock",
      Own(<<"part_metadata_json">>)
      \o <<Ref("trailing", "RequestTextBlock", "text"), Ref("trailing", "RequestThinkingBlock", "text")>>>>,
    <<"RequestTextBlock", Own(<<"text", "part_metadata_json">>)>>>>

RequestSignatureContracts ==
  [i \in DOMAIN RequestCoverage |->
     [message |-> RequestCoverage[i][1], field |-> "signature", content |-> RequestCoverage[i][2]]]

OutboundBindings ==
  <<Binding("outbound", "ToolCall", "signature", Own(<<"id", "name", "arguments_json">>)),
    Binding("outbound", "ToolCallRef", "signature",
      Own(<<"id", "name", "invocation_kind">>)
      \o <<Ref("tool_block", "ToolCallDelta", "arguments_delta"),
           Ref("tool_block", "ToolCallDelta", "input_text_delta")>>),
    Binding("outbound", "StreamEvent", "signature_delta",
      <<Ref("current_block", "StreamEvent", "text_delta"), Ref("current_block", "StreamEvent", "thinking_delta"),
        Ref("trailing", "StreamEvent", "text_delta"), Ref("trailing", "StreamEvent", "thinking_delta")>>)>>

SignatureBindings ==
  [i \in DOMAIN RequestCoverage |->
     Binding("request", RequestCoverage[i][1], "signature", RequestCoverage[i][2])]
  \o OutboundBindings

\* The covered fields of a request that are more than plain text or bytes.
RequestCoveredFieldKinds ==
  <<"RequestToolResultBlock", "will_continue">> :> [kind |-> "bool", optional |-> TRUE]
  @@ <<"RequestToolResultBlock", "scheduling">> :> [kind |-> "string", optional |-> TRUE]
  @@ <<"RequestToolUseBlock", "input_text">> :> [kind |-> "string", optional |-> TRUE]
  @@ <<"RequestToolUseBlock", "invocation_kind">> :> [kind |-> "enum", optional |-> FALSE]
  @@ <<"RequestToolResultBlock", "invocation_kind">> :> [kind |-> "enum", optional |-> FALSE]
PinnedRepeatedContentTarget == <<"RequestToolResultBlock", "content">>
=============================================================================
