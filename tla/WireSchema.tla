----------------------------- MODULE WireSchema -----------------------------
(***************************************************************************)
(* The protobuf messages a request and a hook result are made of, as the   *)
(* policy of outboundpolicy/policy.go reads their descriptors: for every   *)
(* field its kind, whether it is repeated or proto3-optional, and for a    *)
(* message field the message.                                              *)
(***************************************************************************)
EXTENDS TLC

FieldDescriptor(kind, card, of) == [kind |-> kind, card |-> card, of |-> of]

Singular(kind, names) == [f \in names |-> FieldDescriptor(kind, "singular", "")]
Optional(kind, names) == [f \in names |-> FieldDescriptor(kind, "optional", "")]
Repeated(kind, names) == [f \in names |-> FieldDescriptor(kind, "repeated", "")]
Sub(name, message) == name :> FieldDescriptor("message", "singular", message)
List(name, message) == name :> FieldDescriptor("message", "repeated", message)
NoFields == [f \in {} |-> FieldDescriptor("string", "singular", "")]

-----------------------------------------------------------------------------
(* The request. *)

Message == Singular("string", {"role"}) @@ List("blocks", "RequestBlock")

RequestBlock ==
  Sub("text", "RequestTextBlock") @@ Sub("thinking", "RequestThinkingBlock")
  @@ Sub("redacted_thinking", "RequestRedactedThinkingBlock")
  @@ Sub("tool_use", "RequestToolUseBlock") @@ Sub("tool_result", "RequestToolResultBlock")
  @@ Sub("cache_breakpoint", "RequestCacheBreakpoint") @@ Sub("unknown", "RequestUnknownBlock")
  @@ Sub("trailing_signature", "RequestTrailingSignatureBlock")
  @@ Sub("refusal", "RequestRefusalBlock")

RequestTextBlock == Singular("string", {"text", "signature"}) @@ Singular("bytes", {"part_metadata_json"})
RequestThinkingBlock == Singular("string", {"text", "signature"}) @@ Singular("bytes", {"part_metadata_json"})
RequestRedactedThinkingBlock == Singular("string", {"data"})
RequestRefusalBlock == Singular("string", {"refusal"})

RequestToolUseBlock ==
  Singular("string", {"id", "name", "signature"})
  @@ Singular("bytes", {"arguments_json", "part_metadata_json"})
  @@ Optional("string", {"input_text"}) @@ Singular("enum", {"invocation_kind"})

RequestToolResultBlock ==
  Singular("string", {"tool_call_id", "tool_name", "signature"})
  @@ List("content", "ToolResultContentBlock") @@ Singular("bytes", {"part_metadata_json"})
  @@ Optional("bool", {"will_continue", "is_error"}) @@ Optional("string", {"scheduling"})
  @@ Singular("enum", {"invocation_kind"})

RequestCacheBreakpoint == Singular("bytes", {"marker_json"})
RequestUnknownBlock ==
  Singular("string", {"kind", "signature"}) @@ Singular("bytes", {"payload_json", "part_metadata_json"})
RequestTrailingSignatureBlock ==
  Singular("string", {"signature"}) @@ Singular("bytes", {"part_metadata_json"})

ToolResultContentBlock ==
  Sub("text", "ToolResultTextBlock") @@ Sub("unknown", "ToolResultUnknownBlock")
  @@ Sub("cache_breakpoint", "ToolResultCacheBreakpoint")
ToolResultTextBlock == Singular("string", {"text"})
ToolResultUnknownBlock == Singular("string", {"kind"}) @@ Singular("bytes", {"payload_json"})
ToolResultCacheBreakpoint == Singular("bytes", {"marker_json"})

ToolDef ==
  Singular("string", {"name", "description"}) @@ Singular("bytes", {"parameters_json", "cache_control_json"})
  @@ Singular("bool", {"strict"}) @@ Singular("enum", {"invocation_kind"})
  @@ Optional("bytes", {"input_format_json"}) @@ Repeated("string", {"namespace_path"})
OutputFormat ==
  Singular("enum", {"mode"}) @@ Singular("string", {"name"}) @@ Singular("bytes", {"schema_json"})
  @@ Optional("bool", {"strict"})
ChatRequest ==
  Singular("string", {"model"}) @@ List("messages", "Message") @@ List("tools", "ToolDef")
  @@ Singular("bool", {"stream"}) @@ Optional("int32", {"max_tokens"})
  @@ Optional("double", {"temperature", "top_p"}) @@ Repeated("string", {"stop_sequences"})
  @@ Singular("bytes", {"provider_extensions_json", "safety_settings_json", "torana_meta_json"})
  @@ Sub("output_format", "OutputFormat")

-----------------------------------------------------------------------------
(* What a hook may send out. *)

ToolCall == Singular("string", {"id", "name", "signature"}) @@ Singular("bytes", {"arguments_json"})
Usage == Singular("int32", {"input_tokens", "output_tokens", "cache_read_tokens", "cache_write_tokens"})
ResponseTextBlock == Singular("string", {"text"})
ResponseBlock == Sub("text", "ResponseTextBlock") @@ Sub("tool_call", "ToolCall")
ResponseMessage == List("blocks", "ResponseBlock")
ChatResponse ==
  Singular("string", {"model", "id", "finish_reason", "provider"})
  @@ Sub("message", "ResponseMessage") @@ Sub("usage", "Usage")
  @@ Singular("int32", {"upstream_status"}) @@ Singular("int64", {"duration_ms", "completed_at_unix_ms"})
  @@ Singular("bytes", {"provider_extensions_json", "torana_meta_json"})

ToolCallRef == Singular("string", {"id", "name", "signature"}) @@ Singular("enum", {"invocation_kind"})
ToolCallDelta ==
  Singular("int32", {"index"}) @@ Singular("string", {"arguments_delta"})
  @@ Optional("string", {"input_text_delta"})
StreamError == Singular("int32", {"code"}) @@ Singular("string", {"message"})
MessageStart == Singular("string", {"role", "id", "model"})
MessageStop == Singular("string", {"finish_reason"})
TextBlock == NoFields
ThinkingBlock == NoFields
ProviderBlock == Singular("string", {"kind"})
ContentBlockStart ==
  Singular("int32", {"index"}) @@ Sub("text", "TextBlock") @@ Sub("thinking", "ThinkingBlock")
  @@ Sub("tool_call", "ToolCallRef") @@ Sub("provider", "ProviderBlock")
ContentBlockStop == Singular("int32", {"index"})
StreamEvent ==
  Singular("string", {"text_delta", "thinking_delta", "signature_delta"})
  @@ Sub("tool_call_delta", "ToolCallDelta") @@ Sub("usage", "Usage") @@ Sub("error", "StreamError")
  @@ Sub("message_start", "MessageStart") @@ Sub("message_stop", "MessageStop")
  @@ Sub("content_block_start", "ContentBlockStart") @@ Sub("content_block_stop", "ContentBlockStop")
StreamEvents == List("events", "StreamEvent")
HttpResponse == Singular("int32", {"status"}) @@ Singular("bytes", {"headers_json", "body"})
TickOutcome == Singular("int32", {"actions"}) @@ Singular("string", {"note"})
Suppress == NoFields
HookResult ==
  Sub("replace_request", "ChatRequest") @@ Sub("replace_response", "ChatResponse")
  @@ Sub("emit_events", "StreamEvents") @@ Sub("serve_http", "HttpResponse")
  @@ Sub("tick_outcome", "TickOutcome") @@ Sub("suppress", "Suppress")

\* The descriptors by the name of their message.
Descriptors ==
  [Message |-> Message, RequestBlock |-> RequestBlock, RequestTextBlock |-> RequestTextBlock,
   RequestThinkingBlock |-> RequestThinkingBlock,
   RequestRedactedThinkingBlock |-> RequestRedactedThinkingBlock,
   RequestRefusalBlock |-> RequestRefusalBlock, RequestToolUseBlock |-> RequestToolUseBlock,
   RequestToolResultBlock |-> RequestToolResultBlock,
   RequestCacheBreakpoint |-> RequestCacheBreakpoint, RequestUnknownBlock |-> RequestUnknownBlock,
   RequestTrailingSignatureBlock |-> RequestTrailingSignatureBlock,
   ToolResultContentBlock |-> ToolResultContentBlock, ToolResultTextBlock |-> ToolResultTextBlock,
   ToolResultUnknownBlock |-> ToolResultUnknownBlock,
   ToolResultCacheBreakpoint |-> ToolResultCacheBreakpoint, ToolDef |-> ToolDef,
   OutputFormat |-> OutputFormat, ChatRequest |-> ChatRequest, ToolCall |-> ToolCall, Usage |-> Usage,
   ResponseTextBlock |-> ResponseTextBlock, ResponseBlock |-> ResponseBlock,
   ResponseMessage |-> ResponseMessage, ChatResponse |-> ChatResponse, ToolCallRef |-> ToolCallRef,
   ToolCallDelta |-> ToolCallDelta, StreamError |-> StreamError, MessageStart |-> MessageStart,
   MessageStop |-> MessageStop, TextBlock |-> TextBlock, ThinkingBlock |-> ThinkingBlock,
   ProviderBlock |-> ProviderBlock, ContentBlockStart |-> ContentBlockStart,
   ContentBlockStop |-> ContentBlockStop, StreamEvent |-> StreamEvent, StreamEvents |-> StreamEvents,
   HttpResponse |-> HttpResponse, TickOutcome |-> TickOutcome, Suppress |-> Suppress,
   HookResult |-> HookResult]
=============================================================================
