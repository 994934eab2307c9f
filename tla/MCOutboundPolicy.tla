-------------------------- MODULE MCOutboundPolicy --------------------------
EXTENDS OutboundPolicy

\* Two signed blocks of a request, an unsigned one, the tool call of a response,
\* a message that nests another and is reached only through a topology field.
MCEdited ==
  {"RequestTextBlock", "RequestTrailingSignatureBlock", "RequestRefusalBlock", "ToolCall", "ContentBlockStart",
   "StreamEvents", "TextBlock"}
MCNewFields == {"signature"}
MCDescriptors ==
  {FieldDescriptor("string", "singular", ""), FieldDescriptor("string", "optional", ""),
   FieldDescriptor("message", "singular", "RequestThinkingBlock")}
MCPolicies ==
  {Assistant, HostOwned, BoundSignature, Container, FixedContainer, Delegate("http"),
   Policy("section", "ir.stream.write", "")}
MCRefs == {Ref("same_message", "", "text"), Ref("same_message", "", "signature"), Ref("trailing", "RequestTextBlock", "text")}
=============================================================================
