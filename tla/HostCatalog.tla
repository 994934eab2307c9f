---------------------------- MODULE HostCatalog ----------------------------
(***************************************************************************)
(* The capability catalogue (capabilities.json, read by capabilities.go):  *)
(* which hooks may issue a command, and the permission that grants it.     *)
(***************************************************************************)
EXTENDS TLC

Hooks == {"run_before_request", "run_after_response", "run_on_stream_chunk", "run_on_http_request", "run_on_tick"}

HookGrants == "env.background_tick" :> "run_on_tick" @@ "env.serve_http" :> "run_on_http_request"

\* Commands that a permission of the same name grants.
NamesakeCommands ==
  {"env.block_request", "env.cache_get", "env.cache_policy", "env.cache_set", "env.credential_get",
   "env.emit_metric", "env.file_append", "env.file_delete", "env.file_list", "env.file_read",
   "env.file_write", "env.http_request", "env.log", "env.meta_get", "env.meta_set",
   "env.model_capabilities", "env.model_complete", "env.model_pricing", "env.now",
   "env.original_request", "env.original_response", "env.plugin_config", "env.resource_info",
   "env.respond_request", "env.route_request", "env.set_identity", "env.shared_cache_get",
   "env.shared_cache_set", "env.state_get", "env.state_keys", "env.state_set", "env.suggest"}

\* Commands granted by another's permission, and the extensions.
GrantedBy ==
  "env.cache_delete" :> "env.cache_set" @@ "env.meta_append" :> "env.meta_set"
    @@ "env.shared_cache_delete" :> "env.shared_cache_set"
    @@ "env.state_compare_and_delete" :> "env.state_set" @@ "env.state_compare_and_set" :> "env.state_set"
    @@ "env.state_delete" :> "env.state_set" @@ "env.state_get_versioned" :> "env.state_get"
    @@ "env.state_scan" :> "env.state_keys"
    @@ "torana_evaluate_compaction" :> "env.host_call.torana_evaluate_compaction"
    @@ "torana_plugin_counter" :> "env.host_call.torana_plugin_counter"
    @@ "torana_record_savings" :> "env.host_call.torana_record_savings"
    @@ "torana_send_request" :> "env.host_call.torana_send_request"
    @@ "verify_virtual_key" :> "env.host_call.verify_virtual_key"

Commands == NamesakeCommands \cup DOMAIN GrantedBy

CommandPermission(cmd) == IF cmd \in DOMAIN GrantedBy THEN GrantedBy[cmd] ELSE cmd

\* Where a command may be issued: everywhere, but for the verdicts, the
\* suggestion and the captured originals.
CommandHooks(cmd) ==
  CASE cmd \in {"env.block_request", "env.respond_request", "env.route_request", "env.set_identity"} ->
         {"run_before_request"}
    [] cmd = "env.suggest" -> {"run_before_request", "run_after_response"}
    [] cmd = "env.original_request" -> {"run_before_request", "run_after_response", "run_on_stream_chunk"}
    [] cmd = "env.original_response" -> {"run_after_response", "run_on_stream_chunk"}
    [] OTHER -> Hooks

\* The write grants a plugin may hold over a request, a response or a stream.
WritePermissions ==
  {"ir.cache_control.write", "ir.messages.write.assistant", "ir.messages.write.developer",
   "ir.messages.write.other", "ir.messages.write.system", "ir.messages.write.tool",
   "ir.messages.write.user", "ir.model.write", "ir.params.write", "ir.stream.write",
   "ir.tool_result_content.write", "ir.tool_result_errors.write", "ir.tool_results.write",
   "ir.tools.write"}

Permissions ==
  {CommandPermission(cmd) : cmd \in Commands} \cup DOMAIN HookGrants
    \cup {"env.request_headers", "env.route_request.effort"} \cup WritePermissions
=============================================================================
