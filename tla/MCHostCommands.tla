--------------------------- MODULE MCHostCommands ---------------------------
(***************************************************************************)
(* Two goroutines, one key in each cache, a plain metadata key and the     *)
(* journal of block 0, a file and one below it.  Every command is called   *)
(* with arguments that pass and, where it validates, with some that fail.  *)
(***************************************************************************)
EXTENDS HostCommands
CallOf(cmd, key, value) == [NoCall EXCEPT !.cmd = cmd, !.key = key, !.value = value]
Empty == <<>>
MCCacheKey == {<<"k">>}
MCMetaKey == {<<"m">>, BlockKey(0)}
MCPath == {<<"a">>, <<"a", "/", "b">>}
MCSlot == {<<"s">>}
MCText == {<<"t">>}
CacheCalls ==
  {CallOf(cmd, <<"k">>, Empty) : cmd \in {"env.cache_get", "env.shared_cache_get", "env.cache_delete", "env.cache_set"}}
    \cup {[CallOf("env.cache_set", <<"k">>, Empty) EXCEPT !.ttl = ttl] : ttl \in {0, 1}}
    \cup {CallOf("env.shared_cache_set", <<"k">>, <<"v">>)}
MetaCalls ==
  {CallOf("env.meta_get", BlockKey(0), Empty), CallOf("env.meta_set", <<"m">>, Empty)}
    \cup {CallOf("env.meta_append", Empty, v) : v \in {Empty, <<"f">>}}
FileCalls ==
  {CallOf("env.file_append", <<"a">>, Empty), CallOf("env.file_read", <<"a">>, Empty), CallOf("env.file_list", Empty, Empty),
   CallOf("env.file_delete", <<"a">>, Empty), CallOf("env.file_write", <<"a", "/", ".", ".">>, Empty)}
OtherCalls ==
  {CallOf(cmd, Empty, Empty) : cmd \in {"env.now", "env.plugin_config", "env.original_response", "env.block_request",
                                        "verify_virtual_key"}}
    \cup {CallOf("env.credential_get", <<"s">>, Empty), CallOf("env.http_request", <<"s">>, Empty)}
    \cup {[CallOf("env.model_complete", Empty, Empty) EXCEPT !.wire = FALSE]}
MCCall == CacheCalls \cup MetaCalls \cup FileCalls \cup OtherCalls
MCPermissionSets == {{"env.cache_set", "env.meta_set", "env.model_complete", "env.log", "env.background_tick"}}
MCHookSets == {{"run_before_request", "run_on_tick"}}
MCSymmetry == Permutations(Caller)
=============================================================================
