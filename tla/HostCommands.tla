---------------------------- MODULE HostCommands ----------------------------
(***************************************************************************)
(* The commands of the native test host (sdktest/sdktest.go): a call is    *)
(* gated by the running hook and the granted permissions, then answered by *)
(* a stub of the test or by the harness's own stores.  The harness locks   *)
(* for the gate and again for the stores; a stub runs unlocked, so other   *)
(* goroutines of a hook and the test's own calls come in between.          *)
(* Recording is modelled in VerdictOutcome, durable state in StateStore,   *)
(* the metadata of several requests in RequestScope.  Texts are sequences  *)
(* of characters, the empty one is <<>>.                                   *)
(***************************************************************************)
EXTENDS Integers, Sequences, SequencesExt, HostCatalog

CONSTANTS
  Caller,         \* goroutines making host calls
  Call,           \* the calls a plugin makes: NoCall with other fields
  CacheKey, MetaKey, Path, Slot,
  Text,           \* what a test seeds, binds, configures or stubs
  Time,           \* values of the clock, milliseconds
  PermissionSets, \* permissions a test's manifest may grant
  HookSets,       \* hooks it may declare
  Dispatched,     \* hooks a test dispatches
  Stubbed,        \* commands a test stubs
  Behaviour,      \* what its stubs do
  Absent, Never, Unrestricted, NoStub,
  MaxCalls,       \* bound: host calls of one test
  MaxSetup        \* bound: harness calls of one test, the clock apart

Content == Seq(STRING)

ASSUME AbsentAssumption ==
  /\ Text \subseteq Content /\ Never \notin Nat
  /\ Absent \notin Content \cup [value : Content, due : Nat \cup {Never}]
ASSUME HookAssumption == Dispatched \subseteq Hooks
ASSUME TimeAssumption == Time \subseteq Nat /\ Time # {}
ASSUME BehaviourAssumption == Behaviour \subseteq {"value", "typed", "denies", "malformed", "transport error"}
ASSUME BoundAssumption == MaxCalls \in Nat /\ MaxSetup \in Nat

VARIABLES
  cache,        \* h.cache and h.sharedCache
  expiry,       \* h.cacheExpiry and h.sharedExpiry, 0 where there is none
  meta,         \* the metadata of the request
  files, credentials, config, original,
  now,          \* what h.now answers
  permissions,  \* h.permissions, Unrestricted for nil
  hooks,        \* h.hooks
  stubs,        \* h.stubs
  hook,         \* invocationHook of the active request, "run" outside a hook
  at,           \* at[c]: "idle", "admitted" or "done"
  asked,        \* asked[c]: c's call
  stub,         \* stub[c]: the stub its gate found
  reply,        \* reply[c]
  logged,       \* h.logs and h.metrics: which kinds were captured
  acked,        \* history: keys and paths whose last acknowledged call wrote them
  spent         \* host calls and harness calls so far

caches == <<cache, expiry>>
fixtures == <<credentials, config, original, permissions, hooks, stubs>>
callVars == <<at, asked, stub, reply>>
vars == <<caches, meta, files, fixtures, now, hook, callVars, logged, acked, spent>>

Store == {"private", "shared"}
Originals == {"env.original_request", "env.original_response"}

NoCall == [cmd |-> "none", key |-> <<>>, value |-> <<>>, ttl |-> Never, index |-> 0, wire |-> TRUE, valid |-> TRUE]
Answered(who, status, value) == [by |-> who, status |-> status, value |-> value]
NoReply == Answered("nobody", "none", <<>>)

Init ==
  /\ cache = [s \in Store |-> [k \in CacheKey |-> Absent]]
  /\ expiry = [s \in Store |-> [k \in CacheKey |-> 0]]
  /\ meta = [k \in MetaKey |-> Absent]
  /\ files = [p \in Path |-> Absent]
  /\ credentials = [s \in Slot |-> Absent]
  /\ config = <<"{", "}">>
  /\ original = [o \in Originals |-> Absent]
  /\ now \in Time
  /\ permissions = Unrestricted /\ hooks = Unrestricted
  /\ stubs = [cmd \in Stubbed |-> NoStub]
  /\ hook = "run"
  /\ at = [c \in Caller |-> "idle"]
  /\ asked = [c \in Caller |-> NoCall]
  /\ stub = [c \in Caller |-> NoStub]
  /\ reply = [c \in Caller |-> NoReply]
  /\ logged = {}
  /\ acked = {}
  /\ spent = [calls |-> 0, setup |-> 0]

-----------------------------------------------------------------------------
(* Argument validation (pb/v1/hostcall_validate.go) *)

\* validateLogicalPath: no empty, "." or ".." segment, so no leading slash.
LogicalPath(path) ==
  LET ends == {0, Len(path) + 1} \cup {i \in DOMAIN path : path[i] = "/"}
      segments == {s \in ends \X ends : s[1] < s[2] /\ \A e \in ends : e <= s[1] \/ e >= s[2]}
  IN /\ \A i \in DOMAIN path : path[i] # "\\"
     /\ \A s \in segments : SubSeq(path, s[1] + 1, s[2] - 1) \notin {<<>>, <<".">>, <<".", ".">>}

\* validateSlot: ASCII letters, digits and, after the first, punctuation.
ValidSlot(slot) ==
  /\ slot # <<>>
  /\ \A i \in DOMAIN slot : slot[i] \notin {"/", "\\", " "} /\ (i = 1 => slot[i] \notin {".", "_", "-"})

MetaCommands == {"env.meta_get", "env.meta_set"}
CacheCommands == {"env.cache_get", "env.cache_set", "env.cache_delete",
                  "env.shared_cache_get", "env.shared_cache_set", "env.shared_cache_delete"}
SetCommands == {"env.cache_set", "env.shared_cache_set"}
KeyCommands == MetaCommands \cup (CacheCommands \ SetCommands)
PathCommands == {"env.file_append", "env.file_read", "env.file_write", "env.file_delete"}
Verdicts == {"env.block_request", "env.respond_request", "env.route_request", "env.set_identity"}

\* Validate of the command's argument message; "valid" stands for the fields
\* of a verdict or an outbound request.  A lifetime of 0 is no lifetime.
Acceptable(call) ==
  /\ call.wire
  /\ CASE call.cmd \in KeyCommands -> call.key # <<>>
       [] call.cmd \in SetCommands -> call.key # <<>> /\ call.ttl # 0
       [] call.cmd = "env.meta_append" -> call.index >= 0
       [] call.cmd \in PathCommands -> LogicalPath(call.key)
       [] call.cmd = "env.file_list" -> call.key = <<>> \/ LogicalPath(call.key)
       [] call.cmd = "env.credential_get" -> ValidSlot(call.key)
       [] call.cmd = "env.http_request" -> ValidSlot(call.key) /\ call.valid
       [] call.cmd \in Verdicts -> call.valid

Validated == KeyCommands \cup SetCommands \cup PathCommands \cup Verdicts
               \cup {"env.meta_append", "env.file_list", "env.credential_get", "env.http_request"}

BlockKey(index) == <<"block:", ToString(index)>>

\* Bound: the keys and paths a call can reach are those of the constants.
ASSUME CallAssumption ==
  \A call \in Call :
    /\ call.value \in Content /\ call.ttl \in Nat \cup {Never}
    /\ call.cmd \in CacheCommands /\ call.key # <<>> => call.key \in CacheKey
    /\ call.cmd \in MetaCommands /\ call.key # <<>> => call.key \in MetaKey
    /\ call.cmd = "env.meta_append" /\ call.index >= 0 => BlockKey(call.index) \in MetaKey
    /\ call.cmd \in PathCommands /\ LogicalPath(call.key) => call.key \in Path

\* isExtensionCommand: names outside env.*, catalogued or not.
ExtensionCommands ==
  {"torana_evaluate_compaction", "torana_plugin_counter", "torana_record_savings",
   "torana_send_request", "verify_virtual_key", "custom_feature"}
Builtin == Validated \cup Originals \cup {"env.now", "env.plugin_config"}

-----------------------------------------------------------------------------
(* hostCallBytes: the gate, the stub, or the built-in answer *)

\* An unknown command has no hooks and no permission.
Granted(call) ==
  /\ hook # "run" => call.cmd \in Commands /\ hook \in CommandHooks(call.cmd)
  /\ permissions # Unrestricted => call.cmd \in Commands /\ CommandPermission(call.cmd) \in permissions

\* The first locked section; a stub installed later does not serve this call.
Issue(c, call) ==
  /\ at[c] # "admitted" /\ spent.calls < MaxCalls
  /\ spent' = [spent EXCEPT !.calls = @ + 1]
  /\ asked' = [asked EXCEPT ![c] = call]
  /\ stub' = [stub EXCEPT ![c] = IF call.cmd \in Stubbed THEN stubs[call.cmd] ELSE NoStub]
  /\ at' = [at EXCEPT ![c] = IF Granted(call) THEN "admitted" ELSE "done"]
  /\ reply' = [reply EXCEPT ![c] = IF Granted(call) THEN NoReply ELSE Answered("gate", "PERMISSION_DENIED", <<>>)]
  /\ UNCHANGED <<caches, meta, files, fixtures, now, hook, logged, acked>>

\* Which keys an acknowledged call leaves written.
Acknowledge(call, r) ==
  acked' = IF r.by # "host" \/ r.status # "value" THEN acked
           ELSE CASE call.cmd = "env.meta_set" -> acked \cup {<<"meta", call.key>>}
                  [] call.cmd = "env.meta_append" /\ call.value # <<>> -> acked \cup {<<"meta", BlockKey(call.index)>>}
                  [] call.cmd \in {"env.file_append", "env.file_write"} -> acked \cup {<<"file", call.key>>}
                  [] call.cmd = "env.file_delete" -> acked \ {<<"file", call.key>>}
                  [] OTHER -> acked

Finish(c, r) ==
  /\ at' = [at EXCEPT ![c] = "done"]
  /\ reply' = [reply EXCEPT ![c] = r]
  /\ Acknowledge(asked[c], r)
  /\ UNCHANGED <<asked, stub, fixtures, now, hook, logged, spent>>

Returns(c, value) == Finish(c, Answered("host", "value", value))
Refuses(c, code) == Finish(c, Answered("host", code, <<>>))

\* The callback runs unlocked.  A typed stub decodes the arguments first; a
\* raw one answers a value, a refusal (DenyPermission), a frame the guest
\* cannot decode, or an error.
RunStub(c) ==
  /\ at[c] = "admitted" /\ stub[c] # NoStub
  /\ Finish(c, Answered("stub", CASE stub[c] = "typed" -> IF asked[c].wire THEN "value" ELSE "INVALID_ARGUMENT"
                                  [] stub[c] = "denies" -> "PERMISSION_DENIED"
                                  [] OTHER -> stub[c], <<>>))
  /\ UNCHANGED <<caches, meta, files>>

\* The harness's answer: the second locked section.
Serving(c, commands) == at[c] = "admitted" /\ stub[c] = NoStub /\ asked[c].cmd \in commands /\ Acceptable(asked[c])

\* Slip: an entry is stored before its lifetime is looked at.
RejectAfterStoring(c) ==
  /\ at[c] = "admitted" /\ stub[c] = NoStub /\ asked[c].cmd \in Validated /\ ~Acceptable(asked[c])
  /\ Refuses(c, "INVALID_ARGUMENT")
  /\ cache' = [s \in Store |-> [k \in CacheKey |->
               IF asked[c].cmd = "env.cache_set" /\ s = "private" /\ k = asked[c].key THEN asked[c].value ELSE cache[s][k]]]
  /\ UNCHANGED <<expiry, meta, files>>

Reject(c) ==
  /\ at[c] = "admitted" /\ stub[c] = NoStub /\ asked[c].cmd \in Validated /\ ~Acceptable(asked[c])
  /\ Refuses(c, "INVALID_ARGUMENT")
  /\ UNCHANGED <<caches, meta, files>>

\* A read of one key: absence is an answer of its own.
Look(c, map, key, code) ==
  \/ map[key] = Absent /\ Refuses(c, code)
  \/ map[key] # Absent /\ Returns(c, map[key])

-----------------------------------------------------------------------------
(* Caches *)

StoreOf(cmd) == IF cmd \in {"env.cache_get", "env.cache_set", "env.cache_delete"} THEN "private" ELSE "shared"

Expired(s, k) == cache[s][k] # Absent /\ expiry[s][k] > 0 /\ now >= expiry[s][k]

PutEntry(s, k, value, due) ==
  /\ cache' = [cache EXCEPT ![s][k] = value]
  /\ expiry' = [expiry EXCEPT ![s][k] = due]

\* An expired entry is dropped by the read that finds it.
CacheGet(c) ==
  LET s == StoreOf(asked[c].cmd)
      k == asked[c].key
  IN /\ Serving(c, {"env.cache_get", "env.shared_cache_get"})
     /\ \/ Expired(s, k) /\ PutEntry(s, k, Absent, 0) /\ Refuses(c, "NOT_FOUND")
        \/ ~Expired(s, k) /\ UNCHANGED caches /\ Look(c, cache[s], k, "NOT_FOUND")
     /\ UNCHANGED <<meta, files>>

\* Slip: a write without a lifetime leaves the earlier deadline.
CacheSetKeepingExpiry(c) ==
  LET s == StoreOf(asked[c].cmd)
      k == asked[c].key
  IN /\ Serving(c, SetCommands)
     /\ PutEntry(s, k, asked[c].value, IF asked[c].ttl = Never THEN expiry[s][k] ELSE now + asked[c].ttl)
     /\ Returns(c, <<>>)
     /\ UNCHANGED <<meta, files>>

CacheSet(c) ==
  /\ Serving(c, SetCommands)
  /\ PutEntry(StoreOf(asked[c].cmd), asked[c].key, asked[c].value,
              IF asked[c].ttl = Never THEN 0 ELSE now + asked[c].ttl)
  /\ Returns(c, <<>>)
  /\ UNCHANGED <<meta, files>>

CacheDelete(c) ==
  /\ Serving(c, {"env.cache_delete", "env.shared_cache_delete"})
  /\ PutEntry(StoreOf(asked[c].cmd), asked[c].key, Absent, 0)
  /\ Returns(c, <<>>)
  /\ UNCHANGED <<meta, files>>

-----------------------------------------------------------------------------
(* Metadata and block journals, which share one map *)

MetaGet(c) ==
  /\ Serving(c, {"env.meta_get"})
  /\ Look(c, meta, asked[c].key, "NOT_FOUND")
  /\ UNCHANGED <<caches, meta, files>>

\* Slip: an empty value is taken for a delete.
MetaSetDroppingEmpty(c) ==
  /\ Serving(c, {"env.meta_set"})
  /\ meta' = [meta EXCEPT ![asked[c].key] = IF asked[c].value = <<>> THEN Absent ELSE asked[c].value]
  /\ Returns(c, <<>>)
  /\ UNCHANGED <<caches, files>>

MetaSet(c) ==
  /\ Serving(c, {"env.meta_set"})
  /\ meta' = [meta EXCEPT ![asked[c].key] = asked[c].value]
  /\ Returns(c, <<>>)
  /\ UNCHANGED <<caches, files>>

\* A fragment is appended and acknowledged; no fragment reads the journal,
\* which an absent one survives.
MetaAppend(c) ==
  LET k == BlockKey(asked[c].index)
      journal == IF meta[k] = Absent THEN <<>> ELSE meta[k]
  IN /\ Serving(c, {"env.meta_append"})
     /\ \/ /\ asked[c].value # <<>>
           /\ meta' = [meta EXCEPT ![k] = journal \o asked[c].value]
           /\ Returns(c, <<>>)
        \/ asked[c].value = <<>> /\ UNCHANGED meta /\ Returns(c, journal)
     /\ UNCHANGED <<caches, files>>

-----------------------------------------------------------------------------
(* Files, and what a test configures *)

\* Appending to a file that is not there creates it, even with no bytes.
FileWrite(c) ==
  LET p == asked[c].key
      before == IF asked[c].cmd = "env.file_write" \/ files[p] = Absent THEN <<>> ELSE files[p]
  IN /\ Serving(c, {"env.file_append", "env.file_write"})
     /\ files' = [files EXCEPT ![p] = before \o asked[c].value]
     /\ Returns(c, <<>>)
     /\ UNCHANGED <<caches, meta>>

FileRead(c) ==
  /\ Serving(c, {"env.file_read"})
  /\ Look(c, files, asked[c].key, "NOT_FOUND")
  /\ UNCHANGED <<caches, meta, files>>

FileDelete(c) ==
  /\ Serving(c, {"env.file_delete"})
  /\ files' = [files EXCEPT ![asked[c].key] = Absent]
  /\ Returns(c, <<>>)
  /\ UNCHANGED <<caches, meta>>

\* The paths under the prefix in lexical order: the set determines the list.
FileList(c) ==
  /\ Serving(c, {"env.file_list"})
  /\ Finish(c, [by |-> "host", status |-> "value",
                paths |-> {p \in Path : files[p] # Absent /\ IsPrefix(asked[c].key, p)}])
  /\ UNCHANGED <<caches, meta, files>>

CredentialGet(c) ==
  /\ Serving(c, {"env.credential_get"})
  /\ Look(c, credentials, asked[c].key, "NOT_CONFIGURED")
  /\ UNCHANGED <<caches, meta, files>>

\* Commands without arguments, verdicts, and what the harness cannot emulate.
Tell(c) ==
  /\ at[c] = "admitted" /\ stub[c] = NoStub
  /\ \/ asked[c].cmd = "env.now" /\ Returns(c, <<ToString(now)>>)
     \/ asked[c].cmd = "env.plugin_config" /\ Returns(c, config)
     \/ asked[c].cmd \in Originals /\ Look(c, original, asked[c].cmd, "NOT_FOUND")
     \/ Serving(c, Verdicts) /\ Returns(c, <<>>)
     \/ Serving(c, {"env.http_request"}) /\ Refuses(c, "NOT_CONFIGURED")
     \/ asked[c].cmd \in ExtensionCommands /\ Refuses(c, "NOT_CONFIGURED")
     \/ asked[c].cmd \notin Builtin \cup ExtensionCommands /\ Refuses(c, "NOT_FOUND")
  /\ UNCHANGED <<caches, meta, files>>

Serve(c) ==
  \/ RunStub(c) \/ Reject(c)
  \/ CacheGet(c) \/ CacheSet(c) \/ CacheDelete(c)
  \/ MetaGet(c) \/ MetaSet(c) \/ MetaAppend(c)
  \/ FileWrite(c) \/ FileRead(c) \/ FileDelete(c) \/ FileList(c)
  \/ CredentialGet(c) \/ Tell(c)

\* Log and EmitMetric: dropped in silence without the permission.
Emit(permission) ==
  /\ spent.calls < MaxCalls /\ spent' = [spent EXCEPT !.calls = @ + 1]
  /\ permission \in {"env.log", "env.emit_metric"}
  /\ permissions # Unrestricted => permission \in permissions
  /\ logged' = logged \cup {permission}
  /\ UNCHANGED <<caches, meta, files, fixtures, now, hook, callVars, acked>>

-----------------------------------------------------------------------------
(* The test: harness calls, at any time *)

Setup == spent.setup < MaxSetup /\ spent' = [spent EXCEPT !.setup = @ + 1]

\* Setting the clock, forward or back.
SetNow(t) ==
  /\ now' = t
  /\ UNCHANGED <<caches, meta, files, fixtures, hook, callVars, logged, acked, spent>>

\* SeedCache, SeedSharedCache: the value only, an old expiry stays.
SeedCache(s, k, text) ==
  /\ Setup
  /\ cache' = [cache EXCEPT ![s][k] = text]
  /\ UNCHANGED <<expiry, meta, files, fixtures, now, hook, callVars, logged, acked>>

SeedFile(p, text) ==
  /\ Setup
  /\ files' = [files EXCEPT ![p] = text] /\ acked' = acked \cup {<<"file", p>>}
  /\ UNCHANGED <<caches, meta, fixtures, now, hook, callVars, logged>>

\* SetCredential, SetConfig, SetOriginalRequest, SetOriginalResponse.
Provide(text) ==
  /\ Setup
  /\ \/ \E s \in Slot : credentials' = [credentials EXCEPT ![s] = text] /\ UNCHANGED <<config, original>>
     \/ config' = text /\ UNCHANGED <<credentials, original>>
     \/ \E o \in Originals : original' = [original EXCEPT ![o] = text] /\ UNCHANGED <<credentials, config>>
  /\ UNCHANGED <<caches, meta, files, permissions, hooks, stubs, now, hook, callVars, logged, acked>>

\* StubHostCall, DenyPermission and the typed stubs.
StubHostCall(cmd, does) ==
  /\ Setup
  /\ stubs' = [stubs EXCEPT ![cmd] = does]
  /\ UNCHANGED <<caches, meta, files, credentials, config, original, permissions, hooks, now, hook, callVars, logged, acked>>

\* WithPermissions and WithHooks refuse names the catalogue does not know.
WithManifest ==
  /\ Setup
  /\ \/ \E granted \in PermissionSets : granted \subseteq Permissions /\ permissions' = granted /\ UNCHANGED hooks
     \/ \E declared \in HookSets : declared \subseteq Hooks /\ hooks' = declared /\ UNCHANGED permissions
  /\ UNCHANGED <<caches, meta, files, credentials, config, original, stubs, now, hook, callVars, logged, acked>>

HookAllowed(h) ==
  /\ hooks # Unrestricted => h \in hooks
  /\ permissions # Unrestricted => \A p \in DOMAIN HookGrants : HookGrants[p] = h => p \in permissions

\* A dispatch in the request's scope; no call of the hook outlives it here.
Dispatch(h) ==
  /\ hook = "run" /\ HookAllowed(h) /\ \A c \in Caller : at[c] # "admitted"
  /\ hook' = h
  /\ UNCHANGED <<caches, meta, files, fixtures, now, callVars, logged, acked, spent>>

Settle ==
  /\ hook # "run" /\ \A c \in Caller : at[c] # "admitted"
  /\ hook' = "run"
  /\ UNCHANGED <<caches, meta, files, fixtures, now, callVars, logged, acked, spent>>

Next ==
  \/ \E c \in Caller, call \in Call : Issue(c, call)
  \/ \E c \in Caller : Serve(c)
  \/ \E p \in {"env.log", "env.emit_metric"} : Emit(p)
  \/ \E t \in Time : SetNow(t)
  \/ \E s \in Store, k \in CacheKey, text \in Text : SeedCache(s, k, text)
  \/ \E p \in Path, text \in Text : SeedFile(p, text)
  \/ \E text \in Text : Provide(text)
  \/ \E cmd \in Stubbed, does \in Behaviour : StubHostCall(cmd, does)
  \/ WithManifest
  \/ \E h \in Dispatched : Dispatch(h)
  \/ Settle

Spec == Init /\ [][Next]_vars
-----------------------------------------------------------------------------
(* Properties *)

\* The caches as CacheService promises them: a value and its deadline are one
\* entry, and a call that reached no cache shows in no cache.
CacheOp(cmd) ==
  CASE cmd \in {"env.cache_get", "env.shared_cache_get"} -> "get"
    [] cmd \in SetCommands -> "set"
    [] cmd \in {"env.cache_delete", "env.shared_cache_delete"} -> "delete"
    [] OTHER -> "other"

Entry(s, k) ==
  IF cache[s][k] = Absent THEN Absent
  ELSE [value |-> cache[s][k], due |-> IF expiry[s][k] > 0 THEN expiry[s][k] ELSE Never]

\* The answer of a cache, not of the gate, a stub or another service.
FromCache(c) ==
  /\ reply[c].by = "host" /\ reply[c].status \in {"value", "NOT_FOUND"}
  /\ CacheOp(asked[c].cmd) # "other"

CacheAnswer(c) ==
  CASE at[c] = "idle" -> [kind |-> "done"]
    [] at[c] = "admitted" -> [kind |-> "pending"]
    [] at[c] = "done" /\ ~FromCache(c) -> [kind |-> "elsewhere"]
    [] at[c] = "done" /\ FromCache(c) /\ reply[c].status = "NOT_FOUND" -> [kind |-> "absent"]
    [] at[c] = "done" /\ FromCache(c) /\ reply[c].status = "value" ->
         IF CacheOp(asked[c].cmd) = "get" THEN [kind |-> "found", value |-> reply[c].value] ELSE [kind |-> "done"]

Service == INSTANCE CacheService WITH
  Key <- CacheKey,
  entry <- [s \in Store |-> [k \in CacheKey |-> Entry(s, k)]],
  asked <- [c \in Caller |-> [op |-> CacheOp(asked[c].cmd), store |-> StoreOf(asked[c].cmd),
                              key |-> asked[c].key, value |-> asked[c].value, ttl |-> asked[c].ttl]],
  answer <- [c \in Caller |-> CacheAnswer(c)]

\* "ABSENCE IS NOT EMPTINESS" and entries end with their lifetime (meta.go):
\* both caches keep the promise for every order of calls, stubs, seeds and
\* clock changes, although expiry is only noticed by a read.
ServesCaches == Service!CacheSpec

\* "Rejected arguments must not mutate" (sdktest.go), and neither does a call
\* the gate, a stub or a missing key refused: the plugin's data changes only in
\* a step that answers a call with a value or that the test makes itself; all
\* a refusal may do is drop an entry that had expired.
RefusalsTouchNothing ==
  [][\A c \in Caller : reply'[c] # reply[c] /\ reply'[c].status # "value" =>
       /\ UNCHANGED <<meta, files, fixtures>>
       /\ \A s \in Store, k \in CacheKey :
            cache'[s][k] = cache[s][k] \/ (cache'[s][k] = Absent /\ Expired(s, k))]_vars

\* What a plugin was told is written can be found until it is told it is
\* deleted, an empty text like any other, and nothing else can: no key exists
\* that no acknowledged write made (sdktest.go, meta.go).
AcknowledgedIsThere ==
  acked = {<<"meta", k>> : k \in {k \in MetaKey : meta[k] # Absent}}
            \cup {<<"file", p>> : p \in {p \in Path : files[p] # Absent}}
=============================================================================
