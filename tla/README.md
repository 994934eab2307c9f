# TLA+ model of the Torana plugin SDK

The Torana plugin SDK is what a plugin of the Torana edge proxy is written
against: a Go package (and a Rust crate) compiled to WASM, a protobuf ABI, and
a native test host (`sdktest`) that plays the proxy in unit tests. The modules
here model the parts of it that have state, order or concurrency, check them
with TLC and prove the central ones with TLAPS.

## 1. The system

| Component | State | Operations | Talks to |
|---|---|---|---|
| Durable state, `sdktest/sdktest.go` | maps `state`, `stateVersion`, counter `stateSeq`, switch `StateConfigured` | eight `env.state_*` commands, `SeedState` | called by every invocation, under the harness mutex |
| State helpers, `state.go` | none | `StateGet`, `StateSet`, versioned read, compare-and-set, compare-and-delete, scan, keys | one host call each |
| Stream assembly, `stream.go` | none in the guest; the host's metadata journal per content block | `Feed`, `Handle`, `EmitAssembledToolCall` | host (events in, `env.meta_append`), plugin callbacks, client (events out) |
| Verdicts and call log, `sdktest/dispatch.go`, `sdktest/sdktest.go`, `verdicts.go` | four lists of call entries, the active request and hook | `hostCallBytes`, `finalize`, `Effective*` getters | plugin verdict helpers, tests |
| Request scopes, `testsupport.go`, `sdktest/dispatch.go` | `dispatchMu`, `testHostPtr`, the harness's metadata map and active request | `WithTestHost`, `Request.with`, `Run`, dispatch methods | concurrent test goroutines, goroutines of a hook |
| Caches, files, metadata and the other commands of the test host, `sdktest/sdktest.go` | two caches with expiries, metadata, files, credentials, configuration, originals, clock, grants, stubs | `hostCallBytes`, `builtinTyped`, seed and stub helpers | goroutines of a hook, the test |
| Capability catalogue, `capabilities*.go`, `capabilities.json` | a table read once | which command needs which permission in which hook | the gates of a host call |
| Host-call envelope, `hostcall.go`, `hostrefusal.go`, `platform.go`, `egress.go`, `original.go`, `pb/v1/*` | none | encode, decode, classify | host |
| Registration and dispatch, `registration.go`, `handlers.go`, `dispatch.go`, `results.go` | claimed hooks, installed handlers | register, reset, bitmap, dispatch, construct a result | host exports |
| WASM memory, `sdk.go`, `abi.go` | pinned buffers | `alloc`, `dealloc`, `run_hook`, `hostCallRawImpl` | host |
| Observable prefix, `pb/v1/observableprefix.go` | none | project, replace the last marker | request |
| Message bodies, `body.go`, `requestblocks.go`, `tool_policy.go` | the request being edited | block and tool edits | signatures in the request |
| Outbound policy, `outboundpolicy/` | hand-written tables beside the schema | `init`, `Validate`, classification of a token's change | host start-up, replacements |
| JSON readers, `strictjson/`, `pb/v1/jsontext/` | none | scan, reject duplicates, decode an object | host adapters, plugins |
| Validators, generated code, provider schemas, Rust crate, tooling | none | | |

What makes each hard, and what must hold:

* *Durable state.* Invocations interleave at every host call. A conditional
  write must succeed exactly when the entry is the one its caller saw; a version
  must never come back; a paged scan must not miss what was there all along.
* *Stream assembly.* Calls overlap, successive events may be handled by
  different WASM instances, the metadata call can fail at any point, the stream
  can end in an error at any point. The client must see whole calls or none,
  in a well-formed stream, and no signature on a payload it does not sign.
* *Verdicts.* A request sees several invocations, some fail. Outcomes are
  recomputed each time over one growing list and written to four copies.
* *Requests.* A hook edits a request whose blocks carry provider tokens and cache
  markers. Each helper changes one block and has to leave honest tokens, a legal
  message and the cached prefix where they were, in any combination with others.
* *Commands of the test host.* A call passes three gates and a validator and is
  answered by a stub or by one of several stores; the lock is released between
  the gate and the store, where the test and other goroutines come in. A cache
  entry expires only when somebody looks.
* *The guest.* Claims and handlers are two tables about one fact; buffers are
  pinned by address and handed back and forth; a reply may be malformed in many
  ways and is read by seven families of helpers; a failure must trap, since an
  empty result means "pass".
* *JSON.* Two guards written apart stand on either side of one decoder and must
  agree on every text.
* *Policy tables.* Four tables and a schema are edited by hand; what a host may
  trust is what `init` and `Validate` let through.
* *Scopes.* One process-wide host pointer and one mutex serve all tests of a
  package, while host calls read the installed host, the metadata map and the
  active request in separate critical sections.

## 2. Modules

    VersionedStore          what durable state promises
      StateStore            the test host's maps and commands          implements VersionedStore
        StateSessions       invocations that remember versions
        StateScans          invocations that page through keys
        StateRetry          the reread-and-retry loop
          StateLoops        scans and retry loops on one store
            DurableStateProofs    store, sessions and loops
    StreamBlocks            events and the host's rules for a stream
      ToolCallDelivery      what the client gets of a tool call
      StreamAssembly        Feed and Handle                            implements ToolCallDelivery
        StreamAssemblyProofs
    VerdictRegister         one register per verdict
      VerdictOutcome        call lists and finalize                    implements VerdictRegister
        VerdictOutcomeProofs
    RequestBody             legality, token scopes, cached prefix, fingerprint of a request
      RequestEdits          a hook that edits its request with the body helpers
        RequestEditsProofs
    RequestScope            WithTestHost, Request.with, host calls of concurrent goroutines
      RequestScopeProofs
    CacheService            what a cache promises
    HostCatalog             which command needs which permission in which hook
      HostCommands          the commands of the test host, all but state    implements CacheService
        HostCommandsProofs
    HookTable               claims, handlers, bitmaps, manifests
    HookFrames              the input and the result of run_hook
    HostReply               a reply on its way into a plugin
      GuestAbi              one plugin instance: the three above, with memory
        GuestAbiProofs
    JsonTokens              texts as sequences of tokens
      JsonGrammar           what encoding/json accepts (external)
        JsonText            jsontext and strictjson
    WireSchema              fields of the messages the policy speaks of
    OutboundTables          the policy tables as they ship
      OutboundPolicy        edits of both, init and Validate
        OutboundPolicyProofs

`MC*` modules give the constants for TLC. `PROJECT.json` maps each definition
to the lines it stands for.

Some definitions carry a comment that begins with *Slip*: a variant of the
definition after it with one plausible mistake in it (a dropped guard, a missing
reset). No specification uses them. Each stands for a regression that one of the
properties must notice: put in the place of the right definition, it makes TLC
report that property.

### Durable state

`StateStore` has one variable per field of the harness and one action per
command; `reply` is the answer. `builtinTyped` holds the harness mutex for the
whole command, so each is one step. Keys are ranks in lexical order (only the
order matters to a scan); a prefix is the set of keys that begin with it;
versions are the numbers they are formatted from, with "" as 0 and a nil pointer
as -1. Every command has its refusals: invalid arguments first, then a store
that is not configured (`StateConfigured` is a public field a test may change).
`Next` has every command; `ConditionalNext` leaves out `state_delete`, the one
command that treats the two maps differently (section 4).

`VersionedStore` has a cell per key and a set of issued versions and says nothing
of counters or of two maps. `KeepsPromise` is the refinement: a cell holds the
entry whose value is in `state` and whose version is in `stateVersion`, and the
answer of each command, refusals, conflicts and the entries of pages included, is
what the abstract store may say. `SeedState` validates nothing in the code; the model
bounds it to keys that are not empty, the only ones a command can name.

`StateSessions` adds what each invocation has learnt from its own calls and lets
it write conditionally with exactly that. `StateScans` adds the cursor and the
collected pages of a scan, and a history of the keys that were present since it
began. `StateRetry` is the loop the doc of `StateCompareAndSet` asks for.
`StateLoops` runs both against one store, the counter of the workers being one of
the keys that are listed, while the test may take the store away and back.

### Streamed tool calls

A step of `StreamAssembly` is one event: the provider sends it, `Handle` is
called, and its result is passed on. The guest has no variable since the code
keeps none; `meta` is the host's journal. A payload is a sequence of fragments
so that appending is concatenation, and a journal starts with the framed
reference. `in` and `out` are the streams of provider and client, both read by
the automaton of `StreamBlocks` (the rules in the comment of `StreamEvent` in
`torana.proto`; the proxy that enforces them is not part of the repository).
Callback answers are chosen freely at each stop, a metadata call can be
refused, and a hook error ends the stream, as it does when the operator approved
`failure_mode: "block"`. Under fail-open the host passes the current event alone;
what it then does with the suppressed ones is host code and not modelled.

### Verdicts

`VerdictOutcome` keeps the four lists as sequences of entries. `finalize` is
modelled by its result: an entry survives if it is the first block, the first
response of an invocation that succeeded and was not blocked, or the last route
or identity of one that succeeded. The mutation loops of the code read flags they
have already cleared; that the one-pass result equals this is what the model
transcribes, and that it amounts to one register per verdict over many
invocations is checked against `VerdictRegister`. That keeps the verdicts still
under way, in the order they were said, and each call of `finalize` settles those of
one invocation.

### Requests

`RequestBody` has the stateless rules: which request is a legal replacement
(`ValidateReplacement`), what a token signs and how a change of it is judged
(`signatureBindings`, `ClassifySignatureMutation`), where the cached prefix ends
(`lastCacheMarker`, `RequestObservablePrefix`) and what is hashed
(`RequestBlocksFingerprint`; a digest is represented by its frames, so the model
says nothing of hash collisions or of the encoding of a frame). A message is a sequence of
blocks; texts, calls, markers and tokens are opaque values; a tool is its
cache marker; redacted, unknown and refusal blocks, which no helper touches, are
one kind.

`RequestEdits` is one invocation of a before-request hook. There is an action
for every mutating helper of `body.go` and one for `ReplaceLastCacheBreakpoint`;
each either reports an error and changes nothing, or applies its edit.
`ReplaceRequest` traps when the result does not validate. Blocks carry the position
they had in the accepted request as a ghost field, by which the properties compare
a block with what the host handed over; `touched` remembers whose signed content was ever
changed, since an edit that is undone leaves the content as accepted and the
token gone.

### Scopes

`RequestScope` splits a dispatch at each lock and each write of shared memory:
lock, install, open the scope, run, close the scope, uninstall, unlock. A host
call loads the installed host, then takes the harness mutex up to twice more.
A map of metadata is named by the scope that created it, and what it holds is
reduced to the other scopes that wrote to it. Functions that return, fail, panic or
call `t.Fatal` run the same deferred sections, so they are one action. A function
whose scope is in `Loose` may return before a goroutine it started; `leaked`
remembers that it did.

### Commands of the test host

A host call in `HostCommands` is two steps, like the two locked sections of
`hostCallBytes` around the answer: `Issue` passes the gates and picks up the stub,
`Serve` answers. A call with a stub is answered without the lock, so the stub that
answers is the one found at the gate. `Serve` has one operator per command; each
validates, may refuse, and changes its store. The test's own calls (seeding,
stubs, grants, the clock) come in anywhere, `WithManifest` included. `acked` is a
history of the keys and paths last acknowledged as written. `HostCatalog` is
`capabilities.json` as the code reads it.

`SetNow` may set the clock forward or back. `CacheService` keeps a value and its
deadline as one entry, which a read finds exactly while the clock is before the
deadline; the read that finds it expired may forget it. So a clock that is set back
shows an entry again unless somebody looked in between, in the code as in the
promise. A seed has the deadline of the entry it overwrites, expired or not, which is
what the code does (section 4).

### The guest

`GuestAbi` is one instance. `phase` goes from registration through load to
runs, `bufs` names who holds which address and `pinned` is the map of `sdk.go`; a
fresh address is any that is not pinned, so an address comes back as soon as the
guest lets go of it. Host imports are two steps, since the host calls `alloc` in
between. A panic ends in `trapped`; the host then takes a new instance.
`HookTable`, `HookFrames` and `HostReply` hold the stateless parts: a bitmap is a
set of bits, an input or a result is told apart by what its validator makes of
it, a reply is the sequence of its top-level fields, repeated and foreign ones
included. `Tell` of `HostReply` covers seven families of helpers, apart by how they
treat absence, decode the value and check themselves.

### JSON

A text is a sequence of tokens, a string a sequence of pieces: letters, halves of
surrogate pairs as `\u` escapes, an escape of a letter, malformed escapes, a raw control character, bad
UTF-8, an end in the middle. `ScanValue` and `WalkValue` are the two recursive
descents, each a function from a position to the positions it can go on from.
`JsonGrammar` says over spans of a text what `encoding/json` decodes, with its
nesting bound. A behaviour is a document and the slips made in it.

### Outbound policy

`OutboundTables` transcribes the policy tables, `WireSchema` the messages they
speak of. The variables of `OutboundPolicy` are the schema and the four tables;
its actions are the edits a maintainer makes (`EditSchema`, `EditPolicy`,
`EditTargets`, `EditBindings`, `EditContracts`) and the start of a process, which ends in `crashed` (`init` panics),
`refused` (`Validate` reports) or `trusted`.

No message of the schema contains itself and no edit makes one that does, so the
search for token fields (`policy.go:1187`), which keeps no set of the messages it has
seen, ends in every state. A field that is delegated to another verifier counts as
answered even if that verifier names no messages: three are empty by intent
(`policy.go:899-905`), their checks being elsewhere or deferred.

## 3. Runs

| Run | Shows | Bounds |
|---|---|---|
| `StateStore_promise` | the host's commands without `state_delete` implement `VersionedStore`; `MapsAgree` | 2 keys, 2 values, 4 versions |
| `StateStore_delete` | the finding of section 4 | the same |
| `StateSessions` | no ABA, no lost update between two invocations, with `state_delete` | 2 sessions, 2 keys, 2 values, 3 versions |
| `StateLoops` | a scan misses no lasting key and ends; every increment counts once, every worker finishes | 3 keys, 2 prefixes, pages of 1 and 2, 4 versions, 2 workers, 1 scanner |
| `StreamAssembly` | well-formed output, whole calls, honest signatures, journals, the refinement | 2 blocks, 2 fragments, 2 fragments per call (1 for a plugin that writes into the journals itself) |
| `VerdictOutcome` | copies agree, lost verdicts stay lost, the registers | 2 requests, 3 calls |
| `RequestEdits` | tokens stay honest, the request legal, the prefix where the last marker is; a guarded result withholds all; the fingerprint sees every edit | 2 texts, calls and markers; messages of up to 2 blocks and a trailing token, of every pair of kinds; insertion below 2 blocks; one request with two messages and tools |
| `RequestScope` | scopes mix only through a goroutine that outlived its function, nothing is left behind, dispatches end | 2 threads, 1 hook goroutine, 2 harnesses, 2 requests, one of which leaks |
| `HostCommands` | caches implement `CacheService`, refusals change nothing, what was acknowledged is there | 2 goroutines, 3 host calls, 1 harness call and the clock; one key per cache, 2 metadata keys (one a journal), 2 paths, one below the other; 2 instants |
| `GuestAbi` | claims are handlers, buffers have one holder, failures trap, answers were said | 3 of 5 hooks, 2 handlers, 5 addresses, 2 host calls per run, every reply of one arm and the malformed ones of two |
| `JsonText` | the two readers agree; what is read is exactly what has one meaning | documents of up to 3 levels with bound 2 on nesting, one slip |
| `OutboundPolicy` | no change is free, tokens stay covered | 2 edits, over 7 messages and one new field |

Why the bounds suffice. A lost update needs two sessions and one key, ABA needs
one delete and one recreation (three versions), and a version mix-up needs two
keys. A skipped key needs a page boundary with a write on either side: three keys
and pages of one. Overlap needs two blocks, and reordering two fragments.
A stale token needs one signed block and one edit, an
illegal order one insertion and one token, and a misplaced prefix two carriers of
different kinds, of which the results in the catalogue hold up to two themselves;
a tool result of five arms has a run of two before a marker and a run after it.
A resurrected verdict needs two invocations and two verdicts; the third call
makes first, middle and last differ. Mixed-up scopes need two of each.
A refusal in the wrong place needs one call and one later look; a cache race a
write, a rewrite and a read around one instant of expiry: three calls. A buffer
can be lost only between two holders: of an input, a request, a reply, a result
and a diagnostic never more than four are pinned together, and five addresses leave
one to be reused. The two JSON readers differ, if at all, in a string, in a
duplicate, at the bound or at the end of the text, all met with one slip. A table
drifts apart from another by one edit and is hidden by a second.
`MaxSeq`, `MaxPayload`, `MaxCalls`, `MaxSetup`, `MaxBlocks`, `MaxSlips` and `MaxEdits`
are the only cut-offs; `MaxMessages`, more than there are messages, only bounds the
steps of a walk from message to message. `StateLoops`, `StreamAssembly`, `RequestEdits`, `GuestAbi`,
`HostCommands`, `JsonText` and `OutboundPolicy` do stop (all workers counted; the
stream ended; the hook returned; the calls, slips or edits are spent), so deadlock is
not checked there.
`StateSessions` and `RequestEdits` use a VIEW without `reply`, which no step reads.

Fairness. A scanner keeps asking for pages and a retrying worker keeps calling
(weak fairness of calls that find the store there; both are the loops of a plugin). In `RequestScope` the functions
return and host calls finish (weak), and a thread that can again and again take
`dispatchMu` eventually does (strong): `sync.Mutex` hands the lock over to a
waiter that has waited for a millisecond.

## 4. Findings

`state_delete` (`sdktest/sdktest.go:1092`) leaves the version behind. A
`compare_and_delete` with it then answers `Applied=true` for an absent key, and
a `compare_and_set` that expects absence conflicts for ever; `state.go:223-224`
says `Applied=false` "is a clean conflict or absence".
The run `StateStore_delete` shows it.

Seen while modelling, without a run of their own:

* A replacement of the wrong kind is an error (`stream.go:387`) although the
  comment above it (`stream.go:385-386`) says the original call is preserved
  "exactly, matching callback-error fail-open behavior".
* A goroutine that outlives `Run` finds the host of a later dispatch
  (`testsupport.go:33`); `sdktest/sdktest.go:223-224` says it finds none. In
  `RequestScope` this is the one way from scope to scope.
* `ReplaceToolResultWithError` empties a result's signature when all it changes
  is the error flag (`body.go:384-391`), which is not in the result's signed set
  (`outboundpolicy/policy.go:492-500`): what `policy.go:223-229` calls
  `SignatureDropped` and rejects. `TokensGoneForCause` names the exception.
* The doc of `ReplaceToolResultText` (`body.go:238-241`) says a real change clears
  a final trailing signature; the code (`body.go:297-300`) keeps it, as the
  signature table requires.
* `hostcall.go:267-270` says that a known code is never "unclassified" and
  a newer one is; a newer code is refused before that by `HostError.Validate`, and
  `UNSUPPORTED`, which this build knows, is the only code that gets there.
* `SeedCache` and `SeedSharedCache` (`sdktest.go:488-508`) leave an earlier expiry
  in place, so a test that seeds "to start from a warm cache" may find it cold.
* A manifest whose hook list is empty or names a hook twice passes
  `CheckManifest`, and `ValidateManifestHooks` refuses it at load.
* `jsontext.go:28` says its bound "matches encoding/json's"; at the last level an
  empty container passes the scan and is refused by the decoder. Its numbers are
  scanned leniently too, as its package comment says.
* `Validate` of the policy does not hold an outbound binding's content, nor the
  delegate of a hook action, against a second table: dropping
  `arguments_delta` from the binding of `ToolCallRef`, or pointing one action at
  another delegate, is trusted. `TokensStayCovered` therefore compares contents
  for request tokens only.

## 5. Proofs

Each proof module proves its results for every value of the constants that meets the
named assumptions. Every safety property that a run checks is proved but for the two
of `JsonText`. Each proof rests on one inductive invariant, checked by TLC on the
model's run before it was proved.

`DurableStateProofs`, the store: for every set of keys and values, `TypeOK`,
`StoredValuesHaveVersions` and `VersionsAreDistinct` of `Spec`, and `MapsAgree` of
`ConditionalSpec`. The first three need one invariant: types, that no version is
ahead of `stateSeq`, that a version in the map belongs to one key, and that a stored
value has one. Distinctness alone is not inductive: a write issues `stateSeq + 1`,
which is new only because all others are at most `stateSeq`. It also proves
`ConditionalSpec => KeepsPromise`: initial states map, and each command maps to a step
of `VersionedStore` or a stutter. The argument uses `MapsAgree` (a cell is empty
exactly when no version is there) and that `stateSeq + 1` was never issued.

The sessions: `SameVersionSameValue` and `NoLostUpdate` for any number of
sessions over the whole `Next`, `state_delete` included. The invariant adds that what a
session remembers is no newer than the counter and fits the store: an equal version at
a stored key means an equal value.

The loops: `CountedOnce` and `ScanMissesNothingLasting` for any number of
workers and scanners on one store. What a worker is about to swap with either fits
the counter's entry now or carries a version that can never be there again, so a
swap counts exactly when nobody came between. A scan in progress has listed every
lasting key of its prefix that is not beyond its cursor; a page skips no key
(`PageSkipsNothing`), and an empty page means nothing is left.

`StreamAssemblyProofs`: `OutputWellFormed`, `NoPartialCall`, `SignatureBindsCall`,
`JournalIsFrame`, and that every event is a step of `ToolCallDelivery`
(`DeliversWhole`). The invariant goes block by block: what the client has seen of a
block is relayed as it came, withheld while its journal is the frame of what was sent,
delivered whole, or abandoned. Blocks do not interfere, so a step re-establishes it
for its own block only.

`VerdictOutcomeProofs`: `CopiesAgree` and the action property `NeverRestored`, for any
number of requests and invocations. The three lists hold copies of one entry; the
invariant says that an entry's index is its place in the harness's list, that indices
ascend in the other two, and that each entry has one owner, which is what makes the
lookups of `finalize` hit the same call. `KeepsRegisters`, that every step is one of
`VerdictRegister` or shows in no getter, adds that every verdict not yet settled is
effective and that of the settled ones at most one of a command is: then what
`finalize` keeps of a command is the register's old winner or the first, or the last,
of what was issued since.

`RequestEditsProofs`: all seven properties of `RequestEdits`, for any request, texts,
calls, markers and tokens and any number of edits. The invariant (`EditsInv`) says
that every block is the plugin's own and carries no token, or descends from a block
of the accepted request, in the accepted order; that a token is that block's, over
content that reads as accepted, and a trailing one stands over the same covered
texts; and that a missing one has a cause in `touched` or in an error flag. Honesty
alone is not inductive: a removal could bring a trailing token to stand over other
texts, unless it is known which texts those were. What an edit keeps is written by the rank
of the kept places (`Kept`), and the lemmas on ranks give that order survives. The
prefix and the marker swap rest on one reading of where markers are carried (tool,
block, arm) and on the last of them being the greatest in the order of serialisation.
That a fingerprint tells bodies apart rests on its frames: the frames of a block show
from the kind, which comes first, how many they are, so no block's frames begin
another's, and equal fingerprints are cut into blocks at the same places.

`OutboundPolicyProofs`: `NoFreeChange` and `TrustedTokens`, for any schema and tables
the edits lead to, in any number. `Validate` visits messages through delegates and
nested messages, the comparison of a result by a rule of its own; step by step of the
two walks, the comparison stays within what was visited, since a complete message
leads it nowhere else. A token has its one binding from three checks that each see
only two tables; that a binding which is as long as its contract, names nothing else
and nothing twice, names all of it, is a fact about injections. `TokensCovered` adds
the second half of `TokensStayCovered`, that the tables as they ship are trusted, from
the hypothesis that they pass the checks: to evaluate the checks on tables of two
hundred fields is TLC's work and done at the first step of the run.

Walks, flattened sequences and frames are recursive functions. The proofs use such
a definition only after they have shown that a function with that equation exists,
the least size without one being impossible.

`RequestScopeProofs`: `MetaStaysInScope`, `CallsStayInScope` and `NothingLeftBehind`
for any number of goroutines, harnesses and requests. The invariant says that the
lock, the installed pointer and the harnesses tell of one dispatch, the one of the
lock's holder, at each point of it; that a call under way holds the host of that
dispatch; and that a goroutine whose function has returned belongs to a scope in
`leaked`. None of the three properties is inductive alone: that a map holds only its
scope's writes follows only from where the call found its host.

`GuestAbiProofs`: `ClaimsAreHandlers`, `BuffersAccounted`, `FailuresNeverPass` and
`AnswersAreSaid` for any hooks, handlers, manifests, addresses and reply frames.
`BuffersAccounted` needs who may hold a buffer at each point of a run, since the free
that ends a call must meet exactly the call's own three; `FailuresNeverPass` needs that
a handler has decided nothing before it ended; `AnswersAreSaid` that the frame
remembered is the one the helper decoded.

`HostCommandsProofs`: `AcknowledgedIsThere`, the action property
`RefusalsTouchNothing`, and that the caches implement `CacheService` (`ServesCaches`),
for any goroutines, calls, keys, paths, stubs and permissions. The refinement needs
one fact that no read shows: an absent entry has no deadline. Without it a seed would
inherit the deadline of an entry that is gone. Expiry is the host's comparison of two
maps and the clock on one side, a property of one entry on the other, and `EntryLives`
says that they agree at every instant.

Assumptions, all named, next to the constants, and evaluated by TLC: keys are positive
ranks in a finite set and prefixes sets of them; a request is no harness and a test
goroutine no hook's; a reply frame is a sequence of wire fields; texts are sequences,
and `Absent`, `Never`, `None` and the other empty values are none of the values they
stand against; the arguments a call may carry past validation are keys and paths of
the constants.

Model-checked only:

* Liveness (`ScanEnds`, `EveryoneIsCounted`, `DispatchEnds`): the provers have no rules
  for fairness.
* `JsonText`: the readers and the grammar are mutually recursive operators, which the
  provers cannot unfold.
* That the policy tables as they ship pass their own checks (above).

## 6. Not modelled, and the plan

Left out: tool policy (word lists), the provider schema generator, generated
accessors, stateless field validators, the read-only accessors and fixtures of
the policy, the JSON conveniences of the helpers, the adaptive metadata keys,
examples and tooling. The Rust crate implements the same ABI without a test host.

The plan is carried out. What it leaves is `JsonText`, whose descents would have to be
stated as functions over spans of a text before anything about all texts can be proved.
