----------------------------- MODULE GuestAbi -----------------------------
(***************************************************************************)
(* One instance of a Go plugin behind the WASM boundary (sdk.go,           *)
(* dispatch.go): the host loads it, allocates an input, calls run_hook,    *)
(* reads and frees the result; the handler makes host calls and emits      *)
(* diagnostics through buffers of its own.  The guest has one thread, but  *)
(* every host import hands control to the host, which calls alloc again.   *)
(* An address is reused as soon as nothing pins it.                        *)
(***************************************************************************)
EXTENDS HookTable, HookFrames, HostReply

CONSTANTS
  Addr,      \* addresses of buffers
  NullPtr,   \* 0, what alloc answers for no bytes
  Frame,     \* reply frames the host may send
  MaxCalls   \* bound: host calls and diagnostics of one hook

ASSUME AddrAssumption == NullPtr \notin Addr
ASSUME FrameAssumption == \A frame \in Frame : frame \in Seq(WireField)
ASSUME MaxCallsAssumption == MaxCalls \in Nat

VARIABLES
  phase,   \* "registering", "loaded", "refused" or "trapped"
  pinned,  \* the keys of the map pinned
  at,      \* where run_hook is
  in,      \* the input frame of this run
  bufs,    \* who holds which address: host and guest variables
  calls,   \* host calls made in this run
  sent,    \* the reply frame of the last host call
  told,    \* what its helper told the plugin
  via,     \* that helper
  meant,   \* history: what the handler decided
  ended    \* what run_hook last gave the host

guestVars == <<registered, handler, phase, pinned, at, in, bufs, calls, sent, told, via, meant, ended>>

Holder == {"input", "result", "cmd", "args", "reply"}
NoBuffer == [b \in Holder |-> NullPtr]
NoInput == [hook |-> 0, defect |-> "none"]
NoReply == [kind |-> "none", code |-> "UNSPECIFIED"]
Undecided == Result("undecided", "valid")
Failed == Result("failed", "valid")

GuestInit ==
  /\ TablesInit
  /\ phase = "registering"
  /\ pinned = {}
  /\ at = "idle"
  /\ in = NoInput
  /\ bufs = NoBuffer
  /\ calls = 0
  /\ sent = <<>> /\ told = NoReply /\ via = "checked"
  /\ meant = Undecided
  /\ ended = "nothing"

runVars == <<at, in, bufs, calls, sent, told, via, meant, ended>>

-----------------------------------------------------------------------------
(* Loading *)

\* A package's init registers; a panic there is a plugin that fails to load,
\* in a native test it is recovered.
On(h, f) ==
  /\ phase = "registering"
  /\ Register(h, f)
  /\ phase' \in IF ClaimPanics(h, f) THEN {"registering", "refused"} ELSE {"registering"}
  /\ UNCHANGED <<pinned, runVars>>

Reset == phase = "registering" /\ ResetRegistrations /\ UNCHANGED <<phase, pinned, runVars>>

Load(declared) ==
  /\ phase = "registering"
  /\ phase' = IF ValidateManifestHooks(RegisteredHookBitmap, declared) THEN "loaded" ELSE "refused"
  /\ UNCHANGED <<tables, pinned, runVars>>

\* A host replaces an instance that did not load or trapped: its memory goes
\* with it, and the package registers anew.
Reinstantiate ==
  /\ phase \in {"refused", "trapped"}
  /\ phase' = "registering" /\ pinned' = {}
  /\ ResetRegistrations
  /\ at' = "idle" /\ in' = NoInput /\ bufs' = NoBuffer /\ calls' = 0
  /\ sent' = <<>> /\ told' = NoReply /\ via' = "checked" /\ meant' = Undecided /\ ended' = "nothing"

-----------------------------------------------------------------------------
(* Memory *)

Idle(where) == phase = "loaded" /\ at = where

\* alloc pins a fresh address; dealloc of the null pointer unpins nothing.
Fresh(a) == a \in Addr \ pinned

\* Slip: the reply is left pinned.
UnpinCallLeavingReply == pinned \ {bufs["cmd"], bufs["args"]}

\* What is unpinned when a host call returns: the reply once it is copied,
\* and by the deferred calls the arguments and the command.
UnpinCall == pinned \ {bufs["cmd"], bufs["args"], bufs["reply"]}

AllocInput ==
  /\ Idle("idle")
  /\ ended = "nothing" /\ bufs["input"] = NullPtr
  /\ \E a \in Addr : /\ Fresh(a)
                     /\ pinned' = pinned \cup {a}
                     /\ bufs' = [bufs EXCEPT !["input"] = a]
  /\ UNCHANGED <<tables, phase, at, in, calls, sent, told, via, meant, ended>>

\* The host frees what it holds after the run, in either order; with both
\* gone the next run may begin.
HostFrees(b) ==
  /\ Idle("idle")
  /\ b \in {"input", "result"} /\ ended # "nothing" /\ bufs[b] # NullPtr
  /\ pinned' = pinned \ {bufs[b]}
  /\ bufs' = [bufs EXCEPT ![b] = NullPtr]
  /\ UNCHANGED <<tables, phase, at, in, calls, sent, told, via, meant, ended>>

NextRun ==
  /\ Idle("idle")
  /\ ended # "nothing" /\ bufs = NoBuffer
  /\ in' = NoInput /\ calls' = 0 /\ sent' = <<>> /\ told' = NoReply /\ via' = "checked" /\ meant' = Undecided
  /\ ended' = "nothing"
  /\ UNCHANGED <<tables, phase, pinned, at, bufs>>

Trap ==
  /\ phase' = "trapped" /\ at' = "idle" /\ ended' = "trap"
  /\ UNCHANGED <<tables, pinned, in, bufs, calls, sent, told, via>>

-----------------------------------------------------------------------------
(* run_hook *)

\* Decoding and validation trap; a hook without a handler answers 0.
RunHook(frame) ==
  /\ Idle("idle") /\ ended = "nothing" /\ bufs["input"] # NullPtr
  /\ \/ ~UsableInput(frame) /\ Trap /\ meant' = Undecided
     \/ /\ UsableInput(frame)
        /\ in' = frame
        /\ \/ /\ handler[frame.hook] = NilHandler
              /\ ended' = "pass" /\ UNCHANGED at
           \/ /\ handler[frame.hook] # NilHandler
              /\ at' = "handling" /\ UNCHANGED ended
        /\ UNCHANGED <<tables, phase, pinned, bufs, calls, sent, told, via, meant>>

\* hostCallRawImpl up to the import: command and, unless empty, arguments.
HostCall(withArgs) ==
  /\ Idle("handling") /\ calls < MaxCalls
  /\ \E c, g \in Addr :
       /\ Fresh(c) /\ Fresh(g) /\ c # g
       /\ pinned' = pinned \cup {c} \cup (IF withArgs THEN {g} ELSE {})
       /\ bufs' = [bufs EXCEPT !["cmd"] = c, !["args"] = IF withArgs THEN g ELSE NullPtr]
  /\ at' = "in_call"
  /\ sent' = <<>> /\ told' = NoReply /\ via' = "checked"
  /\ UNCHANGED <<tables, phase, in, calls, meant, ended>>

\* The host answers through the guest's alloc, or with 0 for no reply.
HostAnswers(frame) ==
  /\ Idle("in_call")
  /\ \/ frame = <<>> /\ UNCHANGED <<pinned, bufs>>
     \/ /\ frame # <<>>
        /\ \E a \in Addr : /\ Fresh(a)
                           /\ pinned' = pinned \cup {a}
                           /\ bufs' = [bufs EXCEPT !["reply"] = a]
  /\ at' = "answered"
  /\ sent' = frame
  /\ UNCHANGED <<tables, phase, in, calls, told, via, meant, ended>>

\* Back in the guest: copy the reply, unpin it, run the deferred calls, then
\* classify; mustHostCall panics on everything but success.
CallReturns(helper) ==
  /\ Idle("answered")
  /\ pinned' = UnpinCall
  /\ bufs' = [bufs EXCEPT !["cmd"] = NullPtr, !["args"] = NullPtr, !["reply"] = NullPtr]
  /\ calls' = calls + 1
  /\ told' = Tell(helper, sent) /\ via' = helper
  /\ \/ /\ Panics(helper, sent)
        /\ phase' = "trapped" /\ at' = "idle" /\ ended' = "trap" /\ meant' = Failed
     \/ /\ ~Panics(helper, sent)
        /\ at' = "handling"
        /\ UNCHANGED <<phase, meant, ended>>
  /\ UNCHANGED <<tables, in, sent>>

\* A helper that refuses its arguments itself: no call is made.
RefuseLocally(helper) ==
  /\ Idle("handling") /\ ChecksItself(helper)
  /\ sent' = <<>> /\ told' = Malformed /\ via' = helper
  /\ UNCHANGED <<tables, phase, pinned, at, in, bufs, calls, meant, ended>>

\* Log and EmitMetric: a name or message, labels or none, no reply.
Emit(withLabels) ==
  /\ Idle("handling") /\ calls < MaxCalls
  /\ \E c, g \in Addr :
       /\ Fresh(c) /\ Fresh(g) /\ c # g
       /\ pinned' = pinned \cup {c} \cup (IF withLabels THEN {g} ELSE {})
       /\ bufs' = [bufs EXCEPT !["cmd"] = c, !["args"] = IF withLabels THEN g ELSE NullPtr]
  /\ at' = "emitting"
  /\ UNCHANGED <<tables, phase, in, calls, sent, told, via, meant, ended>>

EmitReturns ==
  /\ Idle("emitting")
  /\ pinned' = pinned \ {bufs["cmd"], bufs["args"]}
  /\ bufs' = [bufs EXCEPT !["cmd"] = NullPtr, !["args"] = NullPtr]
  /\ at' = "handling" /\ calls' = calls + 1
  /\ UNCHANGED <<tables, phase, in, sent, told, via, meant, ended>>

\* The handler returns a result; WriteResult pins the frame for the host.
HandlerReturns(result) ==
  /\ Idle("handling")
  /\ \/ Outcome(result, in.hook) = "trap" /\ Trap
     \/ /\ Outcome(result, in.hook) = "pass"
        /\ at' = "idle" /\ ended' = "pass"
        /\ UNCHANGED <<tables, phase, pinned, in, bufs, calls, sent, told, via>>
     \/ /\ Outcome(result, in.hook) = "frame"
        /\ \E a \in Addr : /\ Fresh(a)
                           /\ pinned' = pinned \cup {a}
                           /\ bufs' = [bufs EXCEPT !["result"] = a]
        /\ at' = "idle" /\ ended' = "frame"
        /\ UNCHANGED <<tables, phase, in, calls, sent, told, via>>
  /\ meant' = result

\* The handler returns an error.
HandlerFails == Idle("handling") /\ Trap /\ meant' = Failed

-----------------------------------------------------------------------------
GuestNext ==
  \/ \E h \in Hook, f \in Handler \cup {NilHandler} : On(h, f)
  \/ Reset
  \/ \E declared \in Manifest : Load(declared)
  \/ Reinstantiate
  \/ AllocInput
  \/ \E b \in {"input", "result"} : HostFrees(b)
  \/ NextRun
  \/ \E frame \in HookInput(Hook) : RunHook(frame)
  \/ \E withArgs \in BOOLEAN : HostCall(withArgs) \/ Emit(withArgs)
  \/ \E frame \in Frame : HostAnswers(frame)
  \/ \E helper \in Helper : CallReturns(helper)
  \/ \E helper \in Helper : RefuseLocally(helper)
  \/ EmitReturns
  \/ \E result \in Constructed(in.hook) : HandlerReturns(result)
  \/ HandlerFails

GuestSpec == GuestInit /\ [][GuestNext]_guestVars

-----------------------------------------------------------------------------
(* Properties *)

\* A claim without a handler would block the registration that repairs it, a
\* handler without a claim could be replaced unnoticed, and a reset that
\* forgot one of the two tables would do either (registration.go); a module
\* the host has loaded handles exactly what its manifest declares, so
\* CheckManifest passes for every manifest the host accepts.
ClaimsAreHandlers ==
  /\ registered = Installed
  /\ \A declared \in Manifest :
       ValidateManifestHooks(RegisteredHookBitmap, declared) => CheckManifest(declared)

\* The guest pins exactly what somebody still reads: nothing leaks from a
\* host call, a diagnostic or a run, nothing is unpinned while the host or the
\* guest holds it, and no two holders share an address (sdk.go).
BuffersAccounted ==
  /\ pinned = {bufs[b] : b \in Holder} \ {NullPtr}
  /\ \A b, c \in Holder : bufs[b] = bufs[c] /\ bufs[b] # NullPtr => b = c

\* "A constructor given nil records an error rather than reinterpreting it"
\* (results.go): the host sees a pass-through only when the handler passed or
\* there is none, and a frame only when the handler meant that frame and its
\* validator accepts it; a failed handler always ends in a trap.
FailuresNeverPass ==
  /\ ended = "pass" => meant \in {Pass, Undecided}
  /\ meant = Undecided /\ ended = "pass" => handler[in.hook] = NilHandler
  /\ ended = "frame" => ValidFor(meant, in.hook)
  /\ ConstructorFails(meant) \/ meant = Failed => phase = "trapped"

\* Absence is told only when the host said NOT_FOUND and nothing else, a result
\* only when it sent one value that this helper's decoder and validator accept,
\* and a refusal keeps its code: no duplicated, conflicting or foreign arm turns
\* into an answer (hostcall.go: a refusal followed by success must not look
\* successful), and none of the seven families of helpers mistakes one for
\* another (platform.go, egress.go, original.go).
AnswersAreSaid ==
  /\ told.kind = "value" => \E p \in Payload : sent = <<Value(p)>> /\ (via = "typed" => p = "sound")
  /\ told.kind = "refused with result" => sent = <<Value("unsound")>> /\ via = "egress"
  /\ told.kind = "absent" => sent = <<Error("NOT_FOUND")>> /\ via \notin {"checked", "typed", "egress", "must"}
  /\ told.kind = "refusal" => sent = <<Error(told.code)>> /\ Reason(told.code) \in {told.code, "unclassified"}
  /\ told.kind = "error" => sent \notin {<<Value("sound")>>} \cup {<<Error(code)>> : code \in KnownErrorCodes}
=============================================================================
