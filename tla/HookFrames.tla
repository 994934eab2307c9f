---------------------------- MODULE HookFrames ----------------------------
(***************************************************************************)
(* The two frames of run_hook: the input a host hands over and the result  *)
(* a handler constructs (results.go, pb/v1/validate.go, pb/v1/decode.go).  *)
(* Contents are told apart only by what the validators make of them.       *)
(***************************************************************************)
EXTENDS Naturals

HookNumber == [UNSPECIFIED |-> 0, BEFORE_REQUEST |-> 1, AFTER_RESPONSE |-> 2, ON_STREAM_CHUNK |-> 3,
               ON_HTTP_REQUEST |-> 4, ON_TICK |-> 5]

-----------------------------------------------------------------------------
(* Inputs *)

\* What can be wrong with an input: a wire frame DecodeHookInput refuses, a
\* foreign revision, no payload at all, a payload of nil, an after_response
\* without a response, content its own validator refuses.
Defect == {"none", "wire", "revision", "no_payload", "nil_payload", "nil_response", "content"}
HookInput(hooks) == [hook : hooks, defect : Defect]

\* Requests for HTTP and ticks have no validator of their own.
ContentChecked(hook) == hook \in {HookNumber.BEFORE_REQUEST, HookNumber.AFTER_RESPONSE,
                                  HookNumber.ON_STREAM_CHUNK}

\* HookInput.Validate, behind DecodeHookInput.
UsableInput(in) ==
  /\ in.defect \notin {"wire", "revision", "no_payload", "nil_payload"}
  /\ ~(in.defect = "nil_response" /\ in.hook = HookNumber.AFTER_RESPONSE)
  /\ ~(in.defect = "content" /\ ContentChecked(in.hook))

-----------------------------------------------------------------------------
(* Results *)

Action == {"replace_request", "replace_response", "suppress", "emit_events", "serve_http",
           "tick_outcome"}

\* HookResult.HookOf; a result without an action belongs to no hook.
HookOf(action) ==
  CASE action = "replace_request" -> HookNumber.BEFORE_REQUEST
    [] action = "replace_response" -> HookNumber.AFTER_RESPONSE
    [] action \in {"suppress", "emit_events"} -> HookNumber.ON_STREAM_CHUNK
    [] action = "serve_http" -> HookNumber.ON_HTTP_REQUEST
    [] action = "tick_outcome" -> HookNumber.ON_TICK
    [] OTHER -> HookNumber.UNSPECIFIED

\* What a constructor is given: nothing ("nil", or no events), a nil among
\* the events, content the host's validator refuses, or good content.
Argument == {"nil", "nil_event", "invalid", "valid"}

\* What each constructor can be given: SuppressEvent takes nothing, TickDid a
\* count, EmitEvents any number of events.
Taken(action) ==
  CASE action = "suppress" -> {"valid"}
    [] action = "tick_outcome" -> {"invalid", "valid"}
    [] action = "emit_events" -> Argument
    [] OTHER -> Argument \ {"nil_event"}

\* The results a handler of the hook can construct; Pass stands for
\* PassRequest, PassResponse, PassEvent, PassHTTP and TickIdle.
Result(action, content) == [action |-> action, content |-> content]
Pass == Result("pass", "valid")
Constructed(hook) ==
  {Pass} \cup UNION { {Result(a, c) : c \in Taken(a)} : a \in {x \in Action : HookOf(x) = hook} }

\* ReplaceRequest(nil), EmitEvents() and the like record an error.
ConstructorFails(result) == result.content \in {"nil", "nil_event"}

\* HookResult.ValidateFor for a frame with an action.
ValidFor(result, hook) == HookOf(result.action) = hook /\ result.content = "valid"

\* Slip: a constructor's error is dropped and the frame it left is nil.
OutcomeIgnoringErrors(result, hook) ==
  CASE result = Pass \/ ConstructorFails(result) -> "pass"
    [] ValidFor(result, hook) -> "frame"
    [] OTHER -> "trap"

\* What DispatchHook makes of the result of a handler: nothing to say, a frame
\* or an error, which run_hook turns into a trap.
Outcome(result, hook) ==
  CASE ConstructorFails(result) -> "trap"
    [] result = Pass -> "pass"
    [] ValidFor(result, hook) -> "frame"
    [] OTHER -> "trap"
=============================================================================
