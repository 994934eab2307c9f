----------------------------- MODULE HostReply -----------------------------
(***************************************************************************)
(* The reply of a host call on its way into a plugin: the wire frame of a  *)
(* HostCallResult, the checks of dispatchHostCall (hostcall.go,            *)
(* pb/v1/decode.go, pb/v1/hostcall_validate.go) and what each family of    *)
(* helpers tells the plugin (hostcall.go, hostrefusal.go).                 *)
(* The typed helpers of platform.go, egress.go and original.go decode and  *)
(* validate the value as well.                                             *)
(*                                                                         *)
(* A frame is the sequence of its top-level fields, each with its number,  *)
(* its wire type and its code: of an error the error code, of a value what *)
(* its bytes are.                                                          *)
(***************************************************************************)
EXTENDS Naturals, Sequences, SequencesExt

Code == {"UNSPECIFIED", "PERMISSION_DENIED", "NOT_FOUND", "NOT_CONFIGURED", "UNAVAILABLE",
         "INVALID_ARGUMENT", "INTERNAL", "UNSUPPORTED", "NEWER"}
KnownErrorCodes == Code \ {"UNSPECIFIED", "NEWER"}

ValueField == 1
ErrorField == 2
Field(num, wire, code) == [num |-> num, wire |-> wire, code |-> code]
\* The bytes of a value: a message its validator accepts or does not, one with
\* fields the SDK does not know or that does not parse, or no bytes at all.
Payload == {"sound", "unsound", "foreign", "garbled", "empty"}
Value(payload) == Field(ValueField, "bytes", payload)
Error(code) == Field(ErrorField, "bytes", code)
\* Neither arm: another number or another wire type.
Stray == {f \in [num : Nat, wire : STRING, code : {"UNSPECIFIED"}] :
            f.num \notin {ValueField, ErrorField} \/ f.wire # "bytes"}
WireField == {Value(payload) : payload \in Payload} \cup {Error(code) : code \in Code} \cup Stray

-----------------------------------------------------------------------------
Occurrences(frame, num) == {i \in DOMAIN frame : frame[i].num = num /\ frame[i].wire = "bytes"}

\* rejectDuplicateHostCallResultArms, on the raw bytes
OneArm(frame) ==
  \A i, j \in Occurrences(frame, ValueField) \cup Occurrences(frame, ErrorField) : i = j

\* pbv1.ValidateWire of a HostCallResult: a closed message of one oneof
ValidateWire(frame) ==
  /\ \A i \in DOMAIN frame : frame[i].num \in {ValueField, ErrorField} /\ frame[i].wire = "bytes"
  /\ \A i, j \in DOMAIN frame : i = j

\* HostCallResult.Validate on what proto.Unmarshal leaves: the last arm
Usable(frame) ==
  /\ frame # <<>>
  /\ Last(frame).num = ErrorField => Last(frame).code \in KnownErrorCodes

Malformed == [kind |-> "error", code |-> "UNSPECIFIED"]
Refusal(code) == [kind |-> "refusal", code |-> code]
Success == [kind |-> "value", code |-> "UNSPECIFIED"]
Absent == [kind |-> "absent", code |-> "UNSPECIFIED"]
Told == [kind : {"none", "error", "refusal", "refused with result", "value", "absent"}, code : Code]

\* Slip: the duplicate checks are dropped, the last arm wins.
DecodeLastArm(frame) ==
  IF frame = <<>> \/ Last(frame).num \notin {ValueField, ErrorField} \/ ~Usable(frame) THEN Malformed
  ELSE IF Last(frame).num = ValueField THEN Success ELSE Refusal(Last(frame).code)

\* dispatchHostCall; a transport without a reply hands over an empty frame.
DispatchHostCall(frame) ==
  IF frame = <<>> \/ ~OneArm(frame) \/ ~ValidateWire(frame) \/ ~Usable(frame) THEN Malformed
  ELSE IF Last(frame).num = ValueField THEN Success ELSE Refusal(Last(frame).code)

-----------------------------------------------------------------------------
\* The helpers a plugin calls.  "checked": HostCall, HostCallExtension and
\* what discards the value or returns it as bytes (GetCredential, ReadFile);
\* "value": MetaGet and its kin, OriginalResponse; "list": ListFiles;
\* "request": OriginalRequest; "typed": HTTPRequest, ModelComplete, Suggest and
\* the resource getters; "egress": SendRequest; "must": mustHostCall.
Helper == {"checked", "value", "list", "request", "typed", "egress", "must"}

\* Absence is an answer for the readers of what may not be there.
AbsenceTold(helper) == helper \in {"value", "request"}

\* Whether the value's bytes become the helper's result.  No bytes parse as an
\* all-default message; where its validator is content with that, as
\* ModelPricing's is, they are sound.  SendRequest needs an envelope.
Decodes(helper, payload) ==
  CASE helper = "typed" -> payload = "sound"
    [] helper = "request" -> payload \notin {"garbled", "foreign"}
    [] helper = "list" -> payload # "garbled"
    [] helper = "egress" -> payload \in {"sound", "unsound", "foreign"}
    [] OTHER -> TRUE

\* GetPromptCachePolicy, GetResourceInfo and SendRequest refuse what the host
\* would, without a call.
ChecksItself(helper) == helper \in {"typed", "egress"}

\* A provider that was reached and refused is an error, whose result the
\* caller still gets.
ReachedButRefused == [kind |-> "refused with result", code |-> "UNSPECIFIED"]

Tell(helper, frame) ==
  LET got == DispatchHostCall(frame)
  IN CASE AbsenceTold(helper) /\ got = Refusal("NOT_FOUND") -> Absent
       [] got = Success /\ ~Decodes(helper, Last(frame).code) -> Malformed
       [] got = Success /\ helper = "egress" /\ Last(frame).code = "unsound" -> ReachedButRefused
       [] OTHER -> got

Panics(helper, frame) == helper = "must" /\ DispatchHostCall(frame) # Success

\* hostErrorReason: the token a caller may branch on.
Reason(code) ==
  IF code \in KnownErrorCodes \ {"UNSUPPORTED"} THEN code ELSE "unclassified"
=============================================================================
