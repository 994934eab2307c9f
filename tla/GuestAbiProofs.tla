--------------------------- MODULE GuestAbiProofs ---------------------------
(***************************************************************************)
(* Proofs about one plugin instance, for any hooks, handlers, manifests,   *)
(* addresses and reply frames: claims are handlers, every pinned buffer    *)
(* has one holder, no failure passes and no answer is made up.             *)
(***************************************************************************)
EXTENDS GuestAbi, SequenceTheorems, TLAPS

-----------------------------------------------------------------------------
(* The inductive invariant *)

TypeInv ==
  /\ registered \in SUBSET Hook
  /\ handler \in [Hook -> Handler \cup {NilHandler}]
  /\ phase \in {"registering", "loaded", "refused", "trapped"}
  /\ at \in {"idle", "handling", "in_call", "answered", "emitting"}
  /\ in \in HookInput(Hook) \cup {NoInput}
  /\ bufs \in [Holder -> Addr \cup {NullPtr}]
  /\ sent \in Seq(WireField)
  /\ told \in Told
  /\ via \in Helper
  /\ ended \in {"nothing", "pass", "frame", "trap"}

\* The pinned addresses are those somebody holds, each held once.
Accounted(addresses, held) ==
  /\ addresses = {held[b] : b \in Holder} \ {NullPtr}
  /\ \A b, c \in Holder : held[b] = held[c] /\ held[b] # NullPtr => b = c

\* Who may hold a buffer where: a call's are gone outside of it, the result
\* comes last.
HolderInv ==
  /\ Accounted(pinned, bufs)
  /\ at \in {"idle", "handling"} => bufs["cmd"] = NullPtr /\ bufs["args"] = NullPtr
  /\ at # "answered" => bufs["reply"] = NullPtr
  /\ ended # "frame" => bufs["result"] = NullPtr
  /\ phase \in {"registering", "refused"} => bufs = NoBuffer

\* A run goes on in a loaded instance, and until it ended the handler has not
\* decided.
RunInv ==
  /\ at # "idle" => phase = "loaded" /\ ended = "nothing" /\ in \in HookInput(Hook)
  /\ phase \in {"registering", "refused"} => ended = "nothing"
  /\ ended = "nothing" => meant = Undecided
  /\ FailuresNeverPass

\* What was told belongs to the frame sent, and nothing is told of a call that
\* has not returned.
AnswerInv ==
  /\ at \in {"in_call", "answered"} => told = NoReply
  /\ AnswersAreSaid

GuestInv == TypeInv /\ registered = Installed /\ HolderInv /\ RunInv /\ AnswerInv


-----------------------------------------------------------------------------
(* Hooks and manifests *)

\* A bitmap over hooks is the set of them that have a number.
LEMMA BitsOf ==
  ASSUME NEW hooks \in SUBSET Nat
  PROVE  BitmapOf(hooks) = hooks \cap AssignedHooks
<1>1. \A n \in Nat : Bit(n) = IF n \in AssignedHooks THEN {n} ELSE {}
  BY DEF Bit, MaxHookBit, AssignedHooks
<1>2. ASSUME NEW x PROVE x \in BitmapOf(hooks) <=> x \in hooks \cap AssignedHooks
  <2>1. x \in BitmapOf(hooks) <=> \E n \in hooks : x \in Bit(n)
    BY DEF BitmapOf
  <2> QED
    BY <1>1, <2>1
<1> QED
  BY <1>2

\* The host loads a module only when what it handles is what it declared.
LEMMA LoadedIsDeclared ==
  ASSUME NEW declared \in Manifest, ValidateManifestHooks(RegisteredHookBitmap, declared)
  PROVE  CheckManifest(declared)
<1>1. Installed \subseteq AssignedHooks /\ AssignedHooks \subseteq Nat
  <2>1. Installed \subseteq AssignedHooks
    BY HookAssumption DEF Installed
  <2>2. AssignedHooks \subseteq Nat
    BY DEF AssignedHooks
  <2> QED
    BY <2>1, <2>2
<1>2. RegisteredHookBitmap = Installed
  BY <1>1, BitsOf DEF RegisteredHookBitmap
<1>3. declared \in Seq(Nat) /\ \A i \in DOMAIN declared : declared[i] \in Nat
  BY ManifestAssumption
<1>4. ToSet(declared) \in SUBSET Nat
  BY <1>3 DEF ToSet
<1>5. ToSet(declared) \subseteq AssignedHooks
  <2>1. \A i \in DOMAIN declared : declared[i] \in AssignedHooks
    BY DEF ValidateManifestHooks, Declarable, Bit
  <2> QED
    BY <2>1 DEF ToSet
<1>6. ExpectedBitmap(declared) = ToSet(declared)
  BY <1>4, <1>5, BitsOf DEF ExpectedBitmap
<1> QED
  BY <1>2, <1>6 DEF ValidateManifestHooks, CheckManifest

\* What a claim, a panic and a reset leave of the two tables.
LEMMA TablesStay ==
  ASSUME registered \in SUBSET Hook, handler \in [Hook -> Handler \cup {NilHandler}], registered = Installed,
         \/ UNCHANGED tables
         \/ ResetRegistrations
         \/ \E h \in Hook, f \in Handler \cup {NilHandler} : Register(h, f)
  PROVE  /\ registered' \in SUBSET Hook /\ handler' \in [Hook -> Handler \cup {NilHandler}]
         /\ registered' = Installed'
<1>1. CASE UNCHANGED tables
  BY <1>1 DEF tables, Installed
<1>2. CASE ResetRegistrations
  BY <1>2 DEF ResetRegistrations, Installed
<1>3. ASSUME NEW h \in Hook, NEW f \in Handler \cup {NilHandler}, Register(h, f), ~UNCHANGED tables
      PROVE  /\ registered' \in SUBSET Hook /\ handler' \in [Hook -> Handler \cup {NilHandler}]
             /\ registered' = Installed'
  <2>1. /\ registered' = registered \cup {h} /\ handler' = [handler EXCEPT ![h] = f] /\ f # NilHandler
    BY <1>3 DEF Register, ClaimPanics
  <2>2. handler'[h] = f /\ \A g \in Hook \ {h} : handler'[g] = handler[g]
    BY <2>1
  <2> QED
    BY <2>1, <2>2 DEF Installed
<1> QED
  BY <1>1, <1>2, <1>3

-----------------------------------------------------------------------------
(* Buffers *)

\* What the holders can hold.
Held == [Holder -> Addr \cup {NullPtr}]

\* A fresh address for a holder that has none.
LEMMA TakeKeeps ==
  ASSUME NEW addresses, NEW held \in Held, Accounted(addresses, held),
         NEW b \in Holder, held[b] = NullPtr, NEW a \in Addr, a \notin addresses
  PROVE  [held EXCEPT ![b] = a] \in Held /\ Accounted(addresses \cup {a}, [held EXCEPT ![b] = a])
<1> DEFINE after == [held EXCEPT ![b] = a]
<1>1. after \in Held /\ after[b] = a /\ a # NullPtr /\ \A c \in Holder \ {b} : after[c] = held[c]
  BY AddrAssumption DEF Held
<1>2. \A c \in Holder : held[c] # a
  BY <1>1 DEF Accounted
<1> HIDE DEF after
<1>3. addresses \cup {a} = {after[c] : c \in Holder} \ {NullPtr}
  BY <1>1 DEF Accounted
<1>4. \A c, d \in Holder : after[c] = after[d] /\ after[c] # NullPtr => c = d
  BY <1>1, <1>2 DEF Accounted
<1>5. after \in Held /\ Accounted(addresses \cup {a}, after)
  BY <1>1, <1>3, <1>4 DEF Accounted
<1> QED
  BY <1>5 DEF after

\* A holder gives up what it has, if anything.
LEMMA DropKeeps ==
  ASSUME NEW addresses, NEW held \in Held, Accounted(addresses, held), NEW b \in Holder
  PROVE  /\ [held EXCEPT ![b] = NullPtr] \in Held
         /\ Accounted(addresses \ {held[b]}, [held EXCEPT ![b] = NullPtr])
<1> DEFINE after == [held EXCEPT ![b] = NullPtr]
<1>1. after \in Held /\ after[b] = NullPtr /\ \A c \in Holder \ {b} : after[c] = held[c]
  BY DEF Held
<1> HIDE DEF after
<1>2. \A c, d \in Holder : after[c] = after[d] /\ after[c] # NullPtr => c = d
  BY <1>1 DEF Accounted
<1>3. addresses \ {held[b]} = {after[c] : c \in Holder} \ {NullPtr}
  BY <1>1 DEF Accounted
<1>4. after \in Held /\ Accounted(addresses \ {held[b]}, after)
  BY <1>1, <1>2, <1>3 DEF Accounted
<1> QED
  BY <1>4 DEF after

-----------------------------------------------------------------------------
(* Replies *)

\* A frame the decoder accepts is one field: a value, or a known error.
LEMMA OneFieldFrame ==
  ASSUME NEW frame \in Seq(WireField), frame # <<>>, OneArm(frame), ValidateWire(frame), Usable(frame)
  PROVE  \/ \E p \in Payload : frame = <<Value(p)>> /\ Last(frame) = Value(p)
         \/ \E code \in KnownErrorCodes : frame = <<Error(code)>> /\ Last(frame) = Error(code)
<1>1. Len(frame) \in Nat /\ Len(frame) # 0 /\ DOMAIN frame = 1 .. Len(frame)
  BY EmptySeq, LenProperties
<1>2. Len(frame) = 1
  <2>1. 1 \in DOMAIN frame /\ Len(frame) \in DOMAIN frame
    BY <1>1
  <2> QED
    BY <2>1 DEF ValidateWire
<1>3. PICK f \in WireField : f = frame[1]
  BY <1>1, <1>2, ElementOfSeq
<1>4. frame = <<f>>
  BY <1>1, <1>2, <1>3
<1>5. Last(frame) = f
  BY <1>2, <1>3 DEF Last
<1>6. f.num \in {ValueField, ErrorField} /\ f.wire = "bytes"
  BY <1>1, <1>2, <1>3 DEF ValidateWire
<1>7. f \notin Stray
  BY <1>6 DEF Stray
<1>8. CASE f \in {Value(p) : p \in Payload}
  BY <1>4, <1>5, <1>8
<1>9. CASE f \in {Error(code) : code \in Code}
  <2>1. PICK code \in Code : f = Error(code)
    BY <1>9
  <2>2. f.num = ErrorField /\ f.code = code
    BY <2>1 DEF Error, Field
  <2>3. code \in KnownErrorCodes
    BY <1>5, <2>2 DEF Usable
  <2> QED
    BY <1>4, <1>5, <2>1, <2>3
<1> QED
  BY <1>3, <1>7, <1>8, <1>9 DEF WireField


\* What the decoder makes of a frame, in both directions.
LEMMA DecodedFrame ==
  ASSUME NEW frame \in Seq(WireField)
  PROVE  \/ /\ DispatchHostCall(frame) = Malformed
            /\ \A f \in {Value("sound")} \cup {Error(code) : code \in KnownErrorCodes} : frame # <<f>>
         \/ \E p \in Payload : /\ DispatchHostCall(frame) = Success
                               /\ frame = <<Value(p)>> /\ Last(frame) = Value(p)
         \/ \E code \in KnownErrorCodes : /\ DispatchHostCall(frame) = Refusal(code)
                                          /\ frame = <<Error(code)>>
<1>1. CASE frame = <<>> \/ ~OneArm(frame) \/ ~ValidateWire(frame) \/ ~Usable(frame)
  <2>1. DispatchHostCall(frame) = Malformed
    BY <1>1 DEF DispatchHostCall
  <2>2. ASSUME NEW f \in {Value("sound")} \cup {Error(code) : code \in KnownErrorCodes}, frame = <<f>>
        PROVE  FALSE
    <3>1. frame # <<>> /\ DOMAIN frame = {1} /\ frame[1] = f /\ Last(frame) = f
      BY <2>2 DEF Last
    <3>2. f.wire = "bytes" /\ f.num \in {ValueField, ErrorField} /\ (f.num = ErrorField => f.code \in KnownErrorCodes)
      BY DEF Value, Error, Field, ValueField, ErrorField
    <3>3. OneArm(frame)
      BY <3>1 DEF OneArm, Occurrences
    <3>4. ValidateWire(frame) /\ Usable(frame)
      BY <3>1, <3>2 DEF ValidateWire, Usable
    <3> QED
      BY <1>1, <3>1, <3>3, <3>4
  <2> QED
    BY <2>1, <2>2
<1>2. CASE ~(frame = <<>> \/ ~OneArm(frame) \/ ~ValidateWire(frame) \/ ~Usable(frame))
  <2>1. CASE \E p \in Payload : frame = <<Value(p)>> /\ Last(frame) = Value(p)
    <3>1. PICK p \in Payload : frame = <<Value(p)>> /\ Last(frame) = Value(p)
      BY <2>1
    <3>2. Last(frame).num = ValueField
      BY <3>1 DEF Value, Field
    <3>3. DispatchHostCall(frame) = Success
      BY <1>2, <3>2 DEF DispatchHostCall
    <3> QED
      BY <3>1, <3>3
  <2>2. CASE \E code \in KnownErrorCodes : frame = <<Error(code)>> /\ Last(frame) = Error(code)
    <3>1. PICK code \in KnownErrorCodes : frame = <<Error(code)>> /\ Last(frame) = Error(code)
      BY <2>2
    <3>2. Last(frame).num # ValueField /\ Last(frame).code = code
      BY <3>1 DEF Error, Field, ValueField, ErrorField
    <3>3. DispatchHostCall(frame) = Refusal(code)
      BY <1>2, <3>2 DEF DispatchHostCall
    <3> QED
      BY <3>1, <3>3
  <2> QED
    BY <1>2, <2>1, <2>2, OneFieldFrame
<1> QED
  BY <1>1, <1>2

\* The property of AnswersAreSaid, of any answer, frame and helper.
Said(t, frame, helper) ==
  /\ t.kind = "value" => \E p \in Payload : frame = <<Value(p)>> /\ (helper = "typed" => p = "sound")
  /\ t.kind = "refused with result" => frame = <<Value("unsound")>> /\ helper = "egress"
  /\ t.kind = "absent" => frame = <<Error("NOT_FOUND")>> /\ helper \notin {"checked", "typed", "egress", "must"}
  /\ t.kind = "refusal" => frame = <<Error(t.code)>> /\ Reason(t.code) \in {t.code, "unclassified"}
  /\ t.kind = "error" => frame \notin {<<Value("sound")>>} \cup {<<Error(code)>> : code \in KnownErrorCodes}

\* Each family of helpers tells what the frame says.
LEMMA TellsWhatIsSaid ==
  ASSUME NEW helper \in Helper, NEW frame \in Seq(WireField)
  PROVE  Tell(helper, frame) \in Told /\ Said(Tell(helper, frame), frame, helper)
<1> DEFINE got == DispatchHostCall(frame)
           t == Tell(helper, frame)
<1>1. CASE /\ got = Malformed
           /\ \A f \in {Value("sound")} \cup {Error(code) : code \in KnownErrorCodes} : frame # <<f>>
  <2>1. got # Refusal("NOT_FOUND") /\ got # Success
    BY <1>1 DEF Malformed, Refusal, Success
  <2>2. t = Malformed
    BY <1>1, <2>1 DEF Tell
  <2>3. t.kind = "error" /\ t \in Told
    BY <2>2 DEF Malformed, Told, Code
  <2> QED
    BY <1>1, <2>3 DEF Said
<1>2. CASE \E p \in Payload : got = Success /\ frame = <<Value(p)>> /\ Last(frame) = Value(p)
  <2>1. PICK p \in Payload : got = Success /\ frame = <<Value(p)>> /\ Last(frame) = Value(p)
    BY <1>2
  <2>2. got # Refusal("NOT_FOUND") /\ Last(frame).code = p
    BY <2>1 DEF Refusal, Success, Value, Field
  <2>3. CASE ~Decodes(helper, p)
    <3>1. t = Malformed
      BY <2>1, <2>2, <2>3 DEF Tell, Decodes
    <3>2. t.kind = "error" /\ t \in Told
      BY <3>1 DEF Malformed, Told, Code
    <3>3. p # "sound"
      BY <2>3 DEF Decodes
    <3>4. frame[1].code = p /\ frame[1].num = ValueField
      BY <2>1 DEF Value, Field
    <3>5. frame # <<Value("sound")>> /\ \A code \in KnownErrorCodes : frame # <<Error(code)>>
      BY <3>3, <3>4 DEF Value, Error, Field, ValueField, ErrorField
    <3> QED
      BY <3>2, <3>5 DEF Said
  <2>4. CASE Decodes(helper, p) /\ helper = "egress" /\ p = "unsound"
    <3>1. t = ReachedButRefused
      BY <2>1, <2>2, <2>4 DEF Tell
    <3>2. t.kind = "refused with result" /\ t \in Told
      <4>1. ReachedButRefused.kind = "refused with result"
        BY DEF ReachedButRefused
      <4>2. ReachedButRefused \in Told
        BY DEF ReachedButRefused, Told, Code
      <4> QED
        BY <3>1, <4>1, <4>2
    <3> QED
      BY <2>1, <2>4, <3>2 DEF Said
  <2>5. CASE Decodes(helper, p) /\ ~(helper = "egress" /\ p = "unsound")
    <3>1. t = Success
      BY <2>1, <2>2, <2>5 DEF Tell
    <3>2. t.kind = "value" /\ t \in Told
      BY <3>1 DEF Success, Told, Code
    <3>3. helper = "typed" => p = "sound"
      BY <2>5 DEF Decodes
    <3> QED
      BY <2>1, <3>2, <3>3 DEF Said
  <2> QED
    BY <2>3, <2>4, <2>5
<1>3. CASE \E code \in KnownErrorCodes : got = Refusal(code) /\ frame = <<Error(code)>>
  <2>1. PICK code \in KnownErrorCodes : got = Refusal(code) /\ frame = <<Error(code)>>
    BY <1>3
  <2>2. got # Success /\ got.code = code /\ got.kind = "refusal"
    BY <2>1 DEF Refusal, Success
  <2>3. CASE AbsenceTold(helper) /\ got = Refusal("NOT_FOUND")
    <3>1. code = "NOT_FOUND"
      BY <2>2, <2>3 DEF Refusal
    <3>2. t = Absent
      BY <2>2, <2>3 DEF Tell
    <3>3. t.kind = "absent" /\ t \in Told
      BY <3>2 DEF Absent, Told, Code
    <3> QED
      BY <2>1, <2>3, <3>1, <3>3 DEF Said, AbsenceTold
  <2>4. CASE ~(AbsenceTold(helper) /\ got = Refusal("NOT_FOUND"))
    <3>1. t = got
      BY <2>2, <2>4 DEF Tell
    <3>2. t.kind = "refusal" /\ t.code = code
      BY <2>2, <3>1
    <3>3. t \in Told
      <4>1. code \in Code /\ Refusal(code) \in Told
        BY DEF Refusal, Told, KnownErrorCodes
      <4> QED
        BY <2>1, <3>1, <4>1
    <3>4. Reason(code) \in {code, "unclassified"}
      BY DEF Reason
    <3> QED
      BY <2>1, <3>2, <3>3, <3>4 DEF Said
  <2> QED
    BY <2>3, <2>4
<1> QED
  BY <1>1, <1>2, <1>3, DecodedFrame


-----------------------------------------------------------------------------
(* What the actions share *)

\* An answer that stays what it was.
LEMMA AnswerStays ==
  ASSUME AnswerInv, UNCHANGED <<sent, told, via>>, at' \in {"in_call", "answered"} => told = NoReply
  PROVE  AnswerInv'
BY DEF AnswerInv, AnswersAreSaid

\* Nothing told is nothing wrongly said.
LEMMA NothingTold ==
  ASSUME told' = NoReply
  PROVE  AnswerInv'
<1>1. told'.kind = "none"
  BY DEF NoReply
<1> QED
  BY <1>1 DEF AnswerInv, AnswersAreSaid

\* The verdicts of a handler are told apart, and only a constructor's failure
\* looks like one.
LEMMA Verdicts ==
  /\ Undecided # Failed /\ Undecided # Pass /\ Pass # Failed
  /\ ~ConstructorFails(Undecided) /\ ~ConstructorFails(Pass)
<1>1. \A a, b : Result(a, b).action = a /\ Result(a, b).content = b
  BY DEF Result
<1>2. Undecided.action = "undecided" /\ Failed.action = "failed" /\ Pass.action = "pass"
  BY <1>1 DEF Undecided, Failed, Pass
<1>3. Undecided.content = "valid" /\ Pass.content = "valid"
  BY <1>1 DEF Undecided, Pass
<1> QED
  BY <1>2, <1>3 DEF ConstructorFails

\* A run that has not ended has decided nothing.
LEMMA NotEndedYet ==
  ASSUME ended' = "nothing", meant' = Undecided
  PROVE  FailuresNeverPass'
BY Verdicts DEF FailuresNeverPass

\* A trap is the end that every failure has.
LEMMA TrapIsTold ==
  ASSUME ended' = "trap", phase' = "trapped"
  PROVE  FailuresNeverPass'
BY DEF FailuresNeverPass

\* What dispatch makes of a result: a pass of Pass only, a frame of what the
\* host would accept.
LEMMA OutcomeIsMeant ==
  ASSUME NEW hook \in Hook, NEW result
  PROVE  /\ Outcome(result, hook) = "pass" => result = Pass
         /\ Outcome(result, hook) = "frame" =>
              ValidFor(result, hook) /\ ~ConstructorFails(result) /\ result # Failed /\ result # Undecided
<1>1. hook # 0
  BY HookAssumption DEF AssignedHooks
<1>2. HookOf("pass") = 0 /\ HookOf("failed") = 0 /\ HookOf("undecided") = 0
  BY DEF HookOf, HookNumber
<1>3. Pass.action = "pass" /\ Failed.action = "failed" /\ Undecided.action = "undecided"
  BY DEF Pass, Failed, Undecided, Result
<1>4. ~ValidFor(Pass, hook) /\ ~ValidFor(Failed, hook) /\ ~ValidFor(Undecided, hook)
  BY <1>1, <1>2, <1>3 DEF ValidFor
<1>5. ValidFor(result, hook) => ~ConstructorFails(result)
  BY DEF ValidFor, ConstructorFails
<1>6. CASE ConstructorFails(result)
  BY <1>5, <1>6, Verdicts DEF Outcome
<1>7. CASE result = Pass
  BY <1>4, <1>7, Verdicts DEF Outcome
<1>8. CASE ~ConstructorFails(result) /\ result # Pass
  BY <1>4, <1>8 DEF Outcome
<1> QED
  BY <1>6, <1>7, <1>8

-----------------------------------------------------------------------------
(* Loading *)

\* A claim, a panic in one, a reset and a load leave everything else alone.
LEMMA LoadingKeeps ==
  ASSUME GuestInv,
         \/ \E h \in Hook, f \in Handler \cup {NilHandler} : On(h, f)
         \/ Reset
         \/ \E declared \in Manifest : Load(declared)
  PROVE  GuestInv'
<1>1. /\ UNCHANGED <<pinned, at, in, bufs, calls, sent, told, via, meant, ended>>
      /\ phase = "registering" /\ phase' \in {"registering", "loaded", "refused"}
  BY DEF On, Reset, Load, runVars
<1>2. \/ UNCHANGED tables
      \/ ResetRegistrations
      \/ \E h \in Hook, f \in Handler \cup {NilHandler} : Register(h, f)
  BY DEF On, Reset, Load
<1>3. registered' \in SUBSET Hook /\ handler' \in [Hook -> Handler \cup {NilHandler}] /\ registered' = Installed'
  BY <1>2, TablesStay DEF GuestInv, TypeInv
<1>4. TypeInv'
  BY <1>1, <1>3 DEF GuestInv, TypeInv
<1>5. HolderInv'
  BY <1>1 DEF GuestInv, HolderInv
<1>6. ended = "nothing" /\ meant = Undecided /\ at = "idle"
  BY <1>1 DEF GuestInv, RunInv, TypeInv
<1>7. RunInv'
  <2>1. FailuresNeverPass'
    BY <1>1, <1>6, NotEndedYet
  <2> QED
    BY <1>1, <1>6, <2>1 DEF RunInv
<1>8. AnswerInv'
  BY <1>1, <1>6, AnswerStays DEF GuestInv
<1> QED
  BY <1>3, <1>4, <1>5, <1>7, <1>8 DEF GuestInv

\* A new instance begins with nothing.
LEMMA FreshInstance ==
  ASSUME registered' = {}, handler' = [h \in Hook |-> NilHandler], phase' = "registering", pinned' = {},
         at' = "idle", in' = NoInput, bufs' = NoBuffer, sent' = <<>>, told' = NoReply, via' = "checked",
         meant' = Undecided, ended' = "nothing"
  PROVE  GuestInv'
<1>1. NoBuffer \in Held /\ \A b \in Holder : NoBuffer[b] = NullPtr
  BY DEF NoBuffer, Held
<1>2. NoReply \in Told
  BY DEF NoReply, Told, Code
<1>3. TypeInv'
  <2>1. sent' \in Seq(WireField)
    OBVIOUS
  <2> QED
    BY <1>1, <1>2, <2>1 DEF TypeInv, Held, Helper
<1>4. registered' = Installed'
  BY DEF Installed
<1>5. HolderInv'
  <2>1. Accounted({}, NoBuffer)
    BY <1>1 DEF Accounted
  <2> QED
    BY <1>1, <2>1 DEF HolderInv, Holder
<1>6. RunInv'
  <2>1. FailuresNeverPass'
    BY NotEndedYet
  <2> QED
    BY <2>1 DEF RunInv
<1> QED
  BY <1>3, <1>4, <1>5, <1>6, NothingTold DEF GuestInv


\* The first instance, before any registration.
LEMMA InitGuestInv == GuestInit => GuestInv
<1> SUFFICES ASSUME GuestInit PROVE GuestInv
  OBVIOUS
<1>1. NoBuffer \in Held /\ \A b \in Holder : NoBuffer[b] = NullPtr
  BY DEF NoBuffer, Held
<1>2. NoReply \in Told /\ NoReply.kind = "none"
  BY DEF NoReply, Told, Code
<1>3. TypeInv
  BY <1>1, <1>2 DEF GuestInit, TablesInit, TypeInv, Held, Helper
<1>4. registered = Installed
  BY DEF GuestInit, TablesInit, Installed
<1>5. HolderInv
  <2>1. Accounted({}, NoBuffer)
    BY <1>1 DEF Accounted
  <2> QED
    BY <1>1, <2>1 DEF GuestInit, HolderInv, Holder
<1>6. RunInv
  BY Verdicts DEF GuestInit, RunInv, FailuresNeverPass
<1>7. AnswerInv
  BY <1>2 DEF GuestInit, AnswerInv, AnswersAreSaid
<1> QED
  BY <1>3, <1>4, <1>5, <1>6, <1>7 DEF GuestInv

\* The host replaces the instance.
LEMMA ReinstantiateKeeps ==
  ASSUME Reinstantiate
  PROVE  GuestInv'
BY FreshInstance DEF Reinstantiate, ResetRegistrations

-----------------------------------------------------------------------------
(* Between runs *)

\* The host allocates, frees and goes on to the next run.
LEMMA HostKeeps ==
  ASSUME GuestInv, AllocInput \/ NextRun \/ \E b \in {"input", "result"} : HostFrees(b)
  PROVE  GuestInv'
<1> USE DEF Held
<1>1. /\ UNCHANGED <<tables, phase, at>> /\ phase = "loaded" /\ at = "idle"
      /\ bufs \in Held /\ Accounted(pinned, bufs)
      /\ bufs["cmd"] = NullPtr /\ bufs["args"] = NullPtr /\ bufs["reply"] = NullPtr
  BY DEF AllocInput, NextRun, HostFrees, Idle, GuestInv, TypeInv, HolderInv
<1>2. registered' = Installed'
  BY <1>1, TablesStay DEF GuestInv, TypeInv
<1>3. /\ TypeInv' <=> in' \in HookInput(Hook) \cup {NoInput} /\ bufs' \in Held /\ sent' \in Seq(WireField)
                        /\ told' \in Told /\ via' \in Helper /\ ended' \in {"nothing", "pass", "frame", "trap"}
      /\ HolderInv' <=> /\ Accounted(pinned', bufs')
                        /\ bufs'["cmd"] = NullPtr /\ bufs'["args"] = NullPtr /\ bufs'["reply"] = NullPtr
                        /\ ended' # "frame" => bufs'["result"] = NullPtr
      /\ RunInv' <=> (ended' = "nothing" => meant' = Undecided) /\ FailuresNeverPass'
  BY <1>1 DEF GuestInv, TypeInv, HolderInv, RunInv, tables
<1>4. CASE AllocInput
  <2>1. PICK a \in Addr : Fresh(a) /\ pinned' = pinned \cup {a} /\ bufs' = [bufs EXCEPT !["input"] = a]
    BY <1>4 DEF AllocInput
  <2>2. UNCHANGED <<in, calls, sent, told, via, meant, ended>> /\ bufs["input"] = NullPtr /\ ended = "nothing"
    BY <1>4 DEF AllocInput
  <2>3. bufs' \in Held /\ Accounted(pinned', bufs')
    BY <1>1, <2>1, <2>2, TakeKeeps DEF Fresh, Holder
  <2>4. \A b \in Holder \ {"input"} : bufs'[b] = bufs[b]
    BY <1>1, <2>1
  <2>5. TypeInv' /\ HolderInv'
    BY <1>1, <1>3, <2>2, <2>3, <2>4 DEF GuestInv, TypeInv, HolderInv, Holder
  <2>6. RunInv'
    BY <1>3, <2>2, NotEndedYet DEF GuestInv, RunInv
  <2>7. AnswerInv'
    BY <1>1, <2>2, AnswerStays DEF GuestInv
  <2> QED
    BY <1>2, <2>5, <2>6, <2>7 DEF GuestInv
<1>5. ASSUME NEW b \in {"input", "result"}, HostFrees(b) PROVE GuestInv'
  <2>1. /\ pinned' = pinned \ {bufs[b]} /\ bufs' = [bufs EXCEPT ![b] = NullPtr]
        /\ UNCHANGED <<in, calls, sent, told, via, meant, ended>>
    BY <1>5 DEF HostFrees
  <2>2. bufs' \in Held /\ Accounted(pinned', bufs')
    BY <1>1, <2>1, DropKeeps DEF Holder
  <2>3. \A c \in Holder : bufs[c] = NullPtr => bufs'[c] = NullPtr
    BY <1>1, <2>1
  <2>4. TypeInv' /\ HolderInv'
    BY <1>1, <1>3, <2>1, <2>2, <2>3 DEF GuestInv, TypeInv, HolderInv, Holder
  <2>5. RunInv'
    BY <1>1, <1>3, <2>1 DEF GuestInv, RunInv, FailuresNeverPass, tables
  <2>6. AnswerInv'
    BY <1>1, <2>1, AnswerStays DEF GuestInv
  <2> QED
    BY <1>2, <2>4, <2>5, <2>6 DEF GuestInv
<1>6. CASE NextRun
  <2>1. /\ in' = NoInput /\ sent' = <<>> /\ told' = NoReply /\ via' = "checked" /\ meant' = Undecided
        /\ ended' = "nothing" /\ UNCHANGED <<pinned, bufs>> /\ bufs = NoBuffer
    BY <1>6 DEF NextRun
  <2>2. NoReply \in Told /\ NoBuffer["result"] = NullPtr
    BY DEF NoReply, Told, Code, NoBuffer, Holder
  <2>3. TypeInv'
    <3>1. sent' \in Seq(WireField)
      BY <2>1
    <3> QED
      BY <1>1, <1>3, <2>1, <2>2, <3>1 DEF Helper
  <2>4. HolderInv'
    BY <1>1, <1>3, <2>1, <2>2
  <2>5. RunInv'
    BY <1>3, <2>1, NotEndedYet
  <2> QED
    BY <1>2, <2>1, <2>3, <2>4, <2>5, NothingTold DEF GuestInv
<1> QED
  BY <1>4, <1>5, <1>6


-----------------------------------------------------------------------------
(* run_hook *)

\* A panic leaves the buffers where they are; there is nobody to miss them.
LEMMA TrapKeeps ==
  ASSUME GuestInv, Trap, at \in {"idle", "handling"}, ended = "nothing"
  PROVE  GuestInv'
<1>1. /\ UNCHANGED <<tables, pinned, in, bufs, sent, told, via>>
      /\ phase' = "trapped" /\ at' = "idle" /\ ended' = "trap"
  BY DEF Trap
<1>2. TypeInv' /\ registered' = Installed'
  BY <1>1 DEF GuestInv, TypeInv, tables, Installed
<1>3. HolderInv'
  BY <1>1 DEF GuestInv, HolderInv
<1>4. RunInv'
  BY <1>1, TrapIsTold DEF RunInv
<1>5. AnswerInv'
  BY <1>1, AnswerStays DEF GuestInv
<1> QED
  BY <1>2, <1>3, <1>4, <1>5 DEF GuestInv

\* An unusable input traps, a hook without a handler passes.
LEMMA RunHookKeeps ==
  ASSUME GuestInv, NEW frame \in HookInput(Hook), RunHook(frame)
  PROVE  GuestInv'
<1>1. phase = "loaded" /\ at = "idle" /\ ended = "nothing" /\ meant = Undecided /\ bufs["result"] = NullPtr
  BY DEF RunHook, Idle, GuestInv, RunInv, HolderInv
<1>2. CASE ~UsableInput(frame) /\ Trap
  BY <1>1, <1>2, TrapKeeps
<1>3. CASE UsableInput(frame)
  <2>1. /\ in' = frame /\ UNCHANGED <<tables, phase, pinned, bufs, sent, told, via, meant>>
        /\ \/ handler[frame.hook] = NilHandler /\ ended' = "pass" /\ at' = at
           \/ at' = "handling" /\ ended' = ended
    BY <1>3 DEF RunHook
  <2>2. TypeInv' /\ registered' = Installed'
    BY <2>1 DEF GuestInv, TypeInv, tables, Installed
  <2>3. HolderInv'
    BY <1>1, <2>1 DEF GuestInv, HolderInv
  <2>4. RunInv'
    <3>1. CASE ended' = "pass" /\ handler[frame.hook] = NilHandler /\ at' = at
      <4>1. FailuresNeverPass'
        BY <1>1, <2>1, <3>1, Verdicts DEF FailuresNeverPass, tables
      <4> QED
        BY <1>1, <2>1, <3>1, <4>1 DEF RunInv
    <3>2. CASE at' = "handling" /\ ended' = ended
      BY <1>1, <2>1, <3>2, NotEndedYet DEF RunInv
    <3> QED
      BY <2>1, <3>1, <3>2
  <2>5. AnswerInv'
    BY <1>1, <2>1, AnswerStays DEF GuestInv
  <2> QED
    BY <2>2, <2>3, <2>4, <2>5 DEF GuestInv
<1> QED
  BY <1>2, <1>3 DEF RunHook

\* A call or a diagnostic takes one buffer or two.
LEMMA CallTakes ==
  ASSUME bufs \in Held, Accounted(pinned, bufs), bufs["cmd"] = NullPtr, bufs["args"] = NullPtr,
         NEW c \in Addr, NEW g \in Addr, Fresh(c), Fresh(g), c # g, NEW both \in BOOLEAN,
         pinned' = pinned \cup {c} \cup (IF both THEN {g} ELSE {}),
         bufs' = [bufs EXCEPT !["cmd"] = c, !["args"] = IF both THEN g ELSE NullPtr]
  PROVE  /\ bufs' \in Held /\ Accounted(pinned', bufs')
         /\ \A b \in Holder \ {"cmd", "args"} : bufs'[b] = bufs[b]
<1> DEFINE first == [bufs EXCEPT !["cmd"] = c]
           second == [first EXCEPT !["args"] = g]
<1>1. first \in Held /\ Accounted(pinned \cup {c}, first) /\ first["args"] = NullPtr
      /\ \A b \in Holder \ {"cmd"} : first[b] = bufs[b]
  BY TakeKeeps DEF Holder, Fresh, Held
<1>2. second \in Held /\ Accounted(pinned \cup {c} \cup {g}, second)
  BY <1>1, TakeKeeps DEF Holder, Fresh
<1>3. \A b \in Holder \ {"cmd", "args"} : bufs'[b] = bufs[b]
  BY DEF Held
<1>4. CASE both
  <2>1. bufs' = second
    BY <1>4
  <2> QED
    BY <1>2, <1>3, <1>4, <2>1
<1>5. CASE ~both
  <2>1. bufs' = first
    BY <1>5 DEF Held
  <2>2. pinned' = pinned \cup {c}
    BY <1>5
  <2> QED
    BY <1>1, <1>3, <2>1, <2>2
<1> QED
  BY <1>4, <1>5

\* A call and a diagnostic, up to the import.
LEMMA CallKeeps ==
  ASSUME GuestInv, NEW both \in BOOLEAN, HostCall(both) \/ Emit(both)
  PROVE  GuestInv'
<1>1. /\ phase = "loaded" /\ at = "handling" /\ ended = "nothing" /\ meant = Undecided
      /\ in \in HookInput(Hook) /\ bufs \in Held /\ Accounted(pinned, bufs)
      /\ \A b \in {"cmd", "args", "reply", "result"} : bufs[b] = NullPtr
  BY DEF HostCall, Emit, Idle, GuestInv, TypeInv, RunInv, HolderInv, Held
<1>2. UNCHANGED <<tables, phase, in, meant, ended>> /\ at' \in {"in_call", "emitting"}
  BY DEF HostCall, Emit
<1>3. /\ bufs' \in Held /\ Accounted(pinned', bufs')
      /\ \A b \in Holder \ {"cmd", "args"} : bufs'[b] = bufs[b]
  <2>1. PICK c \in Addr, g \in Addr :
          /\ Fresh(c) /\ Fresh(g) /\ c # g
          /\ pinned' = pinned \cup {c} \cup (IF both THEN {g} ELSE {})
          /\ bufs' = [bufs EXCEPT !["cmd"] = c, !["args"] = IF both THEN g ELSE NullPtr]
    BY DEF HostCall, Emit
  <2> QED
    BY <1>1, <2>1, CallTakes
<1>4. HolderInv'
  BY <1>1, <1>2, <1>3 DEF GuestInv, HolderInv, Holder
<1>5. RunInv'
  BY <1>1, <1>2, NotEndedYet DEF RunInv
<1>6. AnswerInv' /\ sent' \in Seq(WireField) /\ told' \in Told /\ via' \in Helper
  <2>1. CASE HostCall(both)
    <3>1. sent' = <<>> /\ told' = NoReply /\ via' = "checked"
      BY <2>1 DEF HostCall
    <3>2. sent' \in Seq(WireField) /\ told' \in Told /\ via' \in Helper
      <4>1. <<>> \in Seq(WireField)
        OBVIOUS
      <4>2. NoReply \in Told /\ "checked" \in Helper
        BY DEF NoReply, Told, Code, Helper
      <4> QED
        BY <3>1, <4>1, <4>2
    <3> QED
      BY <3>1, <3>2, NothingTold
  <2>2. CASE Emit(both)
    <3>1. UNCHANGED <<sent, told, via>> /\ at' = "emitting"
      BY <2>2 DEF Emit
    <3> QED
      BY <3>1, AnswerStays DEF GuestInv, TypeInv
  <2> QED
    BY <2>1, <2>2
<1>7. TypeInv' /\ registered' = Installed'
  BY <1>1, <1>2, <1>3, <1>6 DEF GuestInv, TypeInv, tables, Installed, Held
<1> QED
  BY <1>4, <1>5, <1>6, <1>7 DEF GuestInv


\* The host answers through alloc; nothing is told before the call returns.
LEMMA AnswerKeeps ==
  ASSUME GuestInv, NEW frame \in Frame, HostAnswers(frame)
  PROVE  GuestInv'
<1>1. /\ phase = "loaded" /\ at = "in_call" /\ ended = "nothing" /\ meant = Undecided /\ told = NoReply
      /\ in \in HookInput(Hook) /\ bufs \in Held /\ Accounted(pinned, bufs)
      /\ bufs["reply"] = NullPtr /\ bufs["result"] = NullPtr
  BY DEF HostAnswers, Idle, GuestInv, TypeInv, RunInv, HolderInv, AnswerInv, Held
<1>2. UNCHANGED <<tables, phase, in, told, via, meant, ended>> /\ at' = "answered" /\ sent' = frame
  BY DEF HostAnswers
<1>3. /\ bufs' \in Held /\ Accounted(pinned', bufs')
      /\ \A b \in Holder \ {"reply"} : bufs'[b] = bufs[b]
  <2>1. CASE UNCHANGED <<pinned, bufs>>
    BY <1>1, <2>1
  <2>2. CASE \E a \in Addr : Fresh(a) /\ pinned' = pinned \cup {a} /\ bufs' = [bufs EXCEPT !["reply"] = a]
    <3>1. PICK a \in Addr : Fresh(a) /\ pinned' = pinned \cup {a} /\ bufs' = [bufs EXCEPT !["reply"] = a]
      BY <2>2
    <3>2. bufs' \in Held /\ Accounted(pinned', bufs')
      BY <1>1, <3>1, TakeKeeps DEF Holder, Fresh
    <3> QED
      BY <1>1, <3>1, <3>2 DEF Held
  <2> QED
    BY <2>1, <2>2 DEF HostAnswers
<1>4. HolderInv'
  BY <1>1, <1>2, <1>3 DEF HolderInv, Holder
<1>5. RunInv'
  BY <1>1, <1>2, NotEndedYet DEF RunInv
<1>6. AnswerInv'
  BY <1>1, <1>2, NothingTold
<1>7. TypeInv' /\ registered' = Installed'
  <2>1. sent' \in Seq(WireField)
    BY <1>2, FrameAssumption
  <2> QED
    BY <1>2, <1>3, <2>1 DEF GuestInv, TypeInv, tables, Installed, Held
<1> QED
  BY <1>4, <1>5, <1>6, <1>7 DEF GuestInv

\* What is left pinned and held when the arguments, the command and the reply
\* are given up.
LEMMA CallDrops ==
  ASSUME NEW addresses, NEW held \in Held, Accounted(addresses, held)
  PROVE  /\ [held EXCEPT !["cmd"] = NullPtr, !["args"] = NullPtr] \in Held
         /\ Accounted(addresses \ {held["cmd"], held["args"]}, [held EXCEPT !["cmd"] = NullPtr, !["args"] = NullPtr])
         /\ [held EXCEPT !["cmd"] = NullPtr, !["args"] = NullPtr, !["reply"] = NullPtr] \in Held
         /\ Accounted(addresses \ {held["cmd"], held["args"], held["reply"]},
                      [held EXCEPT !["cmd"] = NullPtr, !["args"] = NullPtr, !["reply"] = NullPtr])
<1> DEFINE first == [held EXCEPT !["cmd"] = NullPtr]
           second == [first EXCEPT !["args"] = NullPtr]
           third == [second EXCEPT !["reply"] = NullPtr]
<1>1. first \in Held /\ Accounted(addresses \ {held["cmd"]}, first)
      /\ first["args"] = held["args"] /\ first["reply"] = held["reply"]
  BY DropKeeps DEF Holder, Held
<1>2. second \in Held /\ Accounted((addresses \ {held["cmd"]}) \ {held["args"]}, second)
      /\ second["reply"] = held["reply"]
  BY <1>1, DropKeeps DEF Holder, Held
<1>3. third \in Held /\ Accounted(((addresses \ {held["cmd"]}) \ {held["args"]}) \ {held["reply"]}, third)
  BY <1>2, DropKeeps DEF Holder
<1>4. /\ (addresses \ {held["cmd"]}) \ {held["args"]} = addresses \ {held["cmd"], held["args"]}
      /\ ((addresses \ {held["cmd"]}) \ {held["args"]}) \ {held["reply"]}
           = addresses \ {held["cmd"], held["args"], held["reply"]}
  OBVIOUS
<1> QED
  BY <1>2, <1>3, <1>4

\* The call returns: its buffers go, and its helper tells what was said.
LEMMA ReturnKeeps ==
  ASSUME GuestInv, NEW helper \in Helper, CallReturns(helper)
  PROVE  GuestInv'
<1>1. /\ phase = "loaded" /\ at = "answered" /\ ended = "nothing" /\ meant = Undecided
      /\ in \in HookInput(Hook) /\ bufs \in Held /\ Accounted(pinned, bufs) /\ bufs["result"] = NullPtr
      /\ sent \in Seq(WireField)
  BY DEF CallReturns, Idle, GuestInv, TypeInv, RunInv, HolderInv, Held
<1>2. /\ UNCHANGED <<tables, in, sent>> /\ told' = Tell(helper, sent) /\ via' = helper
      /\ pinned' = pinned \ {bufs["cmd"], bufs["args"], bufs["reply"]}
      /\ bufs' = [bufs EXCEPT !["cmd"] = NullPtr, !["args"] = NullPtr, !["reply"] = NullPtr]
      /\ \/ phase' = "trapped" /\ at' = "idle" /\ ended' = "trap"
         \/ at' = "handling" /\ phase' = phase /\ meant' = meant /\ ended' = ended
  BY DEF CallReturns, UnpinCall
<1>3. /\ bufs' \in Held /\ Accounted(pinned', bufs') /\ bufs'["result"] = NullPtr
      /\ bufs'["cmd"] = NullPtr /\ bufs'["args"] = NullPtr /\ bufs'["reply"] = NullPtr
  <2>1. bufs' \in Held /\ Accounted(pinned', bufs')
    BY <1>1, <1>2, CallDrops
  <2> QED
    BY <1>1, <1>2, <2>1 DEF Holder, Held
<1>4. HolderInv'
  BY <1>1, <1>2, <1>3 DEF HolderInv
<1>5. RunInv'
  <2>1. CASE phase' = "trapped" /\ at' = "idle" /\ ended' = "trap"
    BY <2>1, TrapIsTold DEF RunInv
  <2>2. CASE at' = "handling" /\ phase' = phase /\ meant' = meant /\ ended' = ended
    BY <1>1, <1>2, <2>2, NotEndedYet DEF RunInv
  <2> QED
    BY <1>2, <2>1, <2>2
<1>6. told' \in Told /\ Said(told', sent', via')
  BY <1>1, <1>2, TellsWhatIsSaid
<1>7. AnswerInv'
  <2>1. at' \notin {"in_call", "answered"}
    BY <1>2
  <2>2. AnswersAreSaid'
    BY <1>6 DEF AnswersAreSaid, Said
  <2> QED
    BY <2>1, <2>2 DEF AnswerInv
<1>8. TypeInv' /\ registered' = Installed'
  BY <1>1, <1>2, <1>3, <1>6 DEF GuestInv, TypeInv, tables, Installed, Held
<1> QED
  BY <1>4, <1>5, <1>7, <1>8 DEF GuestInv

\* A helper refuses its own arguments, or a diagnostic returns.
LEMMA LocalKeeps ==
  ASSUME GuestInv, EmitReturns \/ \E helper \in Helper : RefuseLocally(helper)
  PROVE  GuestInv'
<1>1. /\ phase = "loaded" /\ at \in {"emitting", "handling"} /\ ended = "nothing" /\ meant = Undecided
      /\ in \in HookInput(Hook) /\ bufs \in Held /\ Accounted(pinned, bufs)
      /\ bufs["result"] = NullPtr /\ bufs["reply"] = NullPtr
  BY DEF EmitReturns, RefuseLocally, Idle, GuestInv, TypeInv, RunInv, HolderInv, Held
<1>2. UNCHANGED <<tables, phase, in, meant, ended>> /\ at' = "handling"
  BY DEF EmitReturns, RefuseLocally, Idle
<1>3. RunInv'
  BY <1>1, <1>2, NotEndedYet DEF RunInv
<1>4. CASE EmitReturns
  <2>1. /\ pinned' = pinned \ {bufs["cmd"], bufs["args"]}
        /\ bufs' = [bufs EXCEPT !["cmd"] = NullPtr, !["args"] = NullPtr] /\ UNCHANGED <<sent, told, via>>
    BY <1>4 DEF EmitReturns
  <2>2. /\ bufs' \in Held /\ Accounted(pinned', bufs')
    BY <1>1, <2>1, CallDrops
  <2>3. /\ bufs'["result"] = NullPtr /\ bufs'["reply"] = NullPtr
        /\ bufs'["cmd"] = NullPtr /\ bufs'["args"] = NullPtr
    BY <1>1, <2>1 DEF Holder, Held
  <2>4. HolderInv'
    BY <1>1, <1>2, <2>2, <2>3 DEF HolderInv
  <2>5. TypeInv' /\ registered' = Installed'
    BY <1>1, <1>2, <2>1, <2>2 DEF GuestInv, TypeInv, tables, Installed, Held
  <2>6. AnswerInv'
    BY <1>2, <2>1, AnswerStays DEF GuestInv
  <2> QED
    BY <1>3, <2>4, <2>5, <2>6 DEF GuestInv
<1>5. ASSUME NEW helper \in Helper, RefuseLocally(helper) PROVE GuestInv'
  <2>1. /\ sent' = <<>> /\ told' = Malformed /\ via' = helper /\ UNCHANGED <<pinned, bufs>> /\ at = "handling"
    BY <1>5 DEF RefuseLocally, Idle
  <2>2. HolderInv'
    BY <1>1, <1>2, <2>1 DEF GuestInv, HolderInv
  <2>3. Malformed \in Told /\ Malformed.kind = "error" /\ <<>> \in Seq(WireField)
    BY DEF Malformed, Told, Code
  <2>4. TypeInv' /\ registered' = Installed'
    BY <1>1, <1>2, <2>1, <2>3 DEF GuestInv, TypeInv, tables, Installed
  <2>5. AnswersAreSaid'
    <3>1. \A f : <<f>> # <<>>
      OBVIOUS
    <3> QED
      BY <2>1, <2>3, <3>1 DEF AnswersAreSaid
  <2>6. AnswerInv'
    BY <1>2, <2>5 DEF AnswerInv
  <2> QED
    BY <1>3, <2>2, <2>4, <2>6 DEF GuestInv
<1> QED
  BY <1>4, <1>5

\* The handler returns a result; only what it meant ends a run.
LEMMA ResultKeeps ==
  ASSUME GuestInv, NEW result, HandlerReturns(result)
  PROVE  GuestInv'
<1>1. /\ phase = "loaded" /\ at = "handling" /\ ended = "nothing" /\ in \in HookInput(Hook)
      /\ bufs \in Held /\ Accounted(pinned, bufs)
      /\ \A b \in {"cmd", "args", "reply", "result"} : bufs[b] = NullPtr
  BY DEF HandlerReturns, Idle, GuestInv, TypeInv, RunInv, HolderInv, Held
<1>2. in.hook \in Hook /\ meant' = result
  BY <1>1 DEF HookInput, HandlerReturns
<1>3. CASE Trap
  BY <1>1, <1>3, TrapKeeps
<1>4. CASE Outcome(result, in.hook) = "pass" /\ ~Trap
  <2>1. /\ at' = "idle" /\ ended' = "pass" /\ UNCHANGED <<tables, phase, pinned, in, bufs, sent, told, via>>
    BY <1>4 DEF HandlerReturns
  <2>2. result = Pass
    BY <1>2, <1>4, OutcomeIsMeant
  <2>3. RunInv'
    BY <1>1, <1>2, <2>1, <2>2, Verdicts DEF RunInv, FailuresNeverPass
  <2>4. HolderInv'
    BY <1>1, <2>1 DEF HolderInv
  <2>5. TypeInv' /\ registered' = Installed'
    BY <2>1 DEF GuestInv, TypeInv, tables, Installed
  <2>6. AnswerInv'
    BY <2>1, AnswerStays DEF GuestInv
  <2> QED
    BY <2>3, <2>4, <2>5, <2>6 DEF GuestInv
<1>5. CASE Outcome(result, in.hook) = "frame" /\ ~Trap
  <2>1. PICK a \in Addr : Fresh(a) /\ pinned' = pinned \cup {a} /\ bufs' = [bufs EXCEPT !["result"] = a]
    BY <1>5 DEF HandlerReturns
  <2>2. at' = "idle" /\ ended' = "frame" /\ UNCHANGED <<tables, phase, in, sent, told, via>>
    BY <1>5 DEF HandlerReturns
  <2>3. ValidFor(result, in.hook) /\ ~ConstructorFails(result) /\ result # Failed
    BY <1>2, <1>5, OutcomeIsMeant
  <2>4. RunInv'
    BY <1>1, <1>2, <2>2, <2>3 DEF RunInv, FailuresNeverPass
  <2>5. bufs' \in Held /\ Accounted(pinned', bufs')
    BY <1>1, <2>1, TakeKeeps DEF Holder, Fresh
  <2>6. \A b \in {"cmd", "args", "reply"} : bufs'[b] = NullPtr
    BY <1>1, <2>1 DEF Held, Holder
  <2>7. HolderInv'
    BY <1>1, <2>2, <2>5, <2>6 DEF HolderInv
  <2>8. TypeInv' /\ registered' = Installed'
    BY <2>2, <2>5 DEF GuestInv, TypeInv, tables, Installed, Held
  <2>9. AnswerInv'
    BY <2>2, AnswerStays DEF GuestInv
  <2> QED
    BY <2>4, <2>7, <2>8, <2>9 DEF GuestInv
<1> QED
  BY <1>3, <1>4, <1>5 DEF HandlerReturns

-----------------------------------------------------------------------------
(* The theorems *)

\* Every step of the host or the guest keeps the invariant.
LEMMA NextGuestInv == GuestInv /\ [GuestNext]_guestVars => GuestInv'
<1> SUFFICES ASSUME GuestInv, [GuestNext]_guestVars PROVE GuestInv'
  OBVIOUS
<1>1. CASE UNCHANGED guestVars
  <2>1. UNCHANGED <<registered, handler, phase, pinned, at, in, bufs, calls, sent, told, via, meant, ended>>
    BY <1>1 DEF guestVars
  <2>2. TypeInv' /\ registered' = Installed' /\ HolderInv'
    BY <2>1 DEF GuestInv, TypeInv, Installed, HolderInv
  <2>3. RunInv'
    BY <2>1 DEF GuestInv, RunInv, FailuresNeverPass
  <2>4. AnswerInv'
    BY <2>1 DEF GuestInv, AnswerInv, AnswersAreSaid
  <2> QED
    BY <2>2, <2>3, <2>4 DEF GuestInv
<1>2. CASE \/ \E h \in Hook, f \in Handler \cup {NilHandler} : On(h, f)
           \/ Reset
           \/ \E declared \in Manifest : Load(declared)
  BY <1>2, LoadingKeeps
<1>3. CASE Reinstantiate
  BY <1>3, ReinstantiateKeeps
<1>4. CASE AllocInput \/ NextRun \/ \E b \in {"input", "result"} : HostFrees(b)
  BY <1>4, HostKeeps
<1>5. CASE \E frame \in HookInput(Hook) : RunHook(frame)
  BY <1>5, RunHookKeeps
<1>6. CASE \E withArgs \in BOOLEAN : HostCall(withArgs) \/ Emit(withArgs)
  BY <1>6, CallKeeps
<1>7. CASE \E frame \in Frame : HostAnswers(frame)
  BY <1>7, AnswerKeeps
<1>8. CASE \E helper \in Helper : CallReturns(helper)
  BY <1>8, ReturnKeeps
<1>9. CASE EmitReturns \/ \E helper \in Helper : RefuseLocally(helper)
  BY <1>9, LocalKeeps
<1>10. CASE \E result \in Constructed(in.hook) : HandlerReturns(result)
  BY <1>10, ResultKeeps
<1>11. CASE HandlerFails
  <2>1. Trap /\ at = "handling" /\ ended = "nothing"
    BY <1>11 DEF HandlerFails, Idle, GuestInv, RunInv
  <2> QED
    BY <2>1, TrapKeeps
<1> QED
  BY <1>1, <1>2, <1>3, <1>4, <1>5, <1>6, <1>7, <1>8, <1>9, <1>10, <1>11 DEF GuestNext

\* The inductive invariant: a run goes on in a loaded instance only, each
\* holder's buffer comes and goes with where the run is, and an answer is told
\* of the frame that was sent.
THEOREM GuestHolds == GuestSpec => []GuestInv
<1>1. GuestInit => GuestInv
  BY InitGuestInv
<1>2. GuestInv /\ [GuestNext]_guestVars => GuestInv'
  BY NextGuestInv
<1> QED
  BY <1>1, <1>2, PTL DEF GuestSpec

\* Claims and handlers state one fact through every claim, panic, reset and
\* reload, and a module the host loads handles what its manifest declares, of
\* any manifest (registration.go, pb/v1/hooks.go).
THEOREM GuestClaims == GuestSpec => []ClaimsAreHandlers
<1>1. GuestInv => ClaimsAreHandlers
  BY LoadedIsDeclared DEF GuestInv, ClaimsAreHandlers
<1> QED
  BY <1>1, GuestHolds, PTL

\* However many host calls, diagnostics and runs come and go, nothing stays
\* pinned that nobody reads and nothing is unpinned that somebody does (sdk.go).
THEOREM GuestBuffers == GuestSpec => []BuffersAccounted
<1>1. GuestInv => BuffersAccounted
  BY DEF GuestInv, HolderInv, Accounted, BuffersAccounted
<1> QED
  BY <1>1, GuestHolds, PTL

\* A pass is what the handler meant or the want of one, a frame is what it
\* meant and the host accepts, and a failure traps (results.go, dispatch.go).
THEOREM GuestFailures == GuestSpec => []FailuresNeverPass
<1>1. GuestInv => FailuresNeverPass
  BY DEF GuestInv, RunInv
<1> QED
  BY <1>1, GuestHolds, PTL

\* For any frame a host may send, well-formed or not, no helper makes an answer
\* of what was not said (hostcall.go, platform.go, egress.go, original.go).
THEOREM GuestAnswers == GuestSpec => []AnswersAreSaid
<1>1. GuestInv => AnswersAreSaid
  BY DEF GuestInv, AnswerInv
<1> QED
  BY <1>1, GuestHolds, PTL
=============================================================================
