------------------------ MODULE StreamAssemblyProofs ------------------------
(***************************************************************************)
(* Proofs about the assembly of streamed tool calls, for any blocks,       *)
(* fragments and replacements.  AssemblyInv is inductive: it says of every *)
(* block which of four things can have become of it, and of every journal  *)
(* that it is the frame of what the provider has sent or no frame at all.  *)
(* The safety properties of StreamAssembly follow from it, and so does     *)
(* that every event is a step of ToolCallDelivery or none.                 *)
(***************************************************************************)
EXTENDS StreamAssembly, SequenceTheorems, TLAPS

Journal == Seq(Fragment \cup Ref)

TypeInv ==
  /\ handler \in Handler
  /\ meta \in [Index -> Journal]
  /\ in \in Stream
  /\ out \in Stream

\* What the rules of the ABI make of a block: only tool blocks have references
\* and payloads.
Ordered(s) ==
  /\ \A i \in Index :
       /\ s.phase[i] = "fresh" => s.ref[i] = NoRef
       /\ s.phase[i] = "other" => s.ref[i] = NoRef
       /\ s.phase[i] = "tool" => s.ref[i] \in Ref
       /\ s.ref[i] = NoRef => s.payload[i] = <<>>
  /\ \A i, j \in Index : ~(s.phase[i] = "tool" /\ s.phase[j] = "other")

\* The four things that can have become of a block: the client got it event by
\* event, nothing of it, or all of it at once; or the hook failed at its end.
Relayed(i) ==
  /\ out.phase[i] = in.phase[i] /\ out.ref[i] = in.ref[i] /\ out.payload[i] = in.payload[i]
  /\ handler.tool => in.ref[i] = NoRef
Withheld(i) ==
  /\ handler.tool /\ in.ref[i] \in Ref
  /\ out.phase[i] = "fresh" /\ out.ref[i] = NoRef /\ out.payload[i] = <<>>
Delivered(i) ==
  /\ handler.tool /\ in.ref[i] \in Ref
  /\ in.phase[i] = "closed" /\ out.phase[i] = "closed" /\ out.ref[i] \in Ref
  /\ ~handler.own /\ out.ref[i].sig => out.ref[i] = in.ref[i] /\ out.payload[i] = in.payload[i]
Abandoned(i) ==
  /\ out.status = "failed" /\ handler.tool /\ in.ref[i] = NoRef
  /\ in.phase[i] = "closed" /\ out.phase[i] = "other" /\ out.ref[i] = NoRef

\* What the journal of a block tells, while the plugin runs.  A plugin that
\* writes into journals itself can spoil a frame but not forge one.
JournalInv ==
  handler.tool /\ out.status # "failed" =>
    \A i \in Index :
      /\ ~handler.own => meta[i] = IF in.ref[i] = NoRef THEN <<>> ELSE <<in.ref[i]>> \o in.payload[i]
      /\ in.ref[i] # NoRef => meta[i] # <<>>
      /\ Framed(meta[i]) => Head(meta[i]) = in.ref[i] /\ Tail(meta[i]) \in Payload

BlockInv == \A i \in Index : Relayed(i) \/ Withheld(i) \/ Delivered(i) \/ Abandoned(i)

\* The rules were kept on both sides, and both streams are equally far.
StatusInv ==
  /\ handler.own => handler.tool
  /\ out.ok
  /\ out.status # "failed" => out.status = in.status
  /\ Ordered(in)

AssemblyInv == TypeInv /\ StatusInv /\ BlockInv /\ JournalInv

-----------------------------------------------------------------------------
(* What the rules of StreamBlocks make of each kind of event. *)

StreamOf(phase, ref, payload, status, ok) ==
  [phase |-> phase, ref |-> ref, payload |-> payload, status |-> status, ok |-> ok]

\* The phase of a block that a start opened.
Opened(r) == IF r = NoRef THEN "other" ELSE "tool"

\* Events of no block, and the status they leave.
Plain == {Text, Usage, StreamError, MessageStop}
After(e, status) ==
  CASE e = StreamError -> "errored" [] e = MessageStop -> "stopped" [] OTHER -> status

\* The fields of a stream.
LEMMA Typed ==
  ASSUME NEW s \in Stream
  PROVE  /\ s.phase \in [Index -> Phase] /\ s.ref \in [Index -> Ref \cup {NoRef}]
         /\ s.payload \in [Index -> Payload] /\ s.status \in {"open", "stopped", "errored", "failed"}
         /\ s.ok \in BOOLEAN
BY DEF Stream

\* A start opens its block and records the reference; it is legal only on a
\* fresh index, and text blocks and tool blocks exclude each other.
LEMMA StartRule ==
  ASSUME NEW s \in Stream, NEW i \in Index, NEW r \in Ref \cup {NoRef}
  PROVE  /\ Legal(s, Start(i, r)) <=>
              /\ s.status = "open" /\ s.phase[i] = "fresh"
              /\ NoneIn(s, IF r = NoRef THEN {"tool", "other"} ELSE {"other"})
         /\ Legal(s, Start(i, r)) =>
              /\ Observe(s, Start(i, r)) = StreamOf([s.phase EXCEPT ![i] = Opened(r)],
                                             [s.ref EXCEPT ![i] = r], s.payload, s.status, s.ok)
              /\ Observe(s, Start(i, r)) \in Stream
<1>1. Legal(s, Start(i, r)) <=>
        /\ s.status = "open" /\ s.phase[i] = "fresh"
        /\ NoneIn(s, IF r = NoRef THEN {"tool", "other"} ELSE {"other"})
  BY DEF Legal, Start, Stream
<1>2. Advance(s, Start(i, r)) = StreamOf([s.phase EXCEPT ![i] = Opened(r)],
                                  [s.ref EXCEPT ![i] = r], s.payload, s.status, s.ok)
  BY DEF Advance, Start, Stream, Opened, StreamOf
<1>3. Advance(s, Start(i, r)) \in Stream
  BY <1>2 DEF Stream, Phase, Opened, StreamOf
<1> QED
  BY <1>1, <1>2, <1>3 DEF Observe

\* A fragment extends an open tool block of its kind.
LEMMA DeltaRule ==
  ASSUME NEW s \in Stream, NEW i \in Index, NEW k \in Kind, NEW p \in Payload
  PROVE  /\ Legal(s, Delta(i, k, p)) <=> s.status = "open" /\ s.phase[i] = "tool" /\ s.ref[i].kind = k
         /\ Legal(s, Delta(i, k, p)) =>
              /\ Observe(s, Delta(i, k, p)) =
                   StreamOf(s.phase, s.ref, [s.payload EXCEPT ![i] = s.payload[i] \o p], s.status, s.ok)
              /\ Observe(s, Delta(i, k, p)) \in Stream
<1>1. Legal(s, Delta(i, k, p)) <=> s.status = "open" /\ s.phase[i] = "tool" /\ s.ref[i].kind = k
  BY DEF Legal, Delta, Stream
<1>2. Advance(s, Delta(i, k, p)) =
        StreamOf(s.phase, s.ref, [s.payload EXCEPT ![i] = s.payload[i] \o p], s.status, s.ok)
  BY DEF Advance, Delta, Stream, StreamOf
<1>3. s.payload[i] \o p \in Payload
  BY ConcatProperties DEF Stream, Payload
<1>4. Advance(s, Delta(i, k, p)) \in Stream
  BY <1>2, <1>3 DEF Stream, StreamOf
<1> QED
  BY <1>1, <1>2, <1>4 DEF Observe

\* A stop closes an open block.
LEMMA StopRule ==
  ASSUME NEW s \in Stream, NEW i \in Index
  PROVE  /\ Legal(s, Stop(i)) <=> s.status = "open" /\ s.phase[i] \in {"tool", "other"}
         /\ Legal(s, Stop(i)) =>
              /\ Observe(s, Stop(i)) =
                   StreamOf([s.phase EXCEPT ![i] = "closed"], s.ref, s.payload, s.status, s.ok)
              /\ Observe(s, Stop(i)) \in Stream
<1>1. Legal(s, Stop(i)) <=> s.status = "open" /\ s.phase[i] \in {"tool", "other"}
  BY DEF Legal, Stop, Stream
<1>2. Advance(s, Stop(i)) = StreamOf([s.phase EXCEPT ![i] = "closed"], s.ref, s.payload, s.status, s.ok)
  BY DEF Advance, Stop, Stream, StreamOf
<1>3. Advance(s, Stop(i)) \in Stream
  BY <1>2 DEF Stream, StreamOf, Phase
<1> QED
  BY <1>1, <1>2, <1>3 DEF Observe

\* Text, usage, errors and the end of the message change the status at most.
LEMMA PlainRule ==
  ASSUME NEW s \in Stream, NEW e \in Plain
  PROVE  /\ Legal(s, e) <=>
              /\ s.status = "open" \/ (e = Usage /\ s.status = "stopped")
              /\ e = Text => ~NoneIn(s, {"other"})
              /\ e = MessageStop => NoneIn(s, {"tool", "other"})
         /\ Legal(s, e) =>
              /\ Observe(s, e) = StreamOf(s.phase, s.ref, s.payload, After(e, s.status), s.ok)
              /\ Observe(s, e) \in Stream
<1> USE DEF Text, Usage, StreamError, MessageStop
<1>1. Legal(s, e) <=>
        /\ s.status = "open" \/ (e = Usage /\ s.status = "stopped")
        /\ e = Text => ~NoneIn(s, {"other"})
        /\ e = MessageStop => NoneIn(s, {"tool", "other"})
  BY DEF Legal, Plain
<1>2. Advance(s, e) = StreamOf(s.phase, s.ref, s.payload, After(e, s.status), s.ok)
  BY DEF Advance, Plain, Stream, StreamOf, After
<1>3. Advance(s, e) \in Stream
  BY <1>2 DEF Stream, StreamOf, After
<1> QED
  BY <1>1, <1>2, <1>3 DEF Observe

\* Whatever the provider may send next, its blocks stay in order.
LEMMA OrderStays ==
  ASSUME NEW s \in Stream, Ordered(s)
  PROVE  /\ \A e \in Plain : Legal(s, e) => Ordered(Observe(s, e))
         /\ \A i \in Index :
              /\ \A r \in Ref \cup {NoRef} : Legal(s, Start(i, r)) => Ordered(Observe(s, Start(i, r)))
              /\ \A k \in Kind, p \in Payload : Legal(s, Delta(i, k, p)) => Ordered(Observe(s, Delta(i, k, p)))
              /\ Legal(s, Stop(i)) => Ordered(Observe(s, Stop(i)))
<1> USE Typed DEF StreamOf
<1>1. ASSUME NEW e \in Plain, Legal(s, e) PROVE Ordered(Observe(s, e))
  BY <1>1, PlainRule DEF Ordered
<1>2. ASSUME NEW i \in Index, NEW r \in Ref \cup {NoRef}, Legal(s, Start(i, r))
      PROVE  Ordered(Observe(s, Start(i, r)))
  BY <1>2, StartRule DEF Ordered, NoneIn, Opened
<1>3. ASSUME NEW i \in Index, NEW k \in Kind, NEW p \in Payload, Legal(s, Delta(i, k, p))
      PROVE  Ordered(Observe(s, Delta(i, k, p)))
  <2>1. s.phase[i] = "tool" /\ s.ref[i] # NoRef
    BY <1>3, DeltaRule, IndexAssumption DEF Ordered, Ref, NoRef
  <2> DEFINE t == Observe(s, Delta(i, k, p))
  <2>2. t.phase = s.phase /\ t.ref = s.ref /\ \A j \in Index \ {i} : t.payload[j] = s.payload[j]
    BY <1>3, DeltaRule
  <2> QED
    BY <2>1, <2>2 DEF Ordered
<1>4. ASSUME NEW i \in Index, Legal(s, Stop(i)) PROVE Ordered(Observe(s, Stop(i)))
  BY <1>4, StopRule DEF Ordered
<1> QED
  BY <1>1, <1>2, <1>3, <1>4

-----------------------------------------------------------------------------
(* Journals *)

\* Appending to a journal keeps what is in it, front first.
LEMMA JournalGrows ==
  ASSUME NEW j \in Journal, NEW p \in Journal
  PROVE  /\ j \o p \in Journal
         /\ j # <<>> => j \o p # <<>> /\ Head(j \o p) = Head(j) /\ Tail(j \o p) = Tail(j) \o p
         /\ j = <<>> => j \o p = p
         /\ p = <<>> => j \o p = j
<1>1. j \o p \in Journal /\ (j = <<>> => j \o p = p) /\ (p = <<>> => j \o p = j)
  BY ConcatProperties, ConcatEmptySeq DEF Journal
<1>2. ASSUME j # <<>> PROVE j \o p # <<>> /\ Head(j \o p) = Head(j) /\ Tail(j \o p) = Tail(j) \o p
  <2> DEFINE S == Fragment \cup Ref
             whole == j \o p
  <2>1. whole \in Seq(S) /\ whole # <<>> /\ j \in Seq(S) /\ p \in Seq(S)
    BY <1>1, <1>2, ConcatEqualIffEmpty DEF Journal
  <2>2. Len(j) \in Nat \ {0} /\ Len(p) \in Nat /\ Len(whole) = Len(j) + Len(p)
    BY <1>2, <2>1, EmptySeq, LenProperties, ConcatProperties
  <2>3. \A n \in 1 .. Len(j) + Len(p) : whole[n] = IF n <= Len(j) THEN j[n] ELSE p[n - Len(j)]
    BY <2>1, ConcatProperties
  <2>4. whole[1] = j[1]
    BY <2>2, <2>3
  <2>5. Tail(j) \in Seq(S) /\ Len(Tail(j)) = Len(j) - 1 /\ \A n \in 1 .. Len(j) - 1 : Tail(j)[n] = j[n + 1]
    BY <1>2, <2>1, HeadTailProperties
  <2>6. /\ Tail(whole) \in Seq(S) /\ Len(Tail(whole)) = Len(j) + Len(p) - 1
        /\ \A n \in 1 .. Len(j) + Len(p) - 1 : Tail(whole)[n] = whole[n + 1]
    BY <2>1, <2>2, HeadTailProperties
  <2>7. /\ Tail(j) \o p \in Seq(S) /\ Len(Tail(j) \o p) = Len(j) - 1 + Len(p)
        /\ \A n \in 1 .. Len(j) - 1 + Len(p) :
             (Tail(j) \o p)[n] = IF n <= Len(j) - 1 THEN Tail(j)[n] ELSE p[n - (Len(j) - 1)]
    BY <2>1, <2>5, ConcatProperties
  <2>8. \A n \in 1 .. Len(j) + Len(p) - 1 : Tail(whole)[n] = (Tail(j) \o p)[n]
    BY <2>2, <2>3, <2>5, <2>6, <2>7
  <2>9. Tail(whole) = Tail(j) \o p
    BY <2>2, <2>6, <2>7, <2>8, SeqEqual
  <2> QED
    BY <1>2, <2>1, <2>4, <2>9
<1> QED
  BY <1>1, <1>2

\* A frame is taken apart into what it was made of.
LEMMA Frames ==
  ASSUME NEW r \in Ref, NEW q \in Payload
  PROVE  /\ <<r>> \o q \in Journal /\ <<r>> \o q # <<>>
         /\ Head(<<r>> \o q) = r /\ Tail(<<r>> \o q) = q
         /\ \A p \in Payload : (<<r>> \o q) \o p = <<r>> \o (q \o p)
<1> DEFINE S == Fragment \cup Ref
<1>1. <<r>> \in Seq(S) /\ q \in Seq(S) /\ \A p \in Payload : p \in Seq(S)
  BY SeqMonotonic DEF Payload
<1>2. <<r>> \o q \in Seq(S) /\ <<r>> \o q # <<>> /\ Head(<<r>> \o q) = r
  BY <1>1, JournalGrows DEF Journal
<1>3. Tail(<<r>> \o q) = q
  <2>1. Len(<<r>> \o q) = 1 + Len(q) /\ \A i \in 1 .. 1 + Len(q) : (<<r>> \o q)[i] = IF i <= 1 THEN r ELSE q[i - 1]
    BY <1>1, ConcatProperties
  <2>2. /\ Tail(<<r>> \o q) \in Seq(S) /\ Len(Tail(<<r>> \o q)) = Len(q)
        /\ \A i \in 1 .. Len(q) : Tail(<<r>> \o q)[i] = q[i]
    BY <1>1, <1>2, <2>1, HeadTailProperties, LenProperties
  <2> QED
    BY <1>1, <2>2, SeqEqual
<1>4. \A p \in Payload : (<<r>> \o q) \o p = <<r>> \o (q \o p)
  BY <1>1, ConcatAssociative
<1> QED
  BY <1>2, <1>3, <1>4 DEF Journal

-----------------------------------------------------------------------------
(* The steps *)

\* A new request has neither journals nor blocks.
LEMMA InitInv == Init => AssemblyInv
<1> SUFFICES ASSUME Init PROVE AssemblyInv
  OBVIOUS
<1>1. EmptyStream \in Stream
  BY DEF EmptyStream, Stream, Phase, Payload
<1>2. TypeInv
  BY <1>1 DEF Init, TypeInv, Journal
<1>3. StatusInv
  BY DEF Init, StatusInv, EmptyStream, Ordered
<1>4. BlockInv
  BY DEF Init, BlockInv, Relayed, EmptyStream
<1>5. JournalInv
  BY DEF Init, JournalInv, Framed, EmptyStream
<1> QED
  BY <1>2, <1>3, <1>4, <1>5 DEF AssemblyInv

\* Without a tool callback the client's stream is the provider's.
LEMMA WithoutCallback ==
  ASSUME AssemblyInv, ~handler.tool
  PROVE  /\ out.phase = in.phase /\ out.ref = in.ref /\ out.payload = in.payload
         /\ \A e : out.status # "failed" => (Legal(in, e) <=> Legal(out, e))
<1>1. \A i \in Index : Relayed(i)
  BY DEF AssemblyInv, BlockInv, Withheld, Delivered, Abandoned
<1>2. out.phase = in.phase /\ out.ref = in.ref /\ out.payload = in.payload
  BY <1>1, Typed DEF Relayed, AssemblyInv, TypeInv
<1>3. ASSUME NEW e, out.status # "failed" PROVE Legal(in, e) <=> Legal(out, e)
  BY <1>2, <1>3 DEF AssemblyInv, StatusInv, Legal, NoneIn
<1> QED
  BY <1>2, <1>3

\* With one, what is no tool call may still pass as it comes.
LEMMA LegalForClient ==
  ASSUME AssemblyInv, out.status # "failed"
  PROVE  /\ \A e \in Plain : Legal(in, e) => Legal(out, e)
         /\ \A i \in Index :
              /\ Legal(in, Start(i, NoRef)) => Legal(out, Start(i, NoRef))
              /\ in.phase[i] = "other" /\ Legal(in, Stop(i)) => Legal(out, Stop(i))
<1>1. in \in Stream /\ out \in Stream /\ out.status = in.status
  BY DEF AssemblyInv, TypeInv, StatusInv
<1>2. ASSUME NEW i \in Index
      PROVE  /\ in.phase[i] \in {"fresh", "other"} => out.phase[i] = in.phase[i]
             /\ in.phase[i] = "tool" => out.phase[i] \in {"fresh", "tool"}
             /\ in.phase[i] = "closed" => out.phase[i] \in {"fresh", "closed"}
  BY <1>1, IndexAssumption
     DEF AssemblyInv, BlockInv, StatusInv, Ordered, Relayed, Withheld, Delivered, Abandoned, Ref, NoRef
<1>3. in.phase \in [Index -> Phase] /\ out.phase \in [Index -> Phase]
  BY <1>1, Typed
<1>4. /\ ~NoneIn(in, {"other"}) => ~NoneIn(out, {"other"})
      /\ NoneIn(in, {"tool", "other"}) => NoneIn(out, {"tool", "other"})
  BY <1>2, <1>3 DEF NoneIn, Phase
<1>5. ASSUME NEW e \in Plain, Legal(in, e) PROVE Legal(out, e)
  BY <1>1, <1>4, <1>5, PlainRule
<1>6. ASSUME NEW i \in Index, Legal(in, Start(i, NoRef)) PROVE Legal(out, Start(i, NoRef))
  <2>1. NoRef \in Ref \cup {NoRef}
    OBVIOUS
  <2>2. in.status = "open" /\ in.phase[i] = "fresh" /\ NoneIn(in, {"tool", "other"})
    BY <1>1, <1>6, <2>1, StartRule
  <2>3. out.status = "open" /\ out.phase[i] = "fresh" /\ NoneIn(out, {"tool", "other"})
    BY <1>1, <1>2, <1>4, <2>2
  <2> QED
    BY <1>1, <2>1, <2>3, StartRule
<1>7. ASSUME NEW i \in Index, in.phase[i] = "other", Legal(in, Stop(i)) PROVE Legal(out, Stop(i))
  BY <1>1, <1>2, <1>7, StopRule
<1> QED
  BY <1>5, <1>6, <1>7

\* Texts, usage and the end of the message touch no block.
LEMMA PlainKeeps ==
  ASSUME AssemblyInv, NEW e \in Plain, Sent(e), UNCHANGED meta,
         Forward(e) \/ (Suppress /\ e = Text) \/ Fail
  PROVE  AssemblyInv'
<1> USE DEF StreamOf
<1>1. in \in Stream /\ out \in Stream /\ out.status # "failed" /\ out.status = in.status /\ out.ok /\ Ordered(in)
  BY DEF AssemblyInv, TypeInv, StatusInv, Sent
<1>2. /\ in' \in Stream /\ Ordered(in') /\ handler' = handler
      /\ in'.phase = in.phase /\ in'.ref = in.ref /\ in'.payload = in.payload
      /\ in'.status = After(e, in.status)
  BY <1>1, PlainRule, OrderStays DEF Sent
<1>3. /\ out' \in Stream /\ out'.ok
      /\ out'.phase = out.phase /\ out'.ref = out.ref /\ out'.payload = out.payload
      /\ out'.status # "failed" => out'.status = After(e, out.status)
  <2>1. CASE Forward(e)
    <3>1. Legal(out, e)
      BY <1>1, LegalForClient DEF Sent
    <3> QED
      BY <1>1, <2>1, <3>1, PlainRule DEF Forward
  <2>2. CASE Suppress /\ e = Text
    BY <1>1, <2>2 DEF Suppress, After, Text, StreamError, MessageStop
  <2>3. CASE Fail
    BY <1>1, <2>3 DEF Fail, Stream
  <2> QED
    BY <2>1, <2>2, <2>3
<1>4. TypeInv'
  BY <1>2, <1>3 DEF AssemblyInv, TypeInv
<1>5. StatusInv'
  BY <1>1, <1>2, <1>3 DEF AssemblyInv, StatusInv
<1>6. BlockInv'
  BY <1>1, <1>2, <1>3 DEF AssemblyInv, BlockInv, Relayed, Withheld, Delivered, Abandoned
<1>7. JournalInv'
  BY <1>1, <1>2 DEF AssemblyInv, JournalInv, Framed
<1> QED
  BY <1>4, <1>5, <1>6, <1>7 DEF AssemblyInv

\* The start of a block that is no tool call.
LEMMA OtherStartKeeps ==
  ASSUME AssemblyInv, NEW i \in Index, PassThrough(Start(i, NoRef))
  PROVE  AssemblyInv'
<1> USE DEF StreamOf
<1>1. in \in Stream /\ out \in Stream /\ out.status # "failed" /\ out.status = in.status /\ out.ok /\ Ordered(in)
  BY DEF AssemblyInv, TypeInv, StatusInv, PassThrough, Sent
<1>2. Opened(NoRef) = "other" /\ NoRef \in Ref \cup {NoRef} /\ NoRef \notin Ref
  BY IndexAssumption DEF Opened, Ref, NoRef
<1>3. /\ in' \in Stream /\ Ordered(in') /\ handler' = handler /\ meta' = meta
      /\ in'.phase = [in.phase EXCEPT ![i] = "other"] /\ in'.ref = [in.ref EXCEPT ![i] = NoRef]
      /\ in'.payload = in.payload /\ in'.status = in.status /\ in.phase[i] = "fresh"
  BY <1>1, <1>2, StartRule, OrderStays DEF PassThrough, Sent
<1>4. /\ out' \in Stream /\ out'.ok
      /\ out'.phase = [out.phase EXCEPT ![i] = "other"] /\ out'.ref = [out.ref EXCEPT ![i] = NoRef]
      /\ out'.payload = out.payload /\ out'.status = out.status
  <2>1. Legal(out, Start(i, NoRef))
    BY <1>1, LegalForClient DEF PassThrough, Sent
  <2> QED
    BY <1>1, <1>2, <2>1, StartRule DEF PassThrough, Forward
<1>5. in.ref[i] = NoRef
  BY <1>1, <1>3 DEF Ordered
<1>6. TypeInv'
  BY <1>3, <1>4 DEF AssemblyInv, TypeInv
<1>7. StatusInv'
  BY <1>1, <1>3, <1>4 DEF AssemblyInv, StatusInv
<1>8. BlockInv'
  BY <1>1, <1>2, <1>3, <1>4, <1>5, Typed
     DEF AssemblyInv, BlockInv, Relayed, Withheld, Delivered, Abandoned
<1>9. JournalInv'
  <2>1. in'.ref = in.ref
    BY <1>1, <1>3, <1>5, Typed
  <2> QED
    BY <1>1, <1>3, <1>4, <2>1 DEF AssemblyInv, JournalInv, Framed
<1> QED
  BY <1>6, <1>7, <1>8, <1>9 DEF AssemblyInv

\* The start of a tool call is buffered, passed on without a callback, or
\* refused by the host.
LEMMA ToolStartKeeps ==
  ASSUME AssemblyInv, NEW i \in Index, NEW r \in Ref, ToolStart(i, r)
  PROVE  AssemblyInv'
<1> USE DEF StreamOf
<1>1. in \in Stream /\ out \in Stream /\ out.status # "failed" /\ out.status = in.status /\ out.ok /\ Ordered(in)
  BY DEF AssemblyInv, TypeInv, StatusInv, ToolStart, Sent
<1>2. Opened(r) = "tool" /\ r \in Ref \cup {NoRef} /\ r # NoRef /\ NoRef \notin Ref
  BY IndexAssumption DEF Opened, Ref, NoRef
<1>3. /\ in' \in Stream /\ Ordered(in') /\ handler' = handler
      /\ in'.phase = [in.phase EXCEPT ![i] = "tool"] /\ in'.ref = [in.ref EXCEPT ![i] = r]
      /\ in'.payload = in.payload /\ in'.status = in.status /\ in.phase[i] = "fresh"
  BY <1>1, <1>2, StartRule, OrderStays DEF ToolStart, Sent
<1>4. in.ref[i] = NoRef /\ in.payload[i] = <<>>
  BY <1>1, <1>3 DEF Ordered
<1>5. CASE ~handler.tool
  <2>1. Forward(Start(i, r)) /\ meta' = meta
    BY <1>5 DEF ToolStart
  <2>2. out.phase = in.phase /\ out.ref = in.ref /\ out.payload = in.payload /\ Legal(out, Start(i, r))
    BY <1>1, <1>5, WithoutCallback DEF ToolStart, Sent
  <2>3. /\ out' \in Stream /\ out'.ok /\ out'.status = out.status
        /\ out'.phase = in'.phase /\ out'.ref = in'.ref /\ out'.payload = in'.payload
    BY <1>1, <1>2, <1>3, <2>1, <2>2, StartRule DEF Forward
  <2>4. TypeInv'
    BY <1>3, <2>1, <2>3 DEF AssemblyInv, TypeInv
  <2>5. StatusInv'
    BY <1>1, <1>3, <2>3 DEF AssemblyInv, StatusInv
  <2>6. BlockInv' /\ JournalInv'
    BY <1>3, <1>5, <2>3 DEF BlockInv, Relayed, JournalInv
  <2> QED
    BY <2>4, <2>5, <2>6 DEF AssemblyInv
<1>6. CASE handler.tool
  <2>1. /\ out' \in Stream /\ out'.ok
        /\ out'.phase = out.phase /\ out'.ref = out.ref /\ out'.payload = out.payload
        /\ out'.status # "failed" => out'.status = out.status
    BY <1>1, <1>6 DEF ToolStart, Suppress, MetaRefused, Fail, Stream
  <2>2. <<r>> \in Journal /\ meta[i] \in Journal
    BY DEF AssemblyInv, TypeInv, Journal
  <2>3. TypeInv'
    <3>1. meta' = [meta EXCEPT ![i] = meta[i] \o <<r>>] \/ meta' = meta
      BY <1>6 DEF ToolStart, MetaAppend, MetaRefused
    <3>2. meta[i] \o <<r>> \in Journal
      BY <2>2, JournalGrows
    <3>3. meta' \in [Index -> Journal]
      BY <3>1, <3>2 DEF AssemblyInv, TypeInv
    <3> QED
      BY <1>3, <2>1, <3>3 DEF AssemblyInv, TypeInv
  <2>4. StatusInv'
    BY <1>1, <1>3, <2>1 DEF AssemblyInv, StatusInv
  <2>5. BlockInv'
    <3>1. Withheld(i)'
      BY <1>1, <1>2, <1>3, <1>4, <1>6, <2>1, Typed
         DEF AssemblyInv, BlockInv, Relayed, Withheld, Delivered, Abandoned
    <3> QED
      BY <1>1, <1>3, <2>1, <3>1, Typed DEF AssemblyInv, BlockInv, Relayed, Withheld, Delivered, Abandoned
  <2>6. JournalInv'
    <3> SUFFICES ASSUME out'.status # "failed" PROVE JournalInv'
      BY DEF JournalInv
    <3>1. meta' = [meta EXCEPT ![i] = meta[i] \o <<r>>]
      BY <1>6 DEF ToolStart, MetaAppend, MetaRefused, Fail, Stream, AssemblyInv, TypeInv
    <3>2. meta[i] # <<>> => ~Framed(meta[i])
      BY <1>1, <1>2, <1>4, <1>6 DEF AssemblyInv, JournalInv, Framed
    <3>3. /\ meta'[i] # <<>> /\ (meta[i] = <<>> => meta'[i] = <<r>>)
          /\ Framed(meta'[i]) => meta'[i] = <<r>>
      <4>1. meta'[i] = meta[i] \o <<r>>
        BY <3>1 DEF AssemblyInv, TypeInv
      <4>2. CASE meta[i] = <<>>
        BY <2>2, <4>1, <4>2, JournalGrows
      <4>3. CASE meta[i] # <<>>
        <5>1. meta[i] \o <<r>> # <<>> /\ Head(meta[i] \o <<r>>) = Head(meta[i])
          BY <2>2, <4>3, JournalGrows
        <5>2. Head(meta[i]) \notin Ref
          BY <3>2, <4>3 DEF Framed
        <5> QED
          BY <4>1, <4>3, <5>1, <5>2 DEF Framed
      <4> QED
        BY <4>2, <4>3
    <3>4. Head(<<r>>) = r /\ Tail(<<r>>) \in Payload /\ <<r>> \o <<>> = <<r>>
      BY <2>2, JournalGrows DEF Journal, Payload
    <3>5. ~handler.own => meta[i] = <<>>
      BY <1>1, <1>4, <1>6 DEF AssemblyInv, JournalInv
    <3> QED
      <4>1. in'.ref[i] = r /\ in'.payload[i] = <<>> /\ handler' = handler
        BY <1>1, <1>3, <1>4, Typed
      <4>2. /\ ~handler.own => meta'[i] = <<r>> \o <<>>
            /\ meta'[i] # <<>>
            /\ Framed(meta'[i]) => Head(meta'[i]) = r /\ Tail(meta'[i]) \in Payload
        BY <3>3, <3>4, <3>5
      <4>3. ASSUME NEW j \in Index, j # i
            PROVE  in'.ref[j] = in.ref[j] /\ in'.payload[j] = in.payload[j] /\ meta'[j] = meta[j]
        BY <1>1, <1>3, <3>1, <4>3, Typed DEF AssemblyInv, TypeInv
      <4>4. \A j \in Index \ {i} :
              /\ ~handler.own => meta[j] = IF in.ref[j] = NoRef THEN <<>> ELSE <<in.ref[j]>> \o in.payload[j]
              /\ in.ref[j] # NoRef => meta[j] # <<>>
              /\ Framed(meta[j]) => Head(meta[j]) = in.ref[j] /\ Tail(meta[j]) \in Payload
        BY <1>1, <1>6 DEF AssemblyInv, JournalInv
      <4>5. r # NoRef
        BY <1>2
      <4>6. \A j \in Index \ {i} :
              /\ ~handler'.own => meta'[j] = IF in'.ref[j] = NoRef THEN <<>> ELSE <<in'.ref[j]>> \o in'.payload[j]
              /\ in'.ref[j] # NoRef => meta'[j] # <<>>
              /\ Framed(meta'[j]) => Head(meta'[j]) = in'.ref[j] /\ Tail(meta'[j]) \in Payload
        <5> SUFFICES ASSUME NEW j \in Index \ {i}
                     PROVE  /\ ~handler'.own => meta'[j] = IF in'.ref[j] = NoRef THEN <<>> ELSE <<in'.ref[j]>> \o in'.payload[j]
                            /\ in'.ref[j] # NoRef => meta'[j] # <<>>
                            /\ Framed(meta'[j]) => Head(meta'[j]) = in'.ref[j] /\ Tail(meta'[j]) \in Payload
          OBVIOUS
        <5>1. in'.payload[j] = in.payload[j] /\ meta'[j] = meta[j] /\ in'.ref[j] = in.ref[j]
          BY <4>3
        <5> QED
          BY <4>1, <4>4, <5>1
      <4> QED
        BY <4>1, <4>2, <4>5, <4>6 DEF JournalInv
  <2> QED
    BY <2>3, <2>4, <2>5, <2>6 DEF AssemblyInv
<1> QED
  BY <1>5, <1>6

\* A fragment is buffered, passed on without a callback, or refused by the host.
LEMMA ToolDeltaKeeps ==
  ASSUME AssemblyInv, NEW i \in Index, NEW k \in Kind, NEW p \in Payload, ToolDelta(i, k, p)
  PROVE  AssemblyInv'
<1> USE DEF StreamOf
<1>1. in \in Stream /\ out \in Stream /\ out.status # "failed" /\ out.status = in.status /\ out.ok /\ Ordered(in)
  BY DEF AssemblyInv, TypeInv, StatusInv, ToolDelta, Sent
<1>2. in.phase[i] = "tool" /\ in.ref[i] \in Ref /\ NoRef \notin Ref
  BY <1>1, DeltaRule, IndexAssumption DEF ToolDelta, Sent, Ordered, Ref, NoRef
<1>3. /\ in' \in Stream /\ Ordered(in') /\ handler' = handler
      /\ in'.phase = in.phase /\ in'.ref = in.ref
      /\ in'.payload = [in.payload EXCEPT ![i] = in.payload[i] \o p] /\ in'.status = in.status
  <2>1. Legal(in, Delta(i, k, p)) /\ in' = Observe(in, Delta(i, k, p)) /\ handler' = handler
    BY DEF ToolDelta, Sent
  <2>2. Ordered(in')
    BY <1>1, <2>1, OrderStays
  <2>3. /\ in' = StreamOf(in.phase, in.ref, [in.payload EXCEPT ![i] = in.payload[i] \o p], in.status, in.ok)
        /\ in' \in Stream
    BY <1>1, <2>1, DeltaRule
  <2> QED
    BY <2>1, <2>2, <2>3
<1>5. CASE ~handler.tool
  <2>1. Forward(Delta(i, k, p)) /\ meta' = meta
    BY <1>5 DEF ToolDelta
  <2>2. out.phase = in.phase /\ out.ref = in.ref /\ out.payload = in.payload /\ Legal(out, Delta(i, k, p))
    BY <1>1, <1>5, WithoutCallback DEF ToolDelta, Sent
  <2>3. /\ out' \in Stream /\ out'.ok /\ out'.status = out.status
        /\ out'.phase = in'.phase /\ out'.ref = in'.ref /\ out'.payload = in'.payload
    <3>1. /\ out' = StreamOf(out.phase, out.ref, [out.payload EXCEPT ![i] = out.payload[i] \o p],
                             out.status, out.ok)
          /\ out' \in Stream
      <4>1. out' = Observe(out, Delta(i, k, p)) /\ Legal(out, Delta(i, k, p)) /\ out \in Stream
        BY <1>1, <2>1, <2>2 DEF Forward
      <4>2. /\ Observe(out, Delta(i, k, p)) = StreamOf(out.phase, out.ref,
                  [out.payload EXCEPT ![i] = out.payload[i] \o p], out.status, out.ok)
            /\ Observe(out, Delta(i, k, p)) \in Stream
        BY <4>1, DeltaRule
      <4> QED
        BY <4>1, <4>2
    <3> QED
      BY <1>1, <1>3, <2>2, <3>1
  <2>4. TypeInv'
    BY <1>3, <2>1, <2>3 DEF AssemblyInv, TypeInv
  <2>5. StatusInv'
    BY <1>1, <1>3, <2>3 DEF AssemblyInv, StatusInv
  <2>6. BlockInv' /\ JournalInv'
    BY <1>3, <1>5, <2>3 DEF BlockInv, Relayed, JournalInv
  <2> QED
    BY <2>4, <2>5, <2>6 DEF AssemblyInv
<1>6. CASE handler.tool
  <2>1. /\ out' \in Stream /\ out'.ok
        /\ out'.phase = out.phase /\ out'.ref = out.ref /\ out'.payload = out.payload
        /\ out'.status # "failed" => out'.status = out.status
    BY <1>1, <1>6 DEF ToolDelta, Suppress, MetaRefused, Fail, Stream
  <2>2. p \in Journal /\ meta[i] \in Journal /\ in.payload[i] \in Payload
    BY <1>1, SeqMonotonic, Typed DEF AssemblyInv, TypeInv, Journal, Payload
  <2>3. TypeInv'
    <3>1. meta' = [meta EXCEPT ![i] = meta[i] \o p] \/ meta' = meta
      BY <1>6 DEF ToolDelta, MetaAppend, MetaRefused
    <3>2. meta[i] \o p \in Journal
      BY <2>2, JournalGrows
    <3>3. meta' \in [Index -> Journal]
      BY <3>1, <3>2 DEF AssemblyInv, TypeInv
    <3> QED
      BY <1>3, <2>1, <3>3 DEF AssemblyInv, TypeInv
  <2>4. StatusInv'
    BY <1>1, <1>3, <2>1 DEF AssemblyInv, StatusInv
  <2>5. BlockInv'
    <3>1. Withheld(i)
      BY <1>1, <1>2, <1>6 DEF AssemblyInv, BlockInv, Relayed, Delivered, Abandoned
    <3>2. Withheld(i)'
      BY <1>3, <2>1, <3>1 DEF Withheld
    <3>3. \A j \in Index \ {i} : in'.payload[j] = in.payload[j]
      BY <1>1, <1>3, Typed
    <3> QED
      BY <1>1, <1>3, <2>1, <3>2, <3>3 DEF AssemblyInv, BlockInv, Relayed, Withheld, Delivered, Abandoned
  <2>6. JournalInv'
    <3> SUFFICES ASSUME out'.status # "failed" PROVE JournalInv'
      BY DEF JournalInv
    <3>1. meta' = [meta EXCEPT ![i] = meta[i] \o p]
      BY <1>6 DEF ToolDelta, MetaAppend, MetaRefused, Fail, Stream, AssemblyInv, TypeInv
    <3>2. meta[i] # <<>> /\ (Framed(meta[i]) => Head(meta[i]) = in.ref[i] /\ Tail(meta[i]) \in Payload)
      BY <1>1, <1>2, <1>6 DEF AssemblyInv, JournalInv
    <3>3. /\ meta[i] \o p # <<>> /\ Head(meta[i] \o p) = Head(meta[i])
          /\ Tail(meta[i] \o p) = Tail(meta[i]) \o p
      BY <2>2, <3>2, JournalGrows
    <3>4. ~handler.own => meta[i] \o p = <<in.ref[i]>> \o (in.payload[i] \o p)
      <4>1. ~handler.own => meta[i] = <<in.ref[i]>> \o in.payload[i]
        BY <1>1, <1>2, <1>6 DEF AssemblyInv, JournalInv
      <4>2. p \in Payload /\ in.payload[i] \in Payload /\ in.ref[i] \in Ref
        BY <1>2, <2>2
      <4>3. (<<in.ref[i]>> \o in.payload[i]) \o p = <<in.ref[i]>> \o (in.payload[i] \o p)
        BY <4>2, Frames
      <4> QED
        BY <4>1, <4>3
    <3>5. meta'[i] = meta[i] \o p /\ in'.payload[i] = in.payload[i] \o p
      BY <1>1, <1>3, <3>1, Typed DEF AssemblyInv, TypeInv
    <3>6. /\ ~handler.own => meta'[i] = <<in.ref[i]>> \o in'.payload[i]
          /\ meta'[i] # <<>>
          /\ Framed(meta'[i]) => Head(meta'[i]) = in.ref[i] /\ Tail(meta'[i]) \in Payload
      <4>1. Tail(meta[i]) \in Payload => Tail(meta[i]) \o p \in Payload
        BY ConcatProperties DEF Payload
      <4> QED
        BY <3>2, <3>3, <3>4, <3>5, <4>1 DEF Framed
    <3>7. ASSUME NEW j \in Index, j # i
          PROVE  in'.payload[j] = in.payload[j] /\ meta'[j] = meta[j]
      BY <1>1, <1>3, <3>1, <3>7, Typed DEF AssemblyInv, TypeInv
    <3>8. /\ in'.ref = in.ref /\ handler' = handler /\ in.ref[i] # NoRef
      BY <1>2, <1>3
    <3>9. \A j \in Index \ {i} :
            /\ ~handler.own => meta[j] = IF in.ref[j] = NoRef THEN <<>> ELSE <<in.ref[j]>> \o in.payload[j]
            /\ in.ref[j] # NoRef => meta[j] # <<>>
            /\ Framed(meta[j]) => Head(meta[j]) = in.ref[j] /\ Tail(meta[j]) \in Payload
      BY <1>1, <1>6 DEF AssemblyInv, JournalInv
    <3>10. \A j \in Index \ {i} :
            /\ ~handler'.own => meta'[j] = IF in'.ref[j] = NoRef THEN <<>> ELSE <<in'.ref[j]>> \o in'.payload[j]
            /\ in'.ref[j] # NoRef => meta'[j] # <<>>
            /\ Framed(meta'[j]) => Head(meta'[j]) = in'.ref[j] /\ Tail(meta'[j]) \in Payload
      <4> SUFFICES ASSUME NEW j \in Index \ {i}
                   PROVE  /\ ~handler'.own => meta'[j] = IF in'.ref[j] = NoRef THEN <<>> ELSE <<in'.ref[j]>> \o in'.payload[j]
                          /\ in'.ref[j] # NoRef => meta'[j] # <<>>
                          /\ Framed(meta'[j]) => Head(meta'[j]) = in'.ref[j] /\ Tail(meta'[j]) \in Payload
        OBVIOUS
      <4>1. in'.payload[j] = in.payload[j] /\ meta'[j] = meta[j] /\ in'.ref[j] = in.ref[j] /\ handler' = handler
        BY <3>7, <3>8
      <4> QED
        BY <3>9, <4>1
    <3> QED
      BY <3>6, <3>8, <3>10 DEF JournalInv
  <2> QED
    BY <2>3, <2>4, <2>5, <2>6 DEF AssemblyInv
<1> QED
  BY <1>5, <1>6

\* A plugin's own text may spoil a frame, but is none.
LEMMA OwnAppendKeeps ==
  ASSUME AssemblyInv, NEW i \in Index, OwnAppend(i)
  PROVE  AssemblyInv'
<1>1. /\ handler.own /\ handler' = handler /\ in' = in /\ out' = out
      /\ meta' = [meta EXCEPT ![i] = meta[i] \o <<OwnText>>]
  BY DEF OwnAppend, MetaAppend
<1>2. meta \in [Index -> Journal] /\ <<OwnText>> \in Journal
  BY FrameAssumption DEF AssemblyInv, TypeInv, Journal
<1>3. /\ meta[i] \o <<OwnText>> \in Journal
      /\ meta[i] = <<>> => meta[i] \o <<OwnText>> = <<OwnText>>
      /\ meta[i] # <<>> => /\ meta[i] \o <<OwnText>> # <<>> /\ Head(meta[i] \o <<OwnText>>) = Head(meta[i])
                           /\ Tail(meta[i] \o <<OwnText>>) = Tail(meta[i]) \o <<OwnText>>
  BY <1>2, JournalGrows
<1>4. Head(<<OwnText>>) = OwnText /\ OwnText \notin Ref /\ <<OwnText>> # <<>>
  BY FrameAssumption
<1>5. TypeInv'
  BY <1>1, <1>2, <1>3 DEF AssemblyInv, TypeInv
<1>6. StatusInv' /\ BlockInv'
  BY <1>1 DEF AssemblyInv, StatusInv, BlockInv, Ordered, Relayed, Withheld, Delivered, Abandoned
<1>7. JournalInv'
  <2>1. /\ meta'[i] # <<>>
        /\ Framed(meta'[i]) => /\ Framed(meta[i]) /\ Head(meta'[i]) = Head(meta[i])
                               /\ Tail(meta'[i]) = Tail(meta[i]) \o <<OwnText>>
    BY <1>1, <1>2, <1>3, <1>4 DEF Framed
  <2>2. \A j \in Index \ {i} : meta'[j] = meta[j]
    BY <1>1, <1>2
  <2> QED
    <3>1. Tail(meta[i]) \in Payload => Tail(meta[i]) \o <<OwnText>> \in Payload
      BY FrameAssumption, ConcatProperties DEF Payload
    <3> QED
      BY <1>1, <2>1, <2>2, <3>1 DEF AssemblyInv, JournalInv
<1> QED
  BY <1>5, <1>6, <1>7 DEF AssemblyInv

-----------------------------------------------------------------------------
(* The end of a block *)

\* A block emitted in one go opens, carries and closes: the client's stream
\* takes all three events of EmitAssembledToolCall.
LEMMA WholeBlock ==
  ASSUME NEW s \in Stream, NEW i \in Index, NEW r \in Ref, NEW p \in Payload,
         s.status = "open", s.phase[i] = "fresh", s.payload[i] = <<>>, NoneIn(s, {"other"})
  PROVE  /\ ObserveBlock(s, Start(i, r), Delta(i, r.kind, p), Stop(i)) =
              StreamOf([s.phase EXCEPT ![i] = "closed"], [s.ref EXCEPT ![i] = r],
                       [s.payload EXCEPT ![i] = p], s.status, s.ok)
         /\ ObserveBlock(s, Start(i, r), Delta(i, r.kind, p), Stop(i)) \in Stream
<1> DEFINE s1 == Observe(s, Start(i, r))
           s2 == Observe(s1, Delta(i, r.kind, p))
           s3 == Observe(s2, Stop(i))
<1> USE DEF StreamOf
<1>1. r \in Ref \cup {NoRef} /\ r # NoRef /\ Opened(r) = "tool" /\ r.kind \in Kind
  BY IndexAssumption DEF Opened, Ref, NoRef
<1>2. Legal(s, Start(i, r))
  BY <1>1, StartRule
<1>3. /\ s1 = StreamOf([s.phase EXCEPT ![i] = "tool"], [s.ref EXCEPT ![i] = r], s.payload, s.status, s.ok)
      /\ s1 \in Stream
  BY <1>1, <1>2, StartRule
<1>4. s1.status = "open" /\ s1.phase[i] = "tool" /\ s1.ref[i] = r /\ s1.payload[i] = <<>>
  BY <1>3, Typed
<1> HIDE DEF s1
<1>5. Legal(s1, Delta(i, r.kind, p))
  BY <1>1, <1>3, <1>4, DeltaRule
<1>6. /\ s2 = StreamOf(s1.phase, s1.ref, [s1.payload EXCEPT ![i] = s1.payload[i] \o p], s1.status, s1.ok)
      /\ s2 \in Stream
  <2>1. r.kind \in Kind /\ s1 \in Stream /\ Legal(s1, Delta(i, r.kind, p))
    BY <1>1, <1>3, <1>5
  <2>2. /\ Observe(s1, Delta(i, r.kind, p)) =
             StreamOf(s1.phase, s1.ref, [s1.payload EXCEPT ![i] = s1.payload[i] \o p], s1.status, s1.ok)
        /\ Observe(s1, Delta(i, r.kind, p)) \in Stream
    BY <2>1, DeltaRule
  <2> QED
    BY <2>2
<1>7. s1.payload[i] \o p = p
  BY <1>4, ConcatEmptySeq DEF Payload
<1>8. s2.status = "open" /\ s2.phase[i] = "tool"
  BY <1>4, <1>6
<1> HIDE DEF s2
<1>9. Legal(s2, Stop(i))
  BY <1>6, <1>8, StopRule
<1>10. /\ s3 = StreamOf([s2.phase EXCEPT ![i] = "closed"], s2.ref, s2.payload, s2.status, s2.ok)
       /\ s3 \in Stream
  BY <1>6, <1>9, StopRule
<1>11. [s2.phase EXCEPT ![i] = "closed"] = [s.phase EXCEPT ![i] = "closed"]
  BY <1>3, <1>6, Typed
<1>12. s2.ref = [s.ref EXCEPT ![i] = r] /\ s2.payload = [s.payload EXCEPT ![i] = p]
       /\ s2.status = s.status /\ s2.ok = s.ok
  BY <1>3, <1>6, <1>7
<1>13. s3 = StreamOf([s.phase EXCEPT ![i] = "closed"], [s.ref EXCEPT ![i] = r],
                     [s.payload EXCEPT ![i] = p], s.status, s.ok)
  BY <1>10, <1>11, <1>12
<1>14. ObserveBlock(s, Start(i, r), Delta(i, r.kind, p), Stop(i)) = s3
  BY DEF ObserveBlock, s1, s2
<1> QED
  BY <1>10, <1>13, <1>14

\* The reference as EmitAssembledToolCall sends it.
Emitted(call, payload) == [call.ref EXCEPT !.sig = @ /\ payload = call.payload]

\* The signature is kept only together with the payload it signs.
LEMMA EmittedRef ==
  ASSUME NEW call, call.ref \in Ref, NEW payload
  PROVE  /\ Emitted(call, payload) \in Ref
         /\ Emitted(call, payload).kind = call.ref.kind
         /\ payload = call.payload => Emitted(call, payload) = call.ref
         /\ payload # call.payload => Emitted(call, payload) = [call.ref EXCEPT !.sig = FALSE]
         /\ Emitted(call, payload).sig => payload = call.payload
<1>1. call.ref.id \in Index /\ call.ref.kind \in Kind /\ call.ref.sig \in BOOLEAN
  BY DEF Ref
<1>2. Emitted(call, payload) =
        [id |-> call.ref.id, kind |-> call.ref.kind, sig |-> call.ref.sig /\ payload = call.payload]
  BY DEF Emitted, Ref
<1>3. call.ref = [id |-> call.ref.id, kind |-> call.ref.kind, sig |-> call.ref.sig]
  BY DEF Ref
<1>4. (call.ref.sig /\ payload = call.payload) \in BOOLEAN
  OBVIOUS
<1>5. Emitted(call, payload) \in Ref /\ Emitted(call, payload).kind = call.ref.kind
  BY <1>1, <1>2, <1>4 DEF Ref
<1>6. ASSUME payload = call.payload PROVE Emitted(call, payload) = call.ref
  <2>1. (call.ref.sig /\ payload = call.payload) = call.ref.sig
    BY <1>1, <1>6
  <2> QED
    BY <1>2, <1>3, <2>1
<1>7. ASSUME payload # call.payload PROVE Emitted(call, payload) = [call.ref EXCEPT !.sig = FALSE]
  <2>1. (call.ref.sig /\ payload = call.payload) = FALSE
    BY <1>7
  <2>2. Emitted(call, payload) = [id |-> call.ref.id, kind |-> call.ref.kind, sig |-> FALSE]
    BY <1>2, <2>1
  <2>3. PICK no : no = FALSE
    OBVIOUS
  <2>4. \A r \in Ref : [r EXCEPT !.sig = no] = [id |-> r.id, kind |-> r.kind, sig |-> no]
    BY DEF Ref
  <2> QED
    BY <2>2, <2>3, <2>4, Zenon
<1>8. ASSUME payload # call.payload PROVE Emitted(call, payload).sig = FALSE
  <2>1. (call.ref.sig /\ payload = call.payload) = FALSE
    BY <1>8
  <2>2. Emitted(call, payload) = [id |-> call.ref.id, kind |-> call.ref.kind, sig |-> FALSE]
    BY <1>2, <2>1
  <2> QED
    BY <2>2
<1> QED
  BY <1>5, <1>6, <1>7, <1>8

\* What can come of a complete call.
LEMMA Decisions ==
  ASSUME NEW i \in Index, NEW call, NEW a \in Answers, Decide(i, call, a)
  PROVE  Fail \/ Suppress \/ Reemit(i, call, call.payload) \/ \E p \in Replacement : Reemit(i, call, p)
<1>1. a.do = "replace" => a.payload \in Replacement
  BY DEF Answers, Pass, SuppressCall, Error, Replace
<1> QED
  BY <1>1 DEF Decide

\* The end of a block that came through, was withheld, or is now decided.
LEMMA BlockStopKeeps ==
  ASSUME AssemblyInv, NEW i \in Index, NEW a \in Answers, BlockStop(i, a)
  PROVE  AssemblyInv'
<1> USE DEF StreamOf
<1>1. /\ in \in Stream /\ out \in Stream /\ out.status = "open" /\ in.status = "open"
      /\ out.ok /\ Ordered(in)
  BY StopRule DEF AssemblyInv, TypeInv, StatusInv, BlockStop, Sent
<1>2. NoRef \notin Ref /\ NoRef \in Ref \cup {NoRef}
  BY IndexAssumption DEF Ref, NoRef
<1>3. /\ in' \in Stream /\ Ordered(in') /\ handler' = handler /\ meta' = meta
      /\ in'.phase = [in.phase EXCEPT ![i] = "closed"] /\ in'.ref = in.ref
      /\ in'.payload = in.payload /\ in'.status = in.status /\ in.phase[i] \in {"tool", "other"}
  BY <1>1, StopRule, OrderStays DEF BlockStop, Sent
<1>4. /\ in'.phase[i] = "closed"
      /\ \A j \in Index \ {i} : in'.phase[j] = in.phase[j]
      /\ in.ref[i] \in Ref \cup {NoRef} /\ (in.phase[i] = "tool" <=> in.ref[i] \in Ref)
  BY <1>1, <1>2, <1>3, Typed DEF Ordered
<1>5. (in.ref[i] = NoRef => Relayed(i)) /\ (handler.tool /\ in.ref[i] \in Ref => Withheld(i))
  BY <1>1, <1>2, <1>4 DEF AssemblyInv, BlockInv, Relayed, Withheld, Delivered, Abandoned
<1>6. ASSUME /\ out' \in Stream /\ out'.ok /\ (out'.status # "failed" => out'.status = out.status),
             \A j \in Index \ {i} : /\ out'.phase[j] = out.phase[j] /\ out'.ref[j] = out.ref[j]
                                    /\ out'.payload[j] = out.payload[j],
             Relayed(i)' \/ Withheld(i)' \/ Delivered(i)' \/ Abandoned(i)'
      PROVE  AssemblyInv'
  <2>1. TypeInv'
    BY <1>3, <1>6 DEF AssemblyInv, TypeInv
  <2>2. StatusInv'
    BY <1>1, <1>3, <1>6 DEF AssemblyInv, StatusInv
  <2>3. BlockInv'
    BY <1>1, <1>3, <1>4, <1>6 DEF AssemblyInv, BlockInv, Relayed, Withheld, Delivered, Abandoned
  <2>4. JournalInv'
    BY <1>1, <1>3 DEF AssemblyInv, JournalInv, Framed
  <2> QED
    BY <2>1, <2>2, <2>3, <2>4 DEF AssemblyInv
<1>7. CASE Fail /\ handler.tool
  <2>1. /\ out' \in Stream /\ out'.ok /\ out'.status = "failed"
        /\ out'.phase = out.phase /\ out'.ref = out.ref /\ out'.payload = out.payload
    BY <1>1, <1>7 DEF Fail, Stream
  <2>2. CASE in.ref[i] = NoRef
    <3>1. Abandoned(i)'
      BY <1>2, <1>3, <1>4, <1>5, <1>7, <2>1, <2>2 DEF Relayed, Abandoned
    <3> QED
      BY <1>6, <2>1, <3>1
  <2>3. CASE in.ref[i] \in Ref
    BY <1>3, <1>5, <1>6, <1>7, <2>1, <2>3 DEF Withheld
  <2> QED
    BY <1>4, <2>2, <2>3
<1>8. CASE Forward(Stop(i)) /\ (~handler.tool \/ meta[i] = <<>>)
  <2>1. Relayed(i)
    BY <1>1, <1>2, <1>4, <1>5, <1>8 DEF AssemblyInv, BlockInv, JournalInv, Withheld, Delivered, Abandoned
  <2>2. Legal(out, Stop(i))
    BY <1>1, <1>3, <2>1, StopRule DEF Relayed
  <2>3. /\ out' \in Stream /\ out'.ok /\ out'.status = out.status
        /\ out'.phase = [out.phase EXCEPT ![i] = "closed"]
        /\ out'.ref = out.ref /\ out'.payload = out.payload
    BY <1>1, <1>8, <2>2, StopRule DEF Forward
  <2>4. out'.phase[i] = "closed" /\ \A j \in Index \ {i} : out'.phase[j] = out.phase[j]
    BY <1>1, <2>3, Typed
  <2> QED
    BY <1>3, <1>4, <1>6, <2>1, <2>3, <2>4 DEF Relayed
<1>9. CASE handler.tool /\ Framed(meta[i]) /\ Decide(i, Decode(meta[i]), a)
  <2> DEFINE call == Decode(meta[i])
  <2>1. /\ in.ref[i] \in Ref /\ call.ref = in.ref[i] /\ call.payload \in Payload
        /\ ~handler.own => call.payload = in.payload[i]
    <3>1. /\ call.ref = in.ref[i] /\ in.ref[i] \in Ref /\ call.payload = Tail(meta[i])
          /\ call.payload \in Payload
      BY <1>1, <1>9 DEF AssemblyInv, JournalInv, Framed, Decode
    <3>2. ASSUME ~handler.own PROVE Tail(meta[i]) = in.payload[i]
      <4>1. meta[i] = <<in.ref[i]>> \o in.payload[i]
        BY <1>1, <1>2, <1>9, <3>1, <3>2 DEF AssemblyInv, JournalInv
      <4>2. in.payload[i] \in Payload
        BY <1>1, Typed
      <4>3. Tail(<<in.ref[i]>> \o in.payload[i]) = in.payload[i]
        BY <3>1, <4>2, Frames
      <4> QED
        BY <4>1, <4>3
    <3> QED
      BY <3>1, <3>2
  <2> HIDE DEF call
  <2>2. CASE Suppress
    BY <1>1, <1>3, <1>5, <1>6, <1>9, <2>1, <2>2 DEF Suppress, Withheld
  <2>3. ASSUME NEW p \in Payload, Reemit(i, call, p) PROVE AssemblyInv'
    <3> DEFINE r == Emitted(call, p)
    <3>1. r \in Ref /\ r.kind = call.ref.kind /\ (r.sig => p = call.payload /\ r = call.ref)
      BY <2>1, EmittedRef
    <3>2. Withheld(i)
      BY <1>5, <1>9, <2>1
    <3>3. NoneIn(out, {"other"})
      <4>1. \A j \in Index : in.phase[j] # "other"
        BY <1>1, <1>4, <2>1 DEF Ordered
      <4> QED
        BY <1>1, <4>1 DEF AssemblyInv, BlockInv, Relayed, Withheld, Delivered, Abandoned, NoneIn
    <3>4. out' = ObserveBlock(out, Start(i, r), Delta(i, r.kind, p), Stop(i))
      BY <2>3, <3>1 DEF Reemit, Emitted
    <3> HIDE DEF r
    <3>5. /\ out' = StreamOf([out.phase EXCEPT ![i] = "closed"], [out.ref EXCEPT ![i] = r],
                             [out.payload EXCEPT ![i] = p], out.status, out.ok)
          /\ out' \in Stream
      BY <1>1, <3>1, <3>2, <3>3, <3>4, WholeBlock DEF Withheld
    <3>6. /\ out'.ok /\ out'.status = out.status
          /\ out'.phase[i] = "closed" /\ out'.ref[i] = r /\ out'.payload[i] = p
          /\ \A j \in Index \ {i} : /\ out'.phase[j] = out.phase[j] /\ out'.ref[j] = out.ref[j]
                                    /\ out'.payload[j] = out.payload[j]
      BY <1>1, <3>5, Typed
    <3>7. Delivered(i)'
      BY <1>3, <1>4, <1>9, <2>1, <3>1, <3>6 DEF Delivered
    <3> QED
      BY <1>6, <3>5, <3>6, <3>7
  <2> QED
    BY <1>7, <1>9, <2>1, <2>2, <2>3, Decisions, ReplacementAssumption DEF call
<1> QED
  BY <1>7, <1>8, <1>9 DEF BlockStop, MetaRefused

\* Every event, and every write of the plugin of its own, keeps the invariant.
LEMMA StepKeeps == AssemblyInv /\ [Next]_vars => AssemblyInv'
<1> SUFFICES ASSUME AssemblyInv, [Next]_vars PROVE AssemblyInv'
  OBVIOUS
<1>1. CASE UNCHANGED vars
  <2>1. UNCHANGED <<handler, meta, in, out>>
    BY <1>1 DEF vars
  <2>2. TypeInv' /\ StatusInv'
    BY <2>1 DEF AssemblyInv, TypeInv, StatusInv, Ordered
  <2>3. BlockInv' /\ JournalInv'
    BY <2>1 DEF AssemblyInv, BlockInv, Relayed, Withheld, Delivered, Abandoned, JournalInv, Framed
  <2> QED
    BY <2>2, <2>3 DEF AssemblyInv
<1>2. ASSUME NEW i \in Index, OwnAppend(i) PROVE AssemblyInv'
  BY <1>2, OwnAppendKeeps
<1>3. CASE HandleText
  <2>1. Text \in Plain /\ Sent(Text) /\ UNCHANGED meta /\ (Forward(Text) \/ Suppress \/ Fail)
    BY <1>3 DEF HandleText, Plain
  <2> QED
    BY <2>1, PlainKeeps
<1>4. ASSUME NEW e \in {Usage, StreamError, MessageStop}, PassThrough(e) PROVE AssemblyInv'
  <2>1. e \in Plain /\ Sent(e) /\ UNCHANGED meta /\ Forward(e)
    BY <1>4 DEF PassThrough, Plain
  <2> QED
    BY <2>1, PlainKeeps
<1>5. ASSUME NEW i \in Index, PassThrough(Start(i, NoRef)) PROVE AssemblyInv'
  BY <1>5, OtherStartKeeps
<1>6. ASSUME NEW i \in Index, NEW kind \in Kind, NEW sig \in BOOLEAN,
             ToolStart(i, [id |-> i, kind |-> kind, sig |-> sig])
      PROVE  AssemblyInv'
  <2>1. [id |-> i, kind |-> kind, sig |-> sig] \in Ref
    BY DEF Ref
  <2> QED
    BY <1>6, <2>1, ToolStartKeeps
<1>7. ASSUME NEW i \in Index, NEW kind \in Kind, NEW payload \in {<<>>} \cup {<<f>> : f \in Fragment},
             ToolDelta(i, kind, payload)
      PROVE  AssemblyInv'
  <2>1. <<>> \in Payload /\ \A f \in Fragment : <<f>> \in Payload
    BY DEF Payload
  <2>2. payload \in Payload
    BY <2>1
  <2> QED
    BY <1>7, <2>2, ToolDeltaKeeps
<1>8. ASSUME NEW i \in Index, NEW a \in Answers, BlockStop(i, a) PROVE AssemblyInv'
  BY <1>8, BlockStopKeeps
<1> QED
  BY <1>1, <1>2, <1>3, <1>4, <1>5, <1>6, <1>7, <1>8 DEF Next

\* The journals, the client's stream and the provider's stay in step.
THEOREM AssemblyHolds == Spec => []AssemblyInv
<1> QED
  BY InitInv, StepKeeps, PTL DEF Spec

\* Whatever the plugin decides and however tool calls overlap, the client's
\* stream obeys the block rules of the ABI.
THEOREM AssemblyOutputWellFormed == Spec => []OutputWellFormed
<1>1. AssemblyInv => OutputWellFormed
  BY DEF AssemblyInv, StatusInv, OutputWellFormed
<1> QED
  BY <1>1, AssemblyHolds, PTL

\* With a tool callback no tool call is ever open at the client: it gets the
\* whole call or nothing of it, also when the stream ends in between.
THEOREM AssemblyNoPartialCall == Spec => []NoPartialCall
<1>1. AssemblyInv => NoPartialCall
  <2> SUFFICES ASSUME AssemblyInv, handler.tool, NEW i \in Index PROVE out.phase[i] # "tool"
    BY DEF NoPartialCall
  <2>1. NoRef \notin Ref
    BY IndexAssumption DEF Ref, NoRef
  <2> QED
    BY <2>1 DEF AssemblyInv, StatusInv, BlockInv, Ordered, Relayed, Withheld, Delivered, Abandoned
<1> QED
  BY <1>1, AssemblyHolds, PTL

\* A signature that reaches the client signs the call the provider sent.
THEOREM AssemblySignatureBindsCall == Spec => []SignatureBindsCall
<1>1. AssemblyInv => SignatureBindsCall
  <2> SUFFICES ASSUME AssemblyInv, ~handler.own, NEW i \in Index, out.ref[i].sig, out.phase[i] = "closed"
               PROVE  out.ref[i] = in.ref[i] /\ out.payload[i] = in.payload[i]
    BY DEF SignatureBindsCall
  <2> QED
    BY DEF AssemblyInv, BlockInv, Relayed, Withheld, Delivered, Abandoned
<1> QED
  BY <1>1, AssemblyHolds, PTL

\* The journal of a buffered block is the frame of what the provider has sent.
THEOREM AssemblyJournalIsFrame == Spec => []JournalIsFrame
<1>1. AssemblyInv => JournalIsFrame
  BY DEF AssemblyInv, JournalInv, JournalIsFrame
<1> QED
  BY <1>1, AssemblyHolds, PTL

-----------------------------------------------------------------------------
(* Every step of the assembly is a step of ToolCallDelivery or none at all. *)

\* The abstract module has the references and payloads of this one.
LEMMA SameWords == Delivery!Ref = Ref /\ Delivery!NoRef = NoRef /\ Delivery!Payload = Payload
BY DEF Delivery!Ref, Ref, Delivery!Kind, Kind, Delivery!NoRef, NoRef, Delivery!Payload, Payload

\* The ways a block can go on, one by one.
LEMMA WaysOn ==
  ASSUME NEW b
  PROVE  /\ b.phase = "fresh" => /\ \A r \in Ref : Delivery!Block("tool", r, b.payload) \in Delivery!Further(b)
                                 /\ Delivery!Block("other", b.ref, b.payload) \in Delivery!Further(b)
         /\ b.phase = "tool" => \A p \in Delivery!Piece :
              Delivery!Block("tool", b.ref, b.payload \o p) \in Delivery!Further(b)
         /\ b.phase \in {"tool", "other"} => Delivery!Block("closed", b.ref, b.payload) \in Delivery!Further(b)
<1>1. ASSUME b.phase = "fresh"
      PROVE  /\ \A r \in Ref : Delivery!Block("tool", r, b.payload) \in Delivery!Further(b)
             /\ Delivery!Block("other", b.ref, b.payload) \in Delivery!Further(b)
  <2>1. /\ \A r \in Delivery!Ref : Delivery!Block("tool", r, b.payload) \in Delivery!Further(b)
        /\ Delivery!Block("other", b.ref, b.payload) \in Delivery!Further(b)
    BY <1>1 DEF Delivery!Further
  <2> QED
    BY <2>1, SameWords
<1>2. b.phase = "tool" => \A p \in Delivery!Piece :
        Delivery!Block("tool", b.ref, b.payload \o p) \in Delivery!Further(b)
  BY DEF Delivery!Further
<1>3. b.phase \in {"tool", "other"} => Delivery!Block("closed", b.ref, b.payload) \in Delivery!Further(b)
  BY DEF Delivery!Further
<1> QED
  BY <1>1, <1>2, <1>3

\* A block of a stream, as the client sees it.
At(s, i) == Delivery!Block(s.phase[i], s.ref[i], s.payload[i])

\* t is s but for block i, which is b.
OnlyBlock(s, t, i, b) == At(t, i) = b /\ \A j \in Index \ {i} : At(t, j) = At(s, j)

\* What the client sees, block by block, before a step
LEMMA SeenBlocks ==
  ASSUME ~handler.own
  PROVE  /\ Seen(in) = [i \in Index |-> At(in, i)]
         /\ Seen(out) = [i \in Index |-> At(out, i)]
BY DEF Seen, At, Delivery!Block

\* and after it.
LEMMA SeenNext ==
  ASSUME ~handler.own, handler' = handler
  PROVE  /\ Seen(in)' = [i \in Index |-> At(in, i)']
         /\ Seen(out)' = [i \in Index |-> At(out, i)']
         /\ \A i \in Index : \A b : OnlyBlock(in, in', i, b) => Seen(in)' = [Seen(in) EXCEPT ![i] = b]
         /\ \A i \in Index : \A b : OnlyBlock(out, out', i, b) => Seen(out)' = [Seen(out) EXCEPT ![i] = b]
<1>1. Seen(in)' = [i \in Index |-> At(in, i)'] /\ Seen(out)' = [i \in Index |-> At(out, i)']
  BY DEF Seen, At, Delivery!Block
<1>2. ASSUME NEW i \in Index, NEW b, OnlyBlock(in, in', i, b) PROVE Seen(in)' = [Seen(in) EXCEPT ![i] = b]
  <2>1. \A j \in Index : At(in, j)' = At(in', j)
    BY DEF At
  <2> QED
    BY <1>1, <1>2, <2>1, SeenBlocks DEF OnlyBlock
<1>3. ASSUME NEW i \in Index, NEW b, OnlyBlock(out, out', i, b) PROVE Seen(out)' = [Seen(out) EXCEPT ![i] = b]
  <2>1. \A j \in Index : At(out, j)' = At(out', j)
    BY DEF At
  <2> QED
    BY <1>1, <1>3, <2>1, SeenBlocks DEF OnlyBlock
<1> QED
  BY <1>1, <1>2, <1>3

\* An event of a block touches no other block.
LEMMA OwnBlock ==
  ASSUME NEW s \in Stream, NEW i \in Index
  PROVE  /\ \A r \in Ref \cup {NoRef} : Legal(s, Start(i, r)) =>
              OnlyBlock(s, Observe(s, Start(i, r)), i, Delivery!Block(Opened(r), r, s.payload[i]))
         /\ \A k \in Kind, p \in Payload : Legal(s, Delta(i, k, p)) =>
              OnlyBlock(s, Observe(s, Delta(i, k, p)), i, Delivery!Block(s.phase[i], s.ref[i], s.payload[i] \o p))
         /\ Legal(s, Stop(i)) =>
              OnlyBlock(s, Observe(s, Stop(i)), i, Delivery!Block("closed", s.ref[i], s.payload[i]))
<1> USE DEF StreamOf, OnlyBlock, At
<1>1. ASSUME NEW r \in Ref \cup {NoRef}, Legal(s, Start(i, r))
      PROVE  OnlyBlock(s, Observe(s, Start(i, r)), i, Delivery!Block(Opened(r), r, s.payload[i]))
  <2>1. Observe(s, Start(i, r)) = StreamOf([s.phase EXCEPT ![i] = Opened(r)],
                                   [s.ref EXCEPT ![i] = r], s.payload, s.status, s.ok)
    BY <1>1, StartRule
  <2> QED
    BY <2>1, Typed
<1>2. ASSUME NEW k \in Kind, NEW p \in Payload, Legal(s, Delta(i, k, p))
      PROVE  OnlyBlock(s, Observe(s, Delta(i, k, p)), i,
                       Delivery!Block(s.phase[i], s.ref[i], s.payload[i] \o p))
  <2>1. Observe(s, Delta(i, k, p)) =
          StreamOf(s.phase, s.ref, [s.payload EXCEPT ![i] = s.payload[i] \o p], s.status, s.ok)
    BY <1>2, DeltaRule
  <2> QED
    BY <2>1, Typed
<1>3. ASSUME Legal(s, Stop(i))
      PROVE  OnlyBlock(s, Observe(s, Stop(i)), i, Delivery!Block("closed", s.ref[i], s.payload[i]))
  <2>1. Observe(s, Stop(i)) = StreamOf([s.phase EXCEPT ![i] = "closed"], s.ref, s.payload, s.status, s.ok)
    BY <1>3, StopRule
  <2> QED
    BY <2>1, Typed
<1> QED
  BY <1>1, <1>2, <1>3

\* What is forwarded is legal at the client: the stream stays well-formed.
LEMMA Forwarded ==
  ASSUME AssemblyInv, AssemblyInv', NEW e, Forward(e)
  PROVE  Legal(out, e) /\ out' = Observe(out, e)
BY DEF Forward, Observe, AssemblyInv, TypeInv, StatusInv, Stream

\* A block that both sides see alike goes on alike.
LEMMA RelayRefines ==
  ASSUME ~handler.own, handler' = handler, out.status # "failed", out'.status # "failed",
         NEW i \in Index, At(out, i) = At(in, i),
         NEW b \in Delivery!Further(At(in, i)), handler.tool => b.ref = NoRef,
         OnlyBlock(in, in', i, b), OnlyBlock(out, out', i, b)
  PROVE  Delivery!Relay(i)
<1>1. Seen(in)[i] = At(in, i) /\ Seen(out)[i] = At(in, i)
  BY SeenBlocks
<1>2. Seen(in)' = [Seen(in) EXCEPT ![i] = b] /\ Seen(out)' = [Seen(out) EXCEPT ![i] = b]
  BY SeenNext
<1> QED
  BY <1>1, <1>2, SameWords DEF Delivery!Relay

\* The client hears nothing of it.
LEMMA WithholdRefines ==
  ASSUME ~handler.own, handler.tool, handler' = handler, out.status # "failed",
         NEW i \in Index, NEW b \in Delivery!Further(At(in, i)),
         out'.status = "failed" \/ b.ref # NoRef,
         OnlyBlock(in, in', i, b), \A j \in Index : At(out', j) = At(out, j)
  PROVE  Delivery!Withhold(i)
<1>1. Seen(in)[i] = At(in, i)
  BY SeenBlocks
<1>2. Seen(in)' = [Seen(in) EXCEPT ![i] = b]
  BY SeenNext
<1>3. Seen(out)' = Seen(out)
  <2>1. \A j \in Index : At(out, j)' = At(out, j)
    BY DEF At
  <2> QED
    BY <2>1, SeenBlocks, SeenNext
<1> QED
  BY <1>1, <1>2, <1>3, SameWords DEF Delivery!Withhold

\* A complete call reaches the client in one piece.
LEMMA DeliverRefines ==
  ASSUME ~handler.own, handler.tool, handler' = handler, out.status # "failed", out'.status # "failed",
         NEW i \in Index, in.phase[i] = "tool", NEW r, NEW p,
         \/ r = in.ref[i] /\ p = in.payload[i]
         \/ r = [in.ref[i] EXCEPT !.sig = FALSE] /\ p \in Replacement,
         OnlyBlock(in, in', i, Delivery!Block("closed", in.ref[i], in.payload[i])),
         OnlyBlock(out, out', i, Delivery!Block("closed", r, p))
  PROVE  Delivery!Deliver(i)
<1>1. Seen(in)[i] = At(in, i)
  BY SeenBlocks
<1>2. At(in, i).phase = "tool" /\ At(in, i).ref = in.ref[i] /\ At(in, i).payload = in.payload[i]
  BY DEF At, Delivery!Block
<1>3. /\ Seen(in)' = [Seen(in) EXCEPT ![i] = Delivery!Block("closed", in.ref[i], in.payload[i])]
      /\ Seen(out)' = [Seen(out) EXCEPT ![i] = Delivery!Block("closed", r, p)]
  BY SeenNext
<1>4. /\ Seen(in)[i].phase = "tool" /\ Seen(in)[i].ref = in.ref[i] /\ Seen(in)[i].payload = in.payload[i]
  BY <1>1, <1>2
<1> DEFINE whole == Delivery!Block("closed", in.ref[i], in.payload[i])
           other(q) == Delivery!Block("closed", [in.ref[i] EXCEPT !.sig = FALSE], q)
<1>5. \/ Seen(out)' = [Seen(out) EXCEPT ![i] = whole]
      \/ \E q \in Replacement : Seen(out)' = [Seen(out) EXCEPT ![i] = other(q)]
  BY <1>3
<1>6. ~(~handler.own /\ out.status = "failed") /\ ~(~handler.own /\ out.status = "failed")'
  OBVIOUS
<1> QED
  BY <1>3, <1>4, <1>5, <1>6, Zenon DEF Delivery!Deliver

\* An event of no block is seen only when the plugin fails on it.
LEMMA CutRefines ==
  ASSUME ~handler.own, handler' = handler, out.status # "failed",
         \A j \in Index : At(in', j) = At(in, j) /\ At(out', j) = At(out, j)
  PROVE  Delivery!Cut \/ UNCHANGED Delivery!vars
<1>1. Seen(out)' = Seen(out) /\ Seen(in)' = Seen(in)
  <2>1. \A j \in Index : At(out, j)' = At(out, j) /\ At(in, j)' = At(in, j)
    BY DEF At
  <2> QED
    BY <2>1, SeenBlocks, SeenNext
<1> QED
  BY <1>1 DEF Delivery!Cut, Delivery!vars

\* A plugin that writes into journals itself shows nothing.
LEMMA OwnRefines ==
  ASSUME handler.own, handler' = handler
  PROVE  UNCHANGED Delivery!vars
BY DEF Seen, Delivery!vars

\* Without a callback the client stays with the provider.
LEMMA ForwardRefines ==
  ASSUME AssemblyInv, AssemblyInv', ~handler.tool, handler' = handler, out.status # "failed", out'.status # "failed",
         NEW i \in Index, NEW b \in Delivery!Further(At(in, i)), OnlyBlock(in, in', i, b)
  PROVE  Delivery!Relay(i)
<1>1. \A j \in Index : At(out, j) = At(in, j)
  BY WithoutCallback DEF At
<1>2. \A j \in Index : Relayed(j)'
  BY DEF AssemblyInv, BlockInv, Withheld, Delivered, Abandoned
<1>3. \A j \in Index : At(out', j) = At(in', j)
  BY <1>2 DEF Relayed, At
<1>4. OnlyBlock(out, out', i, b)
  BY <1>1, <1>3 DEF OnlyBlock
<1>5. ~handler.own
  BY DEF AssemblyInv, StatusInv
<1> QED
  BY <1>1, <1>4, <1>5, RelayRefines

\* An event of no block is no step, or the end of the stream.
LEMMA PlainRefines ==
  ASSUME AssemblyInv, AssemblyInv', ~handler.own, NEW e \in Plain, Sent(e),
         Forward(e) \/ Suppress \/ Fail
  PROVE  Delivery!Cut \/ UNCHANGED Delivery!vars
<1> USE DEF StreamOf
<1>1. in \in Stream /\ out \in Stream /\ out.status # "failed" /\ handler' = handler
  BY DEF AssemblyInv, TypeInv, Sent
<1>2. in'.phase = in.phase /\ in'.ref = in.ref /\ in'.payload = in.payload
  BY <1>1, PlainRule DEF Sent
<1>3. out'.phase = out.phase /\ out'.ref = out.ref /\ out'.payload = out.payload
  <2>1. CASE Forward(e)
    <3>1. Legal(out, e) /\ out' = Observe(out, e)
      BY <2>1, Forwarded
    <3> QED
      BY <1>1, <3>1, PlainRule
  <2>2. CASE Suppress \/ Fail
    BY <1>1, <2>2 DEF Suppress, Fail, Stream
  <2> QED
    BY <2>1, <2>2
<1> QED
  BY <1>1, <1>2, <1>3, CutRefines DEF At

\* The start of another block is relayed.
LEMMA OtherStartRefines ==
  ASSUME AssemblyInv, AssemblyInv', ~handler.own, NEW i \in Index, PassThrough(Start(i, NoRef))
  PROVE  Delivery!Relay(i)
<1> USE DEF StreamOf
<1>1. in \in Stream /\ out \in Stream /\ out.status # "failed" /\ handler' = handler /\ Ordered(in)
  BY DEF AssemblyInv, TypeInv, StatusInv, PassThrough, Sent
<1>2. NoRef \in Ref \cup {NoRef} /\ NoRef \notin Ref /\ Opened(NoRef) = "other"
  BY IndexAssumption DEF Ref, NoRef, Opened
<1>3. Legal(in, Start(i, NoRef)) /\ in' = Observe(in, Start(i, NoRef))
  BY DEF PassThrough, Sent
<1>4. Legal(out, Start(i, NoRef)) /\ out' = Observe(out, Start(i, NoRef))
  BY Forwarded DEF PassThrough
<1>5. in.phase[i] = "fresh" /\ in.ref[i] = NoRef
  BY <1>1, <1>2, <1>3, StartRule DEF Ordered
<1>6. At(out, i) = At(in, i)
  BY <1>1, <1>2, <1>5 DEF AssemblyInv, BlockInv, Relayed, Withheld, Delivered, Abandoned, At
<1> DEFINE b == Delivery!Block("other", NoRef, in.payload[i])
<1>7. /\ At(in, i).phase = "fresh" /\ At(in, i).ref = NoRef /\ At(in, i).payload = in.payload[i]
      /\ out.payload[i] = in.payload[i] /\ b.ref = NoRef
  BY <1>5, <1>6 DEF At, Delivery!Block
<1>8. b \in Delivery!Further(At(in, i))
  BY <1>7, WaysOn
<1>9. OnlyBlock(in, in', i, b) /\ OnlyBlock(out, out', i, b)
  BY <1>1, <1>2, <1>3, <1>4, <1>7, OwnBlock
<1>10. out'.status # "failed"
  BY <1>1, <1>2, <1>4, StartRule
<1> HIDE DEF b
<1> QED
  BY <1>1, <1>6, <1>7, <1>8, <1>9, <1>10, RelayRefines

\* The start of a tool call is relayed without a callback and withheld with one,
LEMMA ToolStartRefines ==
  ASSUME AssemblyInv, AssemblyInv', ~handler.own, NEW i \in Index, NEW r \in Ref, ToolStart(i, r)
  PROVE  Delivery!Relay(i) \/ Delivery!Withhold(i)
<1> USE DEF StreamOf
<1>1. in \in Stream /\ out \in Stream /\ out.status # "failed" /\ handler' = handler
  BY DEF AssemblyInv, TypeInv, ToolStart, Sent
<1>2. r \in Ref \cup {NoRef} /\ r # NoRef /\ Opened(r) = "tool"
  BY IndexAssumption DEF Ref, NoRef, Opened
<1>3. Legal(in, Start(i, r)) /\ in' = Observe(in, Start(i, r))
  BY DEF ToolStart, Sent
<1> DEFINE b == Delivery!Block("tool", r, in.payload[i])
<1>4. OnlyBlock(in, in', i, b)
  BY <1>1, <1>2, <1>3, OwnBlock
<1>5. b \in Delivery!Further(At(in, i)) /\ b.ref = r
  <2>1. At(in, i).phase = "fresh" /\ At(in, i).payload = in.payload[i]
    BY <1>1, <1>2, <1>3, StartRule DEF At, Delivery!Block
  <2> QED
    BY <2>1, WaysOn DEF Delivery!Block
<1> HIDE DEF b
<1>6. CASE ~handler.tool
  <2>1. Legal(out, Start(i, r)) /\ out' = Observe(out, Start(i, r))
    BY <1>6, Forwarded DEF ToolStart
  <2>2. out'.status # "failed"
    BY <1>1, <1>2, <2>1, StartRule
  <2> QED
    BY <1>1, <1>4, <1>5, <1>6, <2>2, ForwardRefines
<1>7. CASE handler.tool
  <2>1. out'.phase = out.phase /\ out'.ref = out.ref /\ out'.payload = out.payload
    BY <1>1, <1>7 DEF ToolStart, Suppress, MetaRefused, Fail, Stream
  <2>2. \A j \in Index : At(out', j) = At(out, j)
    BY <2>1 DEF At
  <2> QED
    BY <1>1, <1>2, <1>4, <1>5, <1>7, <2>2, WithholdRefines
<1> QED
  BY <1>6, <1>7

\* and so is a fragment of it.
LEMMA ToolDeltaRefines ==
  ASSUME AssemblyInv, AssemblyInv', ~handler.own, NEW i \in Index, NEW k \in Kind,
         NEW p \in Delivery!Piece, p \in Payload, ToolDelta(i, k, p)
  PROVE  Delivery!Relay(i) \/ Delivery!Withhold(i)
<1> USE DEF StreamOf
<1>1. in \in Stream /\ out \in Stream /\ out.status # "failed" /\ handler' = handler /\ Ordered(in)
  BY DEF AssemblyInv, TypeInv, StatusInv, ToolDelta, Sent
<1>2. NoRef \notin Ref
  BY IndexAssumption DEF Ref, NoRef
<1>3. Legal(in, Delta(i, k, p)) /\ in' = Observe(in, Delta(i, k, p))
  BY DEF ToolDelta, Sent
<1>4. in.phase[i] = "tool" /\ in.ref[i] \in Ref
  BY <1>1, <1>3, DeltaRule DEF Ordered
<1> DEFINE b == Delivery!Block("tool", in.ref[i], in.payload[i] \o p)
<1>5. OnlyBlock(in, in', i, b)
  BY <1>1, <1>3, <1>4, OwnBlock
<1>6. b \in Delivery!Further(At(in, i)) /\ b.ref = in.ref[i]
  <2>1. At(in, i).phase = "tool" /\ At(in, i).payload = in.payload[i] /\ At(in, i).ref = in.ref[i]
    BY <1>4 DEF At, Delivery!Block
  <2> QED
    BY <2>1, WaysOn DEF Delivery!Block
<1> HIDE DEF b
<1>7. CASE ~handler.tool
  <2>1. Legal(out, Delta(i, k, p)) /\ out' = Observe(out, Delta(i, k, p))
    BY <1>7, Forwarded DEF ToolDelta
  <2>2. out'.status # "failed"
    BY <1>1, <2>1, DeltaRule
  <2> QED
    BY <1>1, <1>5, <1>6, <1>7, <2>2, ForwardRefines
<1>8. CASE handler.tool
  <2>1. out'.phase = out.phase /\ out'.ref = out.ref /\ out'.payload = out.payload
    BY <1>1, <1>8 DEF ToolDelta, Suppress, MetaRefused, Fail, Stream
  <2>2. \A j \in Index : At(out', j) = At(out, j)
    BY <2>1 DEF At
  <2> QED
    BY <1>1, <1>2, <1>4, <1>5, <1>6, <1>8, <2>2, WithholdRefines
<1> QED
  BY <1>7, <1>8

\* The end of a block is relayed, withheld, or delivers the call.
LEMMA BlockStopRefines ==
  ASSUME AssemblyInv, AssemblyInv', ~handler.own, NEW i \in Index, NEW a \in Answers, BlockStop(i, a)
  PROVE  Delivery!Relay(i) \/ Delivery!Withhold(i) \/ Delivery!Deliver(i)
<1> USE DEF StreamOf
<1>1. /\ in \in Stream /\ out \in Stream /\ out.status = "open" /\ in.status = "open"
      /\ handler' = handler /\ Ordered(in)
  BY StopRule DEF AssemblyInv, TypeInv, StatusInv, BlockStop, Sent
<1>2. NoRef \notin Ref
  BY IndexAssumption DEF Ref, NoRef
<1>3. Legal(in, Stop(i)) /\ in' = Observe(in, Stop(i))
  BY DEF BlockStop, Sent
<1> DEFINE b == Delivery!Block("closed", in.ref[i], in.payload[i])
<1>4. OnlyBlock(in, in', i, b)
  BY <1>1, <1>3, OwnBlock
<1>5. in.phase[i] \in {"tool", "other"} /\ in.ref[i] \in Ref \cup {NoRef}
      /\ (in.phase[i] = "tool" <=> in.ref[i] \in Ref)
  BY <1>1, <1>2, <1>3, StopRule, Typed DEF Ordered
<1>6. b \in Delivery!Further(At(in, i)) /\ b.ref = in.ref[i]
  <2>1. At(in, i).phase = in.phase[i] /\ At(in, i).payload = in.payload[i] /\ At(in, i).ref = in.ref[i]
    BY DEF At, Delivery!Block
  <2> QED
    BY <1>5, <2>1, WaysOn DEF Delivery!Block
<1>7. CASE Fail /\ handler.tool
  <2>1. out'.status = "failed" /\ out'.phase = out.phase /\ out'.ref = out.ref /\ out'.payload = out.payload
    BY <1>1, <1>7 DEF Fail, Stream
  <2>2. \A j \in Index : At(out', j) = At(out, j)
    BY <2>1 DEF At
  <2> HIDE DEF b
  <2> QED
    BY <1>1, <1>4, <1>6, <1>7, <2>1, <2>2, WithholdRefines
<1>8. CASE Forward(Stop(i)) /\ (~handler.tool \/ meta[i] = <<>>)
  <2>1. Legal(out, Stop(i)) /\ out' = Observe(out, Stop(i))
    BY <1>8, Forwarded
  <2>2. out'.status # "failed"
    BY <1>1, <2>1, StopRule
  <2>3. Relayed(i) /\ (handler.tool => in.ref[i] = NoRef)
    BY <1>1, <1>2, <1>5, <1>8 DEF AssemblyInv, BlockInv, JournalInv, Relayed, Withheld, Delivered, Abandoned
  <2>4. At(out, i) = At(in, i) /\ out.ref[i] = in.ref[i] /\ out.payload[i] = in.payload[i]
    BY <2>3 DEF Relayed, At
  <2>5. OnlyBlock(out, out', i, b)
    BY <1>1, <2>1, <2>4, OwnBlock
  <2> HIDE DEF b
  <2> QED
    BY <1>1, <1>4, <1>6, <2>2, <2>3, <2>4, <2>5, RelayRefines
<1>9. CASE handler.tool /\ Framed(meta[i]) /\ Decide(i, Decode(meta[i]), a)
  <2> DEFINE call == Decode(meta[i])
  <2>1. /\ in.ref[i] \in Ref /\ in.payload[i] \in Payload
        /\ call.ref = in.ref[i] /\ call.payload = in.payload[i]
    <3>1. call.ref = in.ref[i] /\ in.ref[i] \in Ref /\ call.payload = Tail(meta[i])
      BY <1>1, <1>9 DEF AssemblyInv, JournalInv, Framed, Decode
    <3>2. in.payload[i] \in Payload /\ meta[i] = <<in.ref[i]>> \o in.payload[i]
      BY <1>1, <1>2, <1>9, <3>1, Typed DEF AssemblyInv, JournalInv
    <3>3. Tail(<<in.ref[i]>> \o in.payload[i]) = in.payload[i]
      BY <3>1, <3>2, Frames
    <3> QED
      BY <3>1, <3>2, <3>3
  <2> HIDE DEF call
  <2>2. CASE Suppress
    <3>1. \A j \in Index : At(out', j) = At(out, j)
      BY <2>2 DEF Suppress, At
    <3>2. in.ref[i] # NoRef
      BY <1>2, <2>1
    <3> HIDE DEF b
    <3> QED
      BY <1>1, <1>4, <1>6, <1>9, <3>1, <3>2, WithholdRefines
  <2>3. ASSUME NEW p \in Payload, Reemit(i, call, p), p = call.payload \/ p \in Replacement
        PROVE  Delivery!Deliver(i)
    <3> DEFINE r == Emitted(call, p)
    <3>1. /\ r \in Ref /\ r.kind = call.ref.kind
          /\ p = call.payload => r = call.ref
          /\ p # call.payload => r = [call.ref EXCEPT !.sig = FALSE]
      BY <2>1, EmittedRef
    <3>2. Withheld(i) /\ in.phase[i] = "tool"
      BY <1>1, <1>2, <1>5, <1>9, <2>1 DEF AssemblyInv, BlockInv, Relayed, Delivered, Abandoned
    <3>3. NoneIn(out, {"other"})
      <4>1. \A j \in Index : in.phase[j] # "other"
        BY <1>1, <3>2 DEF Ordered
      <4> QED
        BY <1>1, <4>1 DEF AssemblyInv, BlockInv, Relayed, Withheld, Delivered, Abandoned, NoneIn
    <3>4. out' = ObserveBlock(out, Start(i, r), Delta(i, r.kind, p), Stop(i))
      BY <2>3, <3>1 DEF Reemit, Emitted
    <3>5. \/ r = in.ref[i] /\ p = in.payload[i]
          \/ r = [in.ref[i] EXCEPT !.sig = FALSE] /\ p \in Replacement
      <4>1. CASE p = call.payload
        BY <2>1, <3>1, <4>1
      <4>2. CASE p # call.payload
        <5>1. r = [in.ref[i] EXCEPT !.sig = FALSE]
          BY <2>1, <3>1, <4>2, Zenon
        <5> QED
          BY <2>3, <4>2, <5>1, Zenon
      <4> QED
        BY <4>1, <4>2, Zenon
    <3> HIDE DEF r
    <3>6. /\ out' = StreamOf([out.phase EXCEPT ![i] = "closed"], [out.ref EXCEPT ![i] = r],
                             [out.payload EXCEPT ![i] = p], out.status, out.ok)
          /\ out' \in Stream
      BY <1>1, <3>1, <3>2, <3>3, <3>4, WholeBlock DEF Withheld
    <3>7. /\ out'.status # "failed"
          /\ OnlyBlock(out, out', i, Delivery!Block("closed", r, p))
      BY <1>1, <3>6, Typed DEF OnlyBlock, At
    <3> QED
      BY <1>1, <1>4, <1>9, <3>2, <3>5, <3>7, DeliverRefines
  <2> QED
    <3>1. call.payload \in Payload
      BY <2>1
    <3> QED
      BY <1>7, <1>9, <2>2, <2>3, <3>1, Decisions, ReplacementAssumption DEF call
<1> QED
  BY <1>7, <1>8, <1>9 DEF BlockStop, MetaRefused

\* So every step is one of ToolCallDelivery, or changes nothing there.
LEMMA StepRefines == AssemblyInv /\ AssemblyInv' /\ [Next]_vars => [Delivery!Next]_(Delivery!vars)
<1> SUFFICES ASSUME AssemblyInv, AssemblyInv', [Next]_vars
             PROVE  Delivery!Next \/ UNCHANGED Delivery!vars
  OBVIOUS
<1> USE DEF Delivery!Next
<1>1. CASE UNCHANGED vars
  BY <1>1 DEF vars, Delivery!vars, Seen
<1>2. CASE handler.own
  <2>1. handler' = handler
    BY DEF Next, vars, OwnAppend, HandleText, PassThrough, ToolStart, ToolDelta, BlockStop, Sent
  <2> QED
    BY <1>2, <2>1, OwnRefines
<1>3. CASE ~handler.own /\ Next
  <2>1. ~(\E i \in Index : OwnAppend(i))
    BY <1>3 DEF OwnAppend
  <2>2. CASE HandleText
    <3>1. Text \in Plain /\ Sent(Text) /\ (Forward(Text) \/ Suppress \/ Fail)
      BY <2>2 DEF HandleText, Plain
    <3> QED
      BY <1>3, <3>1, PlainRefines
  <2>3. ASSUME NEW e \in {Usage, StreamError, MessageStop}, PassThrough(e)
        PROVE  Delivery!Next \/ UNCHANGED Delivery!vars
    <3>1. e \in Plain /\ Sent(e) /\ Forward(e)
      BY <2>3 DEF PassThrough, Plain
    <3> QED
      BY <1>3, <3>1, PlainRefines
  <2>4. ASSUME NEW i \in Index, PassThrough(Start(i, NoRef)) PROVE Delivery!Relay(i)
    BY <1>3, <2>4, OtherStartRefines
  <2>5. ASSUME NEW i \in Index, NEW kind \in Kind, NEW sig \in BOOLEAN,
               ToolStart(i, [id |-> i, kind |-> kind, sig |-> sig])
        PROVE  Delivery!Relay(i) \/ Delivery!Withhold(i)
    <3>1. [id |-> i, kind |-> kind, sig |-> sig] \in Ref
      BY DEF Ref
    <3> QED
      BY <1>3, <2>5, <3>1, ToolStartRefines
  <2>6. ASSUME NEW i \in Index, NEW kind \in Kind, NEW payload \in {<<>>} \cup {<<f>> : f \in Fragment},
               ToolDelta(i, kind, payload)
        PROVE  Delivery!Relay(i) \/ Delivery!Withhold(i)
    <3>1. payload \in Delivery!Piece
      BY DEF Delivery!Piece
    <3>2. <<>> \in Payload /\ \A f \in Fragment : <<f>> \in Payload
      BY DEF Payload
    <3>3. payload \in Payload
      BY <3>2
    <3> QED
      BY <1>3, <2>6, <3>1, <3>3, ToolDeltaRefines
  <2>7. ASSUME NEW i \in Index, NEW a \in Answers, BlockStop(i, a)
        PROVE  Delivery!Relay(i) \/ Delivery!Withhold(i) \/ Delivery!Deliver(i)
    BY <1>3, <2>7, BlockStopRefines
  <2> QED
    BY <1>3, <2>1, <2>2, <2>3, <2>4, <2>5, <2>6, <2>7 DEF Next
<1> QED
  BY <1>1, <1>2, <1>3

\* Buffering is invisible: the hook implements ToolCallDelivery.
THEOREM AssemblyDeliversWhole == Spec => DeliversWhole
<1>1. Init => Delivery!Init
  BY DEF Init, Delivery!Init, Delivery!Blank, Delivery!Block, Seen, EmptyStream, NoRef, Delivery!NoRef, Handler
<1>2. AssemblyInv /\ AssemblyInv' /\ [Next]_vars => [Delivery!Next]_(Delivery!vars)
  BY StepRefines
<1> QED
  BY <1>1, <1>2, AssemblyHolds, PTL DEF Spec, DeliversWhole, Delivery!Spec
=============================================================================
