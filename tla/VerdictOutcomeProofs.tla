------------------------ MODULE VerdictOutcomeProofs ------------------------
(***************************************************************************)
(* Proofs about the bookkeeping of host calls, for any requests and any    *)
(* number of calls.  finalize finds the copies of a decided entry by index *)
(* in four lists; that this is enough rests on three facts which no line   *)
(* of the code states: an entry's index is its place in h.calls, the       *)
(* entries of a request are in that order, and no two requests share one.  *)
(***************************************************************************)
EXTENDS VerdictOutcome, SequenceTheorems, FiniteSetTheorems, WellFoundedInduction, TLAPS

Entry == [cmd : Command, index : Nat, effective : BOOLEAN]
List == Seq(Entry)

TypeInv ==
  /\ calls \in List /\ accepted \in List
  /\ rCalls \in [Request -> List] /\ rAccepted \in [Request -> List]
  /\ active \in Request \cup {NoRequest}
  /\ hook \in Hook \cup {"run", "none"}
  /\ hook \in Hook => active \in Request
  /\ settled \in [Request -> Nat]

\* The entries of s are the entries of c at their indexes.
Copies(s, c) == \A i \in 1 .. Len(s) : s[i].index \in 1 .. Len(c) /\ s[i] = c[s[i].index]

Ascending(s) == \A i, j \in 1 .. Len(s) : i < j => s[i].index < s[j].index

Disjoint(s, t) == \A i \in 1 .. Len(s), j \in 1 .. Len(t) : s[i].index # t[j].index

CopyInv ==
  /\ \A i \in 1 .. Len(calls) : calls[i].index = i
  /\ Copies(accepted, calls)
  /\ \A r \in Request : Copies(rCalls[r], calls) /\ Copies(rAccepted[r], calls)

OrderInv == \A r \in Request : Ascending(rAccepted[r])

OwnerInv == \A q, r \in Request : q # r =>
  Disjoint(rCalls[q], rAccepted[r]) /\ Disjoint(rAccepted[q], rAccepted[r])

OutcomeInv == TypeInv /\ CopyInv /\ OrderInv /\ OwnerInv

-----------------------------------------------------------------------------
(* Recording a call *)

\* t is s with e at its end.
Longer(s, e, t) ==
  /\ t \in List
  /\ Len(t) = Len(s) + 1
  /\ \A i \in 1 .. Len(s) : t[i] = s[i]
  /\ t[Len(s) + 1] = e

\* Both ways in which Record writes an entry to the end of a list.
LEMMA Appended ==
  ASSUME NEW s \in List, NEW e \in Entry
  PROVE  Longer(s, e, Append(s, e)) /\ Longer(s, e, s \o <<e>>) /\ s \o <<>> = s
<1>1. Longer(s, e, Append(s, e))
  BY AppendProperties DEF Longer, List
<1>2. <<e>> \in List /\ Len(<<e>>) = 1 /\ <<e>>[1] = e
  BY DEF List
<1>3. /\ s \o <<e>> \in List /\ Len(s \o <<e>>) = Len(s) + 1
      /\ \A i \in 1 .. Len(s) + 1 : (s \o <<e>>)[i] = IF i <= Len(s) THEN s[i] ELSE <<e>>[i - Len(s)]
  BY <1>2, ConcatProperties DEF List
<1>4. Len(s) \in Nat
  BY LenProperties DEF List
<1>5. Longer(s, e, s \o <<e>>)
  BY <1>2, <1>3, <1>4 DEF Longer
<1> QED
  BY <1>1, <1>5, ConcatEmptySeq DEF List

\* A list that grows with the harness's calls, or stays, still copies them.
LEMMA CopiesGrow ==
  ASSUME NEW c \in List, NEW d, NEW e \in Entry, e.index = Len(c) + 1, Longer(c, e, d),
         NEW s \in List, NEW t, t = s \/ Longer(s, e, t), Copies(s, c)
  PROVE  t \in List /\ Copies(t, d) /\ (Ascending(s) => Ascending(t))
<1>1. Len(c) \in Nat /\ Len(s) \in Nat
  BY LenProperties DEF List
<1>2. CASE t = s
  BY <1>1, <1>2 DEF Copies, Longer
<1>3. CASE Longer(s, e, t)
  <2>1. /\ Len(t) = Len(s) + 1 /\ t[Len(s) + 1] = e /\ t \in List
        /\ \A i \in 1 .. Len(s) : t[i] = s[i] /\ s[i].index \in 1 .. Len(c) /\ s[i] = c[s[i].index]
    BY <1>3 DEF Longer, Copies
  <2>2. /\ Len(d) = Len(c) + 1 /\ d[Len(c) + 1] = e
        /\ \A i \in 1 .. Len(c) : d[i] = c[i]
    BY DEF Longer
  <2>3. Copies(t, d)
    BY <1>1, <2>1, <2>2 DEF Copies
  <2>4. ASSUME Ascending(s) PROVE Ascending(t)
    <3> SUFFICES ASSUME NEW i \in 1 .. Len(t), NEW j \in 1 .. Len(t), i < j
                 PROVE  t[i].index < t[j].index
      BY DEF Ascending
    <3>1. i \in 1 .. Len(s) /\ t[i] = s[i] /\ s[i].index \in 1 .. Len(c)
      BY <1>1, <2>1
    <3>2. CASE j \in 1 .. Len(s)
      BY <2>1, <2>4, <3>1, <3>2 DEF Ascending
    <3>3. CASE j = Len(s) + 1
      BY <1>1, <2>1, <3>1, <3>3
    <3> QED
      BY <1>1, <2>1, <3>2, <3>3
  <2> QED
    BY <2>1, <2>3, <2>4
<1> QED
  BY <1>2, <1>3

\* A new entry is in no older list.
LEMMA DisjointGrow ==
  ASSUME NEW c \in List, NEW e \in Entry, e.index = Len(c) + 1,
         NEW s \in List, NEW t \in List, Copies(s, c), Copies(t, c), Disjoint(s, t),
         NEW s1, NEW t1, \/ s1 = s /\ (t1 = t \/ Longer(t, e, t1))
                         \/ t1 = t /\ (s1 = s \/ Longer(s, e, s1))
  PROVE  Disjoint(s1, t1)
<1>1. Len(c) \in Nat /\ Len(s) \in Nat /\ Len(t) \in Nat
  BY LenProperties DEF List
<1>2. ASSUME NEW u \in {s, t} PROVE \A i \in 1 .. Len(u) : u[i].index # e.index
  <2>1. \A i \in 1 .. Len(u) : u[i].index \in 1 .. Len(c)
    BY DEF Copies
  <2> QED
    BY <1>1, <2>1
<1>3. ASSUME NEW u, NEW u1, Longer(u, e, u1), u \in {s, t}
      PROVE  \A j \in 1 .. Len(u1) : u1[j] = e \/ (j \in 1 .. Len(u) /\ u1[j] = u[j])
  <2>1. Len(u1) = Len(u) + 1 /\ Len(u) \in Nat
    BY <1>1, <1>3 DEF Longer
  <2>2. \A j \in 1 .. Len(u1) : j = Len(u) + 1 \/ j \in 1 .. Len(u)
    BY <2>1
  <2> QED
    BY <1>3, <2>2 DEF Longer
<1>4. CASE s1 = s /\ t1 = t
  BY <1>4
<1>5. CASE s1 = s /\ Longer(t, e, t1)
  BY <1>2, <1>3, <1>5 DEF Disjoint
<1>6. CASE t1 = t /\ Longer(s, e, s1)
  BY <1>2, <1>3, <1>6 DEF Disjoint
<1> QED
  BY <1>4, <1>5, <1>6

\* The four lists after a host call: those it belongs to have it at their end.
LEMMA Recorded ==
  ASSUME TypeInv, NEW e \in Entry, Record(e)
  PROVE  /\ Longer(calls, e, calls')
         /\ accepted' = accepted \/ Longer(accepted, e, accepted')
         /\ \A r \in Request :
              /\ rCalls'[r] = rCalls[r] \/ (r = active /\ Longer(rCalls[r], e, rCalls'[r]))
              /\ rAccepted'[r] = rAccepted[r] \/ (r = active /\ Longer(rAccepted[r], e, rAccepted'[r]))
         /\ rCalls' \in [Request -> List] /\ rAccepted' \in [Request -> List]
<1> DEFINE kept == IF e.effective THEN <<e>> ELSE <<>>
<1>1. Longer(calls, e, calls')
  BY Appended DEF Record, TypeInv
<1>2. \A s \in List : s \o kept = s \/ Longer(s, e, s \o kept)
  BY Appended
<1>3. accepted' = accepted \o kept
  BY DEF Record
<1>4. CASE active = NoRequest
  <2>1. rCalls' = rCalls /\ rAccepted' = rAccepted
    BY <1>4 DEF Record
  <2> HIDE DEF kept
  <2>2. accepted' = accepted \/ Longer(accepted, e, accepted')
    BY <1>2, <1>3 DEF TypeInv
  <2> QED
    BY <1>1, <2>1, <2>2 DEF TypeInv
<1>5. CASE active # NoRequest
  <2>1. active \in Request
    BY <1>5 DEF TypeInv
  <2>2. /\ rCalls' = [rCalls EXCEPT ![active] = Append(rCalls[active], e)]
        /\ rAccepted' = [rAccepted EXCEPT ![active] = rAccepted[active] \o kept]
    BY <1>5 DEF Record
  <2>3. Longer(rCalls[active], e, Append(rCalls[active], e))
    BY <2>1, Appended DEF TypeInv
  <2>4. rAccepted[active] \in List
    BY <2>1 DEF TypeInv
  <2> HIDE DEF kept
  <2>5. \A r \in Request :
              /\ rCalls'[r] = rCalls[r] \/ (r = active /\ Longer(rCalls[r], e, rCalls'[r]))
              /\ rAccepted'[r] = rAccepted[r] \/ (r = active /\ Longer(rAccepted[r], e, rAccepted'[r]))
    BY <1>2, <2>1, <2>2, <2>3, <2>4 DEF TypeInv
  <2>6. rCalls' \in [Request -> List] /\ rAccepted' \in [Request -> List]
    <3>1. Append(rCalls[active], e) \in List
      BY <2>3 DEF Longer
    <3>2. rAccepted[active] \o kept \in List
      BY <1>2, <2>4 DEF Longer
    <3> QED
      BY <2>2, <3>1, <3>2 DEF TypeInv
  <2> QED
    BY <1>1, <1>2, <1>3, <2>5, <2>6 DEF TypeInv
<1> QED
  BY <1>4, <1>5

\* A host call keeps the copies, their order and their owners.
LEMMA HostCallKeeps ==
  ASSUME OutcomeInv, NEW cmd \in Command, NEW effective \in BOOLEAN, HostCall(cmd, effective)
  PROVE  OutcomeInv'
<1> DEFINE e == [cmd |-> cmd, index |-> Len(calls) + 1, effective |-> effective]
<1>1. /\ calls \in List /\ accepted \in List
      /\ \A r \in Request : rCalls[r] \in List /\ rAccepted[r] \in List
      /\ Len(calls) \in Nat
  BY LenProperties DEF OutcomeInv, TypeInv, List
<1>2. e \in Entry /\ e.index = Len(calls) + 1 /\ Record(e)
  BY <1>1 DEF Entry, HostCall
<1> HIDE DEF e
<1>3. /\ Longer(calls, e, calls')
      /\ accepted' = accepted \/ Longer(accepted, e, accepted')
      /\ \A r \in Request :
           /\ rCalls'[r] = rCalls[r] \/ (r = active /\ Longer(rCalls[r], e, rCalls'[r]))
           /\ rAccepted'[r] = rAccepted[r] \/ (r = active /\ Longer(rAccepted[r], e, rAccepted'[r]))
      /\ rCalls' \in [Request -> List] /\ rAccepted' \in [Request -> List]
  BY <1>2, Recorded DEF OutcomeInv
<1>4. /\ Copies(accepted, calls)
      /\ \A r \in Request : Copies(rCalls[r], calls) /\ Copies(rAccepted[r], calls) /\ Ascending(rAccepted[r])
  BY DEF OutcomeInv, CopyInv, OrderInv
<1>5. accepted' \in List /\ Copies(accepted', calls')
  BY <1>1, <1>2, <1>3, <1>4, CopiesGrow
<1>6. \A r \in Request : Copies(rCalls'[r], calls')
  BY <1>1, <1>2, <1>3, <1>4, CopiesGrow
<1>7. \A r \in Request : Copies(rAccepted'[r], calls') /\ Ascending(rAccepted'[r])
  BY <1>1, <1>2, <1>3, <1>4, CopiesGrow
<1>8. \A i \in 1 .. Len(calls') : calls'[i].index = i
  BY <1>1, <1>2, <1>3 DEF Longer, OutcomeInv, CopyInv
<1>9. ASSUME NEW q \in Request, NEW r \in Request, q # r
      PROVE  Disjoint(rCalls'[q], rAccepted'[r]) /\ Disjoint(rAccepted'[q], rAccepted'[r])
  <2>1. Disjoint(rCalls[q], rAccepted[r]) /\ Disjoint(rAccepted[q], rAccepted[r])
    BY <1>9 DEF OutcomeInv, OwnerInv
  <2>2. CASE q = active
    <3>1. rAccepted'[r] = rAccepted[r]
      BY <1>3, <1>9, <2>2
    <3> QED
      BY <1>1, <1>2, <1>3, <1>4, <2>1, <3>1, DisjointGrow
  <2>3. CASE q # active
    <3>1. rAccepted'[q] = rAccepted[q] /\ rCalls'[q] = rCalls[q]
      BY <1>3, <2>3
    <3> QED
      BY <1>1, <1>2, <1>3, <1>4, <2>1, <3>1, DisjointGrow
  <2> QED
    BY <2>2, <2>3
<1>10. TypeInv'
  BY <1>3, <1>5 DEF OutcomeInv, TypeInv, HostCall, Longer
<1> QED
  BY <1>5, <1>6, <1>7, <1>8, <1>9, <1>10 DEF OutcomeInv, CopyInv, OrderInv, OwnerInv

-----------------------------------------------------------------------------
(* finalize *)

\* An entry with its verdict decided.
Marked(e, x) == [e EXCEPT !.effective = x]

\* Only the verdict of the entry changes.
LEMMA MarkedEntry ==
  ASSUME NEW e \in Entry, NEW x \in BOOLEAN
  PROVE  /\ Marked(e, x) \in Entry /\ Marked(e, x).cmd = e.cmd /\ Marked(e, x).index = e.index
         /\ Marked(e, x).effective = x
BY DEF Marked, Entry

\* What writing a decision through makes of one entry.
Outcome(d, e) ==
  IF \E j \in 1 .. Len(d) : d[j].index = e.index
  THEN Marked(e, (CHOOSE x \in {d[j] : j \in 1 .. Len(d)} : x.index = e.index).effective)
  ELSE e

\* An entry finalize did not decide stays as it was.
LEMMA OutcomeOf ==
  ASSUME NEW d \in List, NEW e \in Entry
  PROVE  /\ Outcome(d, e) \in Entry /\ Outcome(d, e).index = e.index
         /\ (\A j \in 1 .. Len(d) : d[j].index # e.index) => Outcome(d, e) = e
         /\ \A k \in 1 .. Len(d) :
              d[k].index = e.index /\ Ascending(d) => Outcome(d, e) = Marked(e, d[k].effective)
<1> DEFINE found == CHOOSE x \in {d[j] : j \in 1 .. Len(d)} : x.index = e.index
<1>1. CASE \A j \in 1 .. Len(d) : d[j].index # e.index
  BY <1>1 DEF Outcome
<1>2. ASSUME NEW k \in 1 .. Len(d), d[k].index = e.index
      PROVE  /\ Outcome(d, e) = Marked(e, found.effective)
             /\ \E j \in 1 .. Len(d) : found = d[j] /\ d[j].index = e.index
  <2>1. \E x \in {d[j] : j \in 1 .. Len(d)} : x.index = e.index
    BY <1>2
  <2>2. found \in {d[j] : j \in 1 .. Len(d)} /\ found.index = e.index
    BY <2>1
  <2>3. Outcome(d, e) = Marked(e, found.effective)
    BY <1>2 DEF Outcome
  <2> HIDE DEF found
  <2> QED
    BY <2>2, <2>3
<1> HIDE DEF found
<1>3. \A j \in 1 .. Len(d) : d[j] \in Entry /\ d[j].effective \in BOOLEAN
  <2>1. \A j \in 1 .. Len(d) : d[j] \in Entry
    BY ElementOfSeq DEF List
  <2>2. \A x \in Entry : x.effective \in BOOLEAN
    BY DEF Entry
  <2> QED
    BY <2>1, <2>2
<1>4. ASSUME NEW k \in 1 .. Len(d), d[k].index = e.index
      PROVE  Outcome(d, e) \in Entry /\ Outcome(d, e).index = e.index
  <2>1. Outcome(d, e) = Marked(e, found.effective) /\ found.effective \in BOOLEAN
    BY <1>2, <1>3, <1>4
  <2> QED
    BY <2>1, MarkedEntry
<1>5. ASSUME NEW k \in 1 .. Len(d), d[k].index = e.index, Ascending(d)
      PROVE  Outcome(d, e) = Marked(e, d[k].effective)
  <2>1. PICK j \in 1 .. Len(d) : found = d[j] /\ d[j].index = e.index /\ Outcome(d, e) = Marked(e, d[j].effective)
    BY <1>2, <1>5
  <2>2. j = k
    <3>1. Len(d) \in Nat /\ d[j].index \in Nat
      BY <1>3, LenProperties DEF List, Entry
    <3> QED
      BY <1>5, <2>1, <3>1 DEF Ascending
  <2> QED
    BY <2>1, <2>2
<1> QED
  BY <1>1, <1>4, <1>5

\* WriteThrough decides every entry of a list by itself.
LEMMA WrittenThrough ==
  ASSUME NEW d \in List, NEW s \in List
  PROVE  /\ WriteThrough(s, d) \in List /\ Len(WriteThrough(s, d)) = Len(s)
         /\ \A i \in 1 .. Len(s) : WriteThrough(s, d)[i] = Outcome(d, s[i])
<1>1. Len(s) \in Nat /\ \A i \in 1 .. Len(s) : s[i] \in Entry
  BY LenProperties, ElementOfSeq DEF List
<1>2. WriteThrough(s, d) = [i \in 1 .. Len(s) |-> Outcome(d, s[i])]
  BY DEF WriteThrough, Outcome, Marked
<1>3. [i \in 1 .. Len(s) |-> Outcome(d, s[i])] \in [1 .. Len(s) -> Entry]
  BY <1>1, OutcomeOf
<1>4. WriteThrough(s, d) \in List
  BY <1>1, <1>2, <1>3, SeqDef DEF List
<1>5. Len(WriteThrough(s, d)) = Len(s)
  BY <1>1, <1>2
<1> QED
  BY <1>2, <1>4, <1>5

\* Decided keeps the entries and at most takes their effect.
LEMMA DecidedList ==
  ASSUME NEW s \in List, NEW failed \in BOOLEAN
  PROVE  /\ Decided(s, failed) \in List /\ Len(Decided(s, failed)) = Len(s)
         /\ \A i \in 1 .. Len(s) :
              /\ Decided(s, failed)[i] = Marked(s[i], Survives(s, failed, i))
              /\ Decided(s, failed)[i].index = s[i].index
              /\ Decided(s, failed)[i].effective = Survives(s, failed, i)
              /\ Survives(s, failed, i) => s[i].effective
<1>1. Len(s) \in Nat /\ \A i \in 1 .. Len(s) : s[i] \in Entry
  BY LenProperties, ElementOfSeq DEF List
<1>2. \A i \in 1 .. Len(s) : Survives(s, failed, i) \in BOOLEAN /\ (Survives(s, failed, i) => s[i].effective)
  <2>1. \A i \in 1 .. Len(s) : s[i].effective \in BOOLEAN
    BY <1>1 DEF Entry
  <2> QED
    BY <2>1, Zenon DEF Survives
<1>3. Decided(s, failed) = [i \in 1 .. Len(s) |-> Marked(s[i], Survives(s, failed, i))]
  BY DEF Decided, Marked
<1>4. \A i \in 1 .. Len(s) : Marked(s[i], Survives(s, failed, i)) \in Entry
  BY <1>1, <1>2, MarkedEntry
<1>5. Decided(s, failed) \in [1 .. Len(s) -> Entry]
  BY <1>3, <1>4
<1>6. Decided(s, failed) \in List /\ Len(Decided(s, failed)) = Len(s)
  BY <1>1, <1>3, <1>5, SeqDef DEF List
<1> QED
  BY <1>1, <1>2, <1>3, <1>6, MarkedEntry

\* Written-through lists agree as the lists did.
LEMMA CopiesWritten ==
  ASSUME NEW d \in List, NEW s \in List, NEW c \in List, Copies(s, c)
  PROVE  Copies(WriteThrough(s, d), WriteThrough(c, d))
<1>1. \A i \in 1 .. Len(s) : s[i] \in Entry /\ s[i].index \in 1 .. Len(c) /\ s[i] = c[s[i].index]
  BY ElementOfSeq DEF List, Copies
<1>2. \A i \in 1 .. Len(s) : /\ WriteThrough(s, d)[i] = Outcome(d, s[i])
                             /\ Outcome(d, s[i]).index = s[i].index
  BY <1>1, WrittenThrough, OutcomeOf
<1>3. \A i \in 1 .. Len(s) : WriteThrough(c, d)[s[i].index] = Outcome(d, c[s[i].index])
  BY <1>1, WrittenThrough
<1>4. Len(WriteThrough(s, d)) = Len(s) /\ Len(WriteThrough(c, d)) = Len(c)
  BY WrittenThrough
<1> QED
  BY <1>1, <1>2, <1>3, <1>4 DEF Copies

\* The entries of another request are left alone.
LEMMA OthersUntouched ==
  ASSUME NEW d \in List, NEW s \in List, NEW c \in List, Copies(s, c), Disjoint(s, d)
  PROVE  Copies(s, WriteThrough(c, d))
<1>1. \A i \in 1 .. Len(s) : s[i] \in Entry /\ s[i].index \in 1 .. Len(c) /\ s[i] = c[s[i].index]
  BY ElementOfSeq DEF List, Copies
<1>2. \A i \in 1 .. Len(s) : Outcome(d, s[i]) = s[i]
  BY <1>1, OutcomeOf DEF Disjoint
<1>3. \A i \in 1 .. Len(s) : WriteThrough(c, d)[s[i].index] = Outcome(d, c[s[i].index])
  BY <1>1, WrittenThrough
<1>4. Len(WriteThrough(c, d)) = Len(c)
  BY WrittenThrough
<1> QED
  BY <1>1, <1>2, <1>3, <1>4 DEF Copies

\* The decided entries themselves are what is written into their copies.
LEMMA DecidedCopies ==
  ASSUME NEW s \in List, NEW c \in List, NEW failed \in BOOLEAN, Copies(s, c), Ascending(s)
  PROVE  /\ Copies(Decided(s, failed), WriteThrough(c, Decided(s, failed)))
         /\ Ascending(Decided(s, failed))
<1> DEFINE d == Decided(s, failed)
<1>1. /\ d \in List /\ Len(d) = Len(s)
      /\ \A i \in 1 .. Len(s) : /\ d[i] = Marked(s[i], d[i].effective)
                                /\ d[i].index = s[i].index
  BY DecidedList
<1> HIDE DEF d
<1>2. Ascending(d)
  BY <1>1 DEF Ascending
<1>3. \A i \in 1 .. Len(s) : s[i] \in Entry /\ s[i].index \in 1 .. Len(c) /\ s[i] = c[s[i].index]
  BY ElementOfSeq DEF List, Copies
<1>4. \A i \in 1 .. Len(s) : WriteThrough(c, d)[s[i].index] = Outcome(d, s[i])
  BY <1>1, <1>3, WrittenThrough
<1>5. \A i \in 1 .. Len(s) : Outcome(d, s[i]) = d[i]
  BY <1>1, <1>2, <1>3, OutcomeOf
<1>6. Len(WriteThrough(c, d)) = Len(c)
  BY <1>1, WrittenThrough
<1> QED
  BY <1>1, <1>2, <1>3, <1>4, <1>5, <1>6 DEF Copies, d

\* t has the indexes of s.
SameIndexes(s, t) == Len(t) = Len(s) /\ \A i \in 1 .. Len(s) : t[i].index = s[i].index

\* What finalize does to the lists, whichever request it is about.
LEMMA Finished ==
  ASSUME OutcomeInv, NEW failed \in BOOLEAN, Finish(failed),
         NEW d, d = Decided(rAccepted[active], failed)
  PROVE  /\ active \in Request /\ d \in List
         /\ rAccepted' = [rAccepted EXCEPT ![active] = d]
         /\ rCalls' = [rCalls EXCEPT ![active] = WriteThrough(rCalls[active], d)]
         /\ calls' = WriteThrough(calls, d) /\ accepted' = WriteThrough(accepted, d)
         /\ \A r \in Request :
              /\ rCalls'[r] \in List /\ SameIndexes(rCalls[r], rCalls'[r])
              /\ rAccepted'[r] \in List /\ SameIndexes(rAccepted[r], rAccepted'[r])
<1>1. /\ active \in Request /\ calls \in List /\ accepted \in List
      /\ rCalls \in [Request -> List] /\ rAccepted \in [Request -> List]
  BY DEF Finish, OutcomeInv, TypeInv
<1>2. /\ rAccepted' = [rAccepted EXCEPT ![active] = d]
      /\ rCalls' = [rCalls EXCEPT ![active] = WriteThrough(rCalls[active], d)]
      /\ calls' = WriteThrough(calls, d) /\ accepted' = WriteThrough(accepted, d)
  BY DEF Finish
<1>3. d \in List /\ SameIndexes(rAccepted[active], d)
  BY <1>1, DecidedList DEF SameIndexes
<1>4. \A s \in List : WriteThrough(s, d) \in List /\ SameIndexes(s, WriteThrough(s, d))
  <2> SUFFICES ASSUME NEW s \in List PROVE WriteThrough(s, d) \in List /\ SameIndexes(s, WriteThrough(s, d))
    OBVIOUS
  <2>1. \A i \in 1 .. Len(s) : s[i] \in Entry
    BY ElementOfSeq DEF List
  <2> QED
    BY <1>3, <2>1, WrittenThrough, OutcomeOf DEF SameIndexes
<1>5. \A r \in Request : SameIndexes(rCalls[r], rCalls[r]) /\ SameIndexes(rAccepted[r], rAccepted[r])
  BY DEF SameIndexes
<1> QED
  BY <1>1, <1>2, <1>3, <1>4, <1>5

\* finalize keeps the copies, their order and their owners.
LEMMA FinishKeeps ==
  ASSUME OutcomeInv, NEW failed \in BOOLEAN, Finish(failed)
  PROVE  OutcomeInv'
<1> DEFINE d == Decided(rAccepted[active], failed)
<1>1. /\ active \in Request /\ d \in List
      /\ rAccepted' = [rAccepted EXCEPT ![active] = d]
      /\ rCalls' = [rCalls EXCEPT ![active] = WriteThrough(rCalls[active], d)]
      /\ calls' = WriteThrough(calls, d) /\ accepted' = WriteThrough(accepted, d)
      /\ \A r \in Request :
           /\ rCalls'[r] \in List /\ SameIndexes(rCalls[r], rCalls'[r])
           /\ rAccepted'[r] \in List /\ SameIndexes(rAccepted[r], rAccepted'[r])
  BY Finished
<1>2. /\ calls \in List /\ accepted \in List /\ Copies(accepted, calls)
      /\ \A r \in Request : /\ rCalls[r] \in List /\ Copies(rCalls[r], calls)
                            /\ rAccepted[r] \in List /\ Copies(rAccepted[r], calls) /\ Ascending(rAccepted[r])
  BY DEF OutcomeInv, TypeInv, CopyInv, OrderInv
<1>3. Copies(d, calls') /\ Ascending(d)
  BY <1>1, <1>2, DecidedCopies
<1>4. SameIndexes(rAccepted[active], d)
  BY <1>1, <1>2, DecidedList DEF SameIndexes
<1> HIDE DEF d
<1>5. calls' \in List /\ accepted' \in List
  BY <1>1, <1>2, WrittenThrough
<1>6. Copies(accepted', calls') /\ Copies(rCalls'[active], calls')
  <2>1. rCalls'[active] = WriteThrough(rCalls[active], d)
    BY <1>1 DEF OutcomeInv, TypeInv
  <2> QED
    BY <1>1, <1>2, <2>1, CopiesWritten
<1>7. ASSUME NEW r \in Request, r # active
      PROVE  /\ rCalls'[r] = rCalls[r] /\ rAccepted'[r] = rAccepted[r]
             /\ Copies(rCalls[r], calls') /\ Copies(rAccepted[r], calls')
  <2>1. Disjoint(rCalls[r], d) /\ Disjoint(rAccepted[r], d)
    BY <1>1, <1>4, <1>7 DEF OutcomeInv, OwnerInv, Disjoint, SameIndexes
  <2>2. rCalls'[r] = rCalls[r] /\ rAccepted'[r] = rAccepted[r]
    BY <1>1, <1>7 DEF OutcomeInv, TypeInv
  <2> QED
    BY <1>1, <1>2, <2>1, <2>2, OthersUntouched
<1>8. rAccepted'[active] = d
  BY <1>1 DEF OutcomeInv, TypeInv
<1>9. TypeInv'
  <2>1. settled' \in [Request -> Nat]
    BY <1>1, <1>2, LenProperties DEF Finish, OutcomeInv, TypeInv, List
  <2> QED
    BY <1>1, <1>5, <2>1 DEF Finish, OutcomeInv, TypeInv, Hook
<1>10. CopyInv'
  <2>1. Len(calls') = Len(calls) /\ \A i \in 1 .. Len(calls) : calls'[i].index = i
    <3>1. \A i \in 1 .. Len(calls) : calls[i] \in Entry /\ calls[i].index = i
      BY <1>2, ElementOfSeq DEF OutcomeInv, CopyInv, List
    <3> QED
      BY <1>1, <1>2, <3>1, WrittenThrough, OutcomeOf
  <2> QED
    BY <1>3, <1>6, <1>7, <1>8, <2>1 DEF CopyInv
<1>11. OrderInv'
  BY <1>2, <1>3, <1>7, <1>8 DEF OrderInv
<1>12. OwnerInv'
  <2>1. \A q, r \in Request : q # r => Disjoint(rCalls[q], rAccepted[r]) /\ Disjoint(rAccepted[q], rAccepted[r])
    BY DEF OutcomeInv, OwnerInv
  <2>2. ASSUME NEW s, NEW t, NEW s1, NEW t1, Disjoint(s, t), SameIndexes(s, s1), SameIndexes(t, t1)
        PROVE  Disjoint(s1, t1)
    BY <2>2 DEF Disjoint, SameIndexes
  <2> QED
    BY <1>1, <2>1, <2>2 DEF OwnerInv
<1> QED
  BY <1>9, <1>10, <1>11, <1>12 DEF OutcomeInv

-----------------------------------------------------------------------------
\* Nothing has been called yet.
LEMMA InitInv == Init => OutcomeInv
<1> SUFFICES ASSUME Init PROVE OutcomeInv
  OBVIOUS
<1>1. <<>> \in List /\ Len(<<>>) = 0
  BY DEF List
<1>2. TypeInv
  BY <1>1 DEF Init, TypeInv, Hook
<1>3. CopyInv /\ OrderInv /\ OwnerInv
  BY <1>1 DEF Init, CopyInv, OrderInv, OwnerInv, Copies, Ascending, Disjoint
<1> QED
  BY <1>2, <1>3 DEF OutcomeInv

\* Entering and leaving a scope touches no list.
LEMMA StepKeeps == OutcomeInv /\ [Next]_vars => OutcomeInv'
<1> SUFFICES ASSUME OutcomeInv, [Next]_vars PROVE OutcomeInv'
  OBVIOUS
<1>1. ASSUME UNCHANGED lists, TypeInv' PROVE OutcomeInv'
  BY <1>1 DEF lists, OutcomeInv, CopyInv, OrderInv, OwnerInv
<1>2. CASE UNCHANGED vars
  BY <1>1, <1>2 DEF vars, lists, OutcomeInv, TypeInv
<1>3. ASSUME NEW r \in Request \cup {NoRequest}, NEW mode \in Hook \cup {"run"}, Enter(r, mode) PROVE OutcomeInv'
  BY <1>1, <1>3 DEF Enter, lists, OutcomeInv, TypeInv
<1>4. ASSUME NEW cmd \in Command, NEW effective \in BOOLEAN, HostCall(cmd, effective) PROVE OutcomeInv'
  BY <1>4, HostCallKeeps
<1>5. ASSUME NEW failed \in BOOLEAN, Finish(failed) PROVE OutcomeInv'
  BY <1>5, FinishKeeps
<1>6. CASE LeaveRun
  BY <1>1, <1>6 DEF LeaveRun, lists, OutcomeInv, TypeInv, Hook
<1> QED
  BY <1>2, <1>3, <1>4, <1>5, <1>6 DEF Next

\* The lists, their order and their owners stay as finalize needs them.
THEOREM OutcomeHolds == Spec => []OutcomeInv
<1> QED
  BY InitInv, StepKeeps, PTL DEF Spec

\* A test that asks the harness and one that asks the request see the same
\* outcome, however the invocations of requests mix.
THEOREM OutcomeCopiesAgree == Spec => []CopiesAgree
<1>1. OutcomeInv => CopiesAgree
  BY DEF OutcomeInv, CopyInv, Copies, CopiesAgree
<1> QED
  BY <1>1, OutcomeHolds, PTL

\* No copy of a call gets its effect back.
Lost ==
  /\ \A i \in 1 .. Len(calls) : calls'[i].effective => calls[i].effective
  /\ \A r \in Request : \A i \in 1 .. Len(rAccepted[r]) :
       rAccepted'[r][i].effective => rAccepted[r][i].effective

\* Recording, forgetting and finalizing take effects away only.
LEMMA StepLoses ==
  ASSUME OutcomeInv, Next PROVE Lost
<1>1. CASE UNCHANGED lists
  BY <1>1 DEF lists, Lost
<1>2. ASSUME NEW cmd \in Command, NEW effective \in BOOLEAN, HostCall(cmd, effective) PROVE Lost
  <2> DEFINE e == [cmd |-> cmd, index |-> Len(calls) + 1, effective |-> effective]
  <2>1. e \in Entry /\ Record(e)
    BY <1>2, LenProperties DEF Entry, HostCall, OutcomeInv, TypeInv, List
  <2> HIDE DEF e
  <2>2. /\ Longer(calls, e, calls')
        /\ \A r \in Request : rAccepted'[r] = rAccepted[r] \/ Longer(rAccepted[r], e, rAccepted'[r])
    BY <2>1, Recorded DEF OutcomeInv
  <2> QED
    BY <2>2 DEF Longer, Lost
<1>3. ASSUME NEW failed \in BOOLEAN, Finish(failed) PROVE Lost
  <2> DEFINE s == rAccepted[active]
             d == Decided(s, failed)
  <2>1. /\ active \in Request /\ d \in List /\ s \in List /\ calls \in List
        /\ rAccepted' = [rAccepted EXCEPT ![active] = d] /\ calls' = WriteThrough(calls, d)
        /\ rAccepted \in [Request -> List]
    BY <1>3, Finished DEF OutcomeInv, TypeInv
  <2>2. /\ Len(d) = Len(s)
        /\ \A i \in 1 .. Len(s) : d[i].index = s[i].index /\ (d[i].effective => s[i].effective)
    BY <2>1, DecidedList
  <2>3. Ascending(d) /\ Copies(s, calls)
    BY <2>1, DecidedCopies DEF OutcomeInv, CopyInv, OrderInv
  <2> HIDE DEF d
  <2>4. \A r \in Request : \A i \in 1 .. Len(rAccepted[r]) :
          rAccepted'[r][i].effective => rAccepted[r][i].effective
    BY <2>1, <2>2
  <2>5. ASSUME NEW i \in 1 .. Len(calls), calls'[i].effective PROVE calls[i].effective
    <3>1. calls'[i] = Outcome(d, calls[i]) /\ calls[i] \in Entry
      BY <2>1, WrittenThrough, ElementOfSeq DEF List
    <3>2. CASE \A j \in 1 .. Len(d) : d[j].index # calls[i].index
      BY <2>1, <2>5, <3>1, <3>2, OutcomeOf
    <3>3. ASSUME NEW k \in 1 .. Len(d), d[k].index = calls[i].index PROVE calls[i].effective
      <4>1. calls'[i] = Marked(calls[i], d[k].effective)
        BY <2>1, <2>3, <3>1, <3>3, OutcomeOf
      <4>2. d[k].effective \in BOOLEAN
        <5>1. d[k] \in Entry
          BY <2>1, ElementOfSeq DEF List
        <5> QED
          BY <5>1 DEF Entry
      <4>3. d[k].effective
        BY <2>5, <3>1, <4>1, <4>2, MarkedEntry
      <4>4. s[k].effective /\ s[k] = calls[s[k].index] /\ s[k].index = calls[i].index
        BY <2>2, <2>3, <3>3, <4>3 DEF Copies
      <4>5. calls[i].index = i
        BY DEF OutcomeInv, CopyInv
      <4> QED
        BY <4>4, <4>5
    <3> QED
      BY <3>2, <3>3
  <2> QED
    BY <2>4, <2>5 DEF Lost
<1> QED
  BY <1>1, <1>2, <1>3 DEF Next, Enter, LeaveRun

\* A verdict that lost is never effective again.
THEOREM OutcomeNeverRestored == Spec => NeverRestored
<1>1. OutcomeInv /\ [Next]_vars => [Lost]_vars
  BY StepLoses
<1> QED
  BY <1>1, OutcomeHolds, PTL DEF Spec, NeverRestored, Lost


-----------------------------------------------------------------------------
(* One register per verdict *)

\* What a finalize has seen is decided: of each verdict at most one entry is
\* still effective; what none has seen is all effective.
SettledUpTo(s, n) ==
  /\ n \in 0 .. Len(s)
  /\ \A i \in n + 1 .. Len(s) : s[i].effective
  /\ \A i, j \in 1 .. n : i # j /\ s[i].cmd = s[j].cmd /\ s[i].cmd \in Verdict
                            => ~ s[i].effective \/ ~ s[j].effective

SettledInv == \A r \in Request : SettledUpTo(rAccepted[r], settled[r])

\* At most one entry of a verdict survives.
LEMMA OneSurvives ==
  ASSUME NEW s \in List, NEW failed \in BOOLEAN,
         NEW i \in 1 .. Len(s), NEW j \in 1 .. Len(s), i # j,
         s[i].cmd = s[j].cmd, s[i].cmd \in Verdict
  PROVE  ~ Survives(s, failed, i) \/ ~ Survives(s, failed, j)
<1>1. Len(s) \in Nat
  BY LenProperties DEF List
<1>2. ASSUME NEW k \in 1 .. Len(s), NEW l \in 1 .. Len(s), k < l,
             s[k].cmd = s[l].cmd, s[k].cmd \in Verdict
      PROVE  ~ Survives(s, failed, k) \/ ~ Survives(s, failed, l)
  <2>1. k \in 1 .. l - 1 /\ l \in k + 1 .. Len(s)
    BY <1>1, <1>2
  <2>2. CASE s[l].cmd \in {Block, Respond}
    BY <1>2, <2>1, <2>2 DEF Survives, Stands
  <2>3. CASE s[l].cmd \in {Route, Identity}
    BY <1>2, <2>1, <2>3 DEF Survives, Stands
  <2> QED
    BY <1>2, <2>2, <2>3 DEF Verdict
<1>3. i < j \/ j < i
  BY <1>1
<1> QED
  BY <1>2, <1>3

\* The step of SettledInv: calls are recorded as effective, finalize decides.
LEMMA SettledStep == OutcomeInv /\ SettledInv /\ [Next]_vars => SettledInv'
<1> SUFFICES ASSUME OutcomeInv, SettledInv, [Next]_vars PROVE SettledInv'
  OBVIOUS
<1>1. CASE UNCHANGED <<rAccepted, settled>>
  BY <1>1 DEF SettledInv
<1>2. ASSUME NEW cmd \in Command, NEW effective \in BOOLEAN, HostCall(cmd, effective) PROVE SettledInv'
  <2> DEFINE e == [cmd |-> cmd, index |-> Len(calls) + 1, effective |-> effective]
  <2>1. e \in Entry /\ Record(e) /\ settled' = settled
    BY <1>2, LenProperties DEF Entry, HostCall, OutcomeInv, TypeInv, List
  <2> HIDE DEF e
  <2>2. ASSUME NEW r \in Request, rAccepted'[r] # rAccepted[r]
        PROVE  Longer(rAccepted[r], e, rAccepted'[r]) /\ e.effective
    <3>1. Longer(rAccepted[r], e, rAccepted'[r])
      BY <2>1, <2>2, Recorded DEF OutcomeInv
    <3>2. ASSUME ~e.effective PROVE rAccepted'[r] = rAccepted[r]
      BY <2>1, <3>2, Appended DEF Record, OutcomeInv, TypeInv
    <3> QED
      BY <2>2, <3>1, <3>2
  <2>3. ASSUME NEW r \in Request
        PROVE  SettledUpTo(rAccepted'[r], settled[r])
    <3>1. /\ settled[r] \in 0 .. Len(rAccepted[r]) /\ Len(rAccepted[r]) \in Nat
          /\ \A i \in settled[r] + 1 .. Len(rAccepted[r]) : rAccepted[r][i].effective
          /\ SettledUpTo(rAccepted[r], settled[r])
      BY LenProperties DEF SettledInv, SettledUpTo, OutcomeInv, TypeInv, List
    <3>2. CASE rAccepted'[r] = rAccepted[r]
      BY <3>1, <3>2
    <3>3. CASE Longer(rAccepted[r], e, rAccepted'[r]) /\ e.effective
      <4>1. /\ Len(rAccepted'[r]) = Len(rAccepted[r]) + 1
            /\ \A i \in 1 .. Len(rAccepted[r]) : rAccepted'[r][i] = rAccepted[r][i]
            /\ rAccepted'[r][Len(rAccepted[r]) + 1].effective
        BY <3>3 DEF Longer
      <4>2. \A i \in settled[r] + 1 .. Len(rAccepted[r]) + 1 :
              i \in settled[r] + 1 .. Len(rAccepted[r]) \/ i = Len(rAccepted[r]) + 1
        BY <3>1
      <4>3. settled[r] + 1 .. Len(rAccepted[r]) \subseteq 1 .. Len(rAccepted[r])
        BY <3>1
      <4>4. \A i \in settled[r] + 1 .. Len(rAccepted'[r]) : rAccepted'[r][i].effective
        BY <3>1, <4>1, <4>2, <4>3
      <4>5. 1 .. settled[r] \subseteq 1 .. Len(rAccepted[r]) /\ settled[r] \in 0 .. Len(rAccepted'[r])
        BY <3>1, <4>1
      <4>6. \A i \in 1 .. settled[r] : rAccepted'[r][i] = rAccepted[r][i]
        BY <4>1, <4>5
      <4> QED
        BY <3>1, <4>4, <4>5, <4>6 DEF SettledUpTo
    <3> QED
      BY <2>2, <3>2, <3>3
  <2> QED
    BY <2>1, <2>3 DEF SettledInv
<1>3. ASSUME NEW failed \in BOOLEAN, Finish(failed) PROVE SettledInv'
  <2> DEFINE s == rAccepted[active]
             d == Decided(s, failed)
  <2>1. /\ active \in Request /\ s \in List /\ d \in List
        /\ rAccepted' = [rAccepted EXCEPT ![active] = d]
        /\ settled' = [settled EXCEPT ![active] = Len(s)]
        /\ rAccepted \in [Request -> List] /\ settled \in [Request -> Nat]
    BY <1>3, Finished DEF OutcomeInv, TypeInv, Finish
  <2>2. /\ Len(d) = Len(s) /\ Len(s) \in Nat
        /\ \A i \in 1 .. Len(s) : /\ d[i].effective = Survives(s, failed, i)
                                  /\ d[i].cmd = s[i].cmd
    <3>1. \A i \in 1 .. Len(s) :
            /\ s[i] \in Entry
            /\ d[i] = Marked(s[i], Survives(s, failed, i))
            /\ d[i].effective = Survives(s, failed, i)
      BY <2>1, DecidedList, ElementOfSeq DEF List
    <3>2. \A i \in 1 .. Len(s) : d[i].cmd = s[i].cmd
      BY <3>1 DEF Marked, Entry
    <3> QED
      BY <2>1, <3>1, <3>2, DecidedList, LenProperties DEF List
  <2> HIDE DEF d, s
  <2>3. rAccepted'[active] = d /\ settled'[active] = Len(s)
    BY <2>1
  <2>4. SettledUpTo(d, Len(s))
    <3>1. \A i, j \in 1 .. Len(s) :
             i # j /\ s[i].cmd = s[j].cmd /\ s[i].cmd \in Verdict
               => ~ Survives(s, failed, i) \/ ~ Survives(s, failed, j)
      BY <2>1, OneSurvives
    <3> QED
      BY <2>2, <3>1 DEF SettledUpTo
  <2>5. \A r \in Request : r # active => rAccepted'[r] = rAccepted[r] /\ settled'[r] = settled[r]
    BY <2>1
  <2> QED
    BY <2>3, <2>4, <2>5 DEF SettledInv
<1> QED
  BY <1>1, <1>2, <1>3 DEF Next, Enter, LeaveRun, lists, vars

\* Of each verdict at most one settled entry is effective.
LEMMA SettledHolds == Spec => []SettledInv
<1>1. Init => SettledInv
  <2>1. Len(<<>>) = 0 /\ SettledUpTo(<<>>, 0)
    BY DEF SettledUpTo
  <2> QED
    BY <2>1 DEF Init, SettledInv
<1> QED
  BY <1>1, SettledStep, OutcomeHolds, PTL DEF Spec


\* A set of naturals below a bound that is not empty has a least and a greatest
\* element: of its parts up to x, and of those from x on, one is minimal.
LEMMA Extremes ==
  ASSUME NEW n \in Nat, NEW S \in SUBSET (0 .. n), S # {}
  PROVE  (\E x \in S : \A y \in S : x <= y) /\ (\E x \in S : \A y \in S : y <= x)
<1> DEFINE Down(x) == {y \in S : y <= x}
           Up(x) == {y \in S : x <= y}
<1>1. IsFiniteSet(S)
  <2>1. IsFiniteSet(0 .. n)
    BY FS_Interval
  <2> QED
    BY <2>1, FS_Subset
<1>2. /\ {Down(x) : x \in S} \subseteq FiniteSubsetsOf(S)
      /\ {Up(x) : x \in S} \subseteq FiniteSubsetsOf(S)
  <2>1. \A x \in S : Down(x) \in SUBSET S /\ Up(x) \in SUBSET S
    OBVIOUS
  <2> QED
    BY <1>1, <2>1, FS_Subset DEF FiniteSubsetsOf
<1>3. PICK d \in {Down(x) : x \in S} : \A t \in {Down(x) : x \in S} : ~ (<<t, d>> \in StrictSubsetOrdering(S))
  <2>1. \E x \in S : Down(x) \in {Down(w) : w \in S}
    OBVIOUS
  <2> QED
    BY <1>1, <1>2, <2>1, WFMin, FS_StrictSubsetOrderingWellFounded, Zenon
<1>4. PICK u \in {Up(x) : x \in S} : \A t \in {Up(x) : x \in S} : ~ (<<t, u>> \in StrictSubsetOrdering(S))
  <2>1. \E x \in S : Up(x) \in {Up(w) : w \in S}
    OBVIOUS
  <2> QED
    BY <1>1, <1>2, <2>1, WFMin, FS_StrictSubsetOrderingWellFounded, Zenon
<1>5. \A t, v \in SUBSET S : t \subseteq v /\ t # v => <<t, v>> \in StrictSubsetOrdering(S)
  BY DEF StrictSubsetOrdering
<1>6. PICK x \in S : d = Down(x)
  OBVIOUS
<1>7. PICK z \in S : u = Up(z)
  OBVIOUS
<1>8. ASSUME NEW y \in S, ~(x <= y) PROVE FALSE
  <2>1. x \in Int /\ y \in Int /\ y < x /\ \A w \in S : w \in Int
    BY <1>8
  <2>2. Down(y) \subseteq Down(x)
    <3>1. \A w \in S : w <= y => w <= x
      BY <2>1
    <3> QED
      BY <3>1
  <2>3. x \in Down(x) /\ x \notin Down(y) /\ Down(x) \in SUBSET S /\ Down(y) \in SUBSET S
    BY <2>1
  <2>4. <<Down(y), Down(x)>> \in StrictSubsetOrdering(S)
    BY <1>5, <2>2, <2>3
  <2> QED
    BY <1>3, <1>6, <2>4
<1>9. ASSUME NEW y \in S, ~(y <= z) PROVE FALSE
  <2>1. z \in Int /\ y \in Int /\ z < y /\ \A w \in S : w \in Int
    BY <1>9
  <2>2. Up(y) \subseteq Up(z)
    <3>1. \A w \in S : y <= w => z <= w
      BY <2>1
    <3> QED
      BY <3>1
  <2>3. z \in Up(z) /\ z \notin Up(y) /\ Up(z) \in SUBSET S /\ Up(y) \in SUBSET S
    BY <2>1
  <2>4. <<Up(y), Up(z)>> \in StrictSubsetOrdering(S)
    BY <1>5, <2>2, <2>3
  <2> QED
    BY <1>4, <1>7, <2>4
<1> QED
  BY <1>8, <1>9

\* The pending verdicts and the registers of a list settled up to n.
PendingOf(s, n) ==
  {[cmd |-> s[i].cmd, id |-> s[i].index] : i \in {i \in n + 1 .. Len(s) : s[i].cmd \in Verdict}}
WinnerOf(s, n, c) == {s[i].index : i \in {i \in 1 .. n : Stands(s, c, i)}}

IssuedIn(P, c) == {p.id : p \in {p \in P : p.cmd = c}}
FirstIn(P, W, c) == IF W = {} THEN {i \in IssuedIn(P, c) : \A j \in IssuedIn(P, c) : i <= j} ELSE W
LatestIn(P, W, c) == IF IssuedIn(P, c) = {} THEN W ELSE {i \in IssuedIn(P, c) : \A j \in IssuedIn(P, c) : j <= i}

\* i is the first, or the last, entry of s by which command c stands.
FirstStands(s, c, i) == Stands(s, c, i) /\ ~ \E j \in 1 .. i - 1 : Stands(s, c, j)
LastStands(s, c, i) == Stands(s, c, i) /\ ~ \E j \in i + 1 .. Len(s) : Stands(s, c, j)

\* What is pending under a command are the unsettled entries of the command.
LEMMA IssuedEntries ==
  ASSUME NEW s \in List, NEW n \in Nat, NEW c \in Verdict, NEW x
  PROVE  /\ x \in IssuedIn(PendingOf(s, n), c) <=> \E i \in n + 1 .. Len(s) : s[i].cmd = c /\ x = s[i].index
         /\ x \in WinnerOf(s, n, c) <=> \E i \in 1 .. n : Stands(s, c, i) /\ x = s[i].index
<1>1. ASSUME x \in IssuedIn(PendingOf(s, n), c)
      PROVE  \E i \in n + 1 .. Len(s) : s[i].cmd = c /\ x = s[i].index
  <2>1. PICK p \in PendingOf(s, n) : p.cmd = c /\ x = p.id
    BY <1>1 DEF IssuedIn
  <2>2. PICK i \in n + 1 .. Len(s) : p = [cmd |-> s[i].cmd, id |-> s[i].index]
    BY <2>1 DEF PendingOf
  <2> QED
    BY <2>1, <2>2
<1>2. ASSUME NEW i \in n + 1 .. Len(s), s[i].cmd = c, x = s[i].index
      PROVE  x \in IssuedIn(PendingOf(s, n), c)
  <2> DEFINE p == [cmd |-> s[i].cmd, id |-> s[i].index]
  <2>1. p \in PendingOf(s, n) /\ p.cmd = c /\ p.id = x
    BY <1>2 DEF PendingOf
  <2> HIDE DEF p
  <2> QED
    BY <2>1 DEF IssuedIn
<1>3. x \in WinnerOf(s, n, c) <=> \E i \in 1 .. n : Stands(s, c, i) /\ x = s[i].index
  BY DEF WinnerOf
<1> QED
  BY <1>1, <1>2, <1>3


\* The first of a register is the first entry its command stands by: the settled
\* one if there is one, and else the pending one of the least index.
LEMMA FirstEntry ==
  ASSUME NEW s \in List, Ascending(s), NEW n \in Nat, SettledUpTo(s, n), NEW c \in Verdict, NEW x
  PROVE  x \in FirstIn(PendingOf(s, n), WinnerOf(s, n, c), c)
           <=> \E i \in 1 .. Len(s) : FirstStands(s, c, i) /\ x = s[i].index
<1> DEFINE I == IssuedIn(PendingOf(s, n), c)
           W == WinnerOf(s, n, c)
           F == FirstIn(PendingOf(s, n), WinnerOf(s, n, c), c)
           G == \E i \in 1 .. Len(s) : FirstStands(s, c, i) /\ x = s[i].index
<1>1. /\ \A y : y \in I <=> \E i \in n + 1 .. Len(s) : s[i].cmd = c /\ y = s[i].index
      /\ \A y : y \in W <=> \E i \in 1 .. n : Stands(s, c, i) /\ y = s[i].index
  BY IssuedEntries
<1>2. /\ Len(s) \in Nat /\ n \in 0 .. Len(s)
      /\ \A i \in 1 .. Len(s) : s[i].index \in Nat
  <2>1. \A i \in 1 .. Len(s) : s[i] \in Entry
    BY ElementOfSeq DEF List
  <2> QED
    BY <2>1, LenProperties DEF List, Entry, SettledUpTo
<1>3. F = IF W = {} THEN {i \in I : \A j \in I : i <= j} ELSE W
  BY DEF FirstIn
<1>4. \A i \in n + 1 .. Len(s) : s[i].cmd = c <=> Stands(s, c, i)
  BY DEF SettledUpTo, Stands
<1>5. \A i, j \in 1 .. n : Stands(s, c, i) /\ Stands(s, c, j) => i = j
  BY DEF SettledUpTo, Stands
<1>6. \A i, j \in 1 .. Len(s) : i < j <=> s[i].index < s[j].index
  BY <1>2 DEF Ascending
<1> HIDE DEF I, W, F
<1>7. ASSUME W = {} PROVE x \in F <=> G
  <2>1. \A i \in 1 .. n : ~ Stands(s, c, i)
    BY <1>1, <1>7
  <2>2. ASSUME NEW i \in n + 1 .. Len(s), s[i].cmd = c, x = s[i].index, \A j \in I : x <= j
        PROVE  FirstStands(s, c, i)
    <3>1. ASSUME NEW j \in 1 .. i - 1, Stands(s, c, j) PROVE FALSE
      <4>1. j \in n + 1 .. Len(s) /\ i \in 1 .. Len(s) /\ j \in 1 .. Len(s) /\ j < i
        BY <1>2, <2>1, <3>1
      <4>2. s[j].index \in I
        BY <1>1, <1>4, <3>1, <4>1
      <4> QED
        BY <1>2, <1>6, <2>2, <4>1, <4>2
    <3> QED
      BY <1>4, <2>2, <3>1 DEF FirstStands
  <2>3. ASSUME NEW i \in 1 .. Len(s), FirstStands(s, c, i), x = s[i].index
        PROVE  x \in I /\ \A j \in I : x <= j
    <3>1. i \in n + 1 .. Len(s) /\ s[i].cmd = c
      BY <1>2, <2>1, <2>3 DEF FirstStands, Stands
    <3>2. ASSUME NEW k \in n + 1 .. Len(s), s[k].cmd = c PROVE s[i].index <= s[k].index
      <4>1. k \in 1 .. Len(s) /\ Stands(s, c, k)
        BY <1>2, <1>4, <3>2
      <4>2. ~ (k < i)
        BY <1>2, <2>3, <4>1 DEF FirstStands
      <4> QED
        BY <1>2, <1>6, <4>1, <4>2
    <3> QED
      BY <1>1, <2>3, <3>1, <3>2
  <2>4. n + 1 .. Len(s) \subseteq 1 .. Len(s)
    BY <1>2
  <2> QED
    BY <1>1, <1>3, <1>7, <2>2, <2>3, <2>4
<1>8. ASSUME W # {} PROVE x \in F <=> G
  <2>1. PICK k \in 1 .. n : Stands(s, c, k)
    BY <1>1, <1>8
  <2>2. \A i \in 1 .. Len(s) : FirstStands(s, c, i) <=> i = k
    <3>1. ASSUME NEW i \in 1 .. Len(s), FirstStands(s, c, i) PROVE i = k
      <4>1. ~ (k < i)
        BY <1>2, <2>1, <3>1 DEF FirstStands
      <4> QED
        BY <1>2, <1>5, <2>1, <3>1, <4>1 DEF FirstStands
    <3>2. FirstStands(s, c, k)
      <4>1. \A j \in 1 .. k - 1 : j \in 1 .. n /\ j # k
        BY <1>2, <2>1
      <4> QED
        BY <1>5, <2>1, <4>1 DEF FirstStands
    <3> QED
      BY <3>1, <3>2
  <2>3. x \in W <=> x = s[k].index
    BY <1>1, <1>5, <2>1
  <2>4. k \in 1 .. Len(s)
    BY <1>2, <2>1
  <2> QED
    BY <1>3, <1>8, <2>2, <2>3, <2>4
<1> QED
  BY <1>7, <1>8 DEF F

\* The latest of a register is the last entry its command stands by: the pending
\* one of the greatest index, and the settled one if nothing is pending.
LEMMA LatestEntry ==
  ASSUME NEW s \in List, Ascending(s), NEW n \in Nat, SettledUpTo(s, n), NEW c \in Verdict, NEW x
  PROVE  x \in LatestIn(PendingOf(s, n), WinnerOf(s, n, c), c)
           <=> \E i \in 1 .. Len(s) : LastStands(s, c, i) /\ x = s[i].index
<1> DEFINE I == IssuedIn(PendingOf(s, n), c)
           W == WinnerOf(s, n, c)
           F == LatestIn(PendingOf(s, n), WinnerOf(s, n, c), c)
           G == \E i \in 1 .. Len(s) : LastStands(s, c, i) /\ x = s[i].index
<1>1. /\ \A y : y \in I <=> \E i \in n + 1 .. Len(s) : s[i].cmd = c /\ y = s[i].index
      /\ \A y : y \in W <=> \E i \in 1 .. n : Stands(s, c, i) /\ y = s[i].index
  BY IssuedEntries
<1>2. /\ Len(s) \in Nat /\ n \in 0 .. Len(s)
      /\ \A i \in 1 .. Len(s) : s[i].index \in Nat
  <2>1. \A i \in 1 .. Len(s) : s[i] \in Entry
    BY ElementOfSeq DEF List
  <2> QED
    BY <2>1, LenProperties DEF List, Entry, SettledUpTo
<1>3. F = IF I = {} THEN W ELSE {i \in I : \A j \in I : j <= i}
  BY DEF LatestIn
<1>4. \A i \in n + 1 .. Len(s) : s[i].cmd = c <=> Stands(s, c, i)
  BY DEF SettledUpTo, Stands
<1>5. \A i, j \in 1 .. n : Stands(s, c, i) /\ Stands(s, c, j) => i = j
  BY DEF SettledUpTo, Stands
<1>6. \A i, j \in 1 .. Len(s) : i < j <=> s[i].index < s[j].index
  BY <1>2 DEF Ascending
<1>7. n + 1 .. Len(s) \subseteq 1 .. Len(s) /\ 1 .. n \subseteq 1 .. Len(s)
  BY <1>2
<1> HIDE DEF I, W, F
<1>8. ASSUME I = {} PROVE x \in F <=> G
  <2>1. \A i \in n + 1 .. Len(s) : ~ Stands(s, c, i)
    BY <1>1, <1>4, <1>8
  <2>2. \A i \in 1 .. Len(s) : LastStands(s, c, i) <=> i \in 1 .. n /\ Stands(s, c, i)
    <3>1. ASSUME NEW i \in 1 .. Len(s), LastStands(s, c, i) PROVE i \in 1 .. n /\ Stands(s, c, i)
      BY <1>2, <2>1, <3>1 DEF LastStands
    <3>2. ASSUME NEW i \in 1 .. n, Stands(s, c, i) PROVE LastStands(s, c, i)
      <4>1. ASSUME NEW j \in i + 1 .. Len(s), Stands(s, c, j) PROVE FALSE
        <5>1. j \in 1 .. n \/ j \in n + 1 .. Len(s)
          BY <1>2
        <5>2. j # i
          BY <1>2
        <5> QED
          BY <1>5, <2>1, <3>2, <4>1, <5>1, <5>2
      <4> QED
        BY <3>2, <4>1 DEF LastStands
    <3> QED
      BY <3>1, <3>2
  <2> QED
    BY <1>1, <1>3, <1>7, <1>8, <2>2
<1>9. ASSUME I # {} PROVE x \in F <=> G
  <2>1. PICK l \in n + 1 .. Len(s) : Stands(s, c, l)
    BY <1>1, <1>4, <1>9
  <2>2. ASSUME NEW i \in n + 1 .. Len(s), s[i].cmd = c, x = s[i].index, \A j \in I : j <= x
        PROVE  LastStands(s, c, i)
    <3>1. ASSUME NEW j \in i + 1 .. Len(s), Stands(s, c, j) PROVE FALSE
      <4>1. j \in n + 1 .. Len(s) /\ i \in 1 .. Len(s) /\ j \in 1 .. Len(s) /\ i < j
        BY <1>2
      <4>2. s[j].index \in I
        BY <1>1, <1>4, <3>1, <4>1
      <4> QED
        BY <1>2, <1>6, <2>2, <4>1, <4>2
    <3> QED
      BY <1>4, <2>2, <3>1 DEF LastStands
  <2>3. ASSUME NEW i \in 1 .. Len(s), LastStands(s, c, i), x = s[i].index
        PROVE  x \in I /\ \A j \in I : j <= x
    <3>1. i \in n + 1 .. Len(s) /\ s[i].cmd = c
      <4>1. ~ (i < l)
        BY <1>2, <2>1, <2>3 DEF LastStands
      <4> QED
        BY <1>2, <2>1, <2>3, <4>1 DEF LastStands, Stands
    <3>2. ASSUME NEW k \in n + 1 .. Len(s), s[k].cmd = c PROVE s[k].index <= s[i].index
      <4>1. k \in 1 .. Len(s) /\ Stands(s, c, k)
        BY <1>2, <1>4, <3>2
      <4>2. ~ (i < k)
        BY <1>2, <2>3, <4>1 DEF LastStands
      <4> QED
        BY <1>2, <1>6, <4>1, <4>2
    <3> QED
      BY <1>1, <2>3, <3>1, <3>2
  <2> QED
    BY <1>1, <1>3, <1>7, <1>9, <2>2, <2>3
<1> QED
  BY <1>8, <1>9 DEF F

\* There is a first entry a command stands by when there is any.
LEMMA FirstIsThere ==
  ASSUME NEW s \in List, NEW c, NEW k \in 1 .. Len(s), Stands(s, c, k)
  PROVE  \E i \in 1 .. Len(s) : FirstStands(s, c, i)
<1> DEFINE S == {i \in 1 .. Len(s) : Stands(s, c, i)}
<1>1. Len(s) \in Nat
  BY LenProperties DEF List
<1>2. S \in SUBSET (0 .. Len(s)) /\ S # {}
  BY <1>1
<1>3. PICK i \in S : \A j \in S : i <= j
  <2> HIDE DEF S
  <2> QED
    BY <1>1, <1>2, Extremes
<1>4. \A j \in 1 .. i - 1 : j \in 1 .. Len(s) /\ ~ (i <= j)
  BY <1>1
<1> QED
  BY <1>3, <1>4 DEF FirstStands


\* Which entries of a command survive, in the terms of the registers.
LEMMA SurvivorsStand ==
  ASSUME NEW s \in List, NEW failed \in BOOLEAN, NEW c \in Verdict, NEW i \in 1 .. Len(s)
  PROVE  /\ c = Block => (s[i].cmd = c /\ Survives(s, failed, i) <=> FirstStands(s, c, i))
         /\ c = Respond => (s[i].cmd = c /\ Survives(s, failed, i)
              <=> ~failed /\ FirstStands(s, c, i) /\ ~ \E j \in 1 .. Len(s) : Stands(s, Block, j))
         /\ c \notin {Block, Respond} =>
              (s[i].cmd = c /\ Survives(s, failed, i) <=> ~failed /\ LastStands(s, c, i))
<1>1. Block # Respond /\ Block \notin {Route, Identity} /\ Respond \notin {Route, Identity}
  BY DEF Block, Respond, Route, Identity
<1>2. CASE c = Block
  BY <1>1, <1>2 DEF Survives, FirstStands, Stands
<1>3. CASE c = Respond
  BY <1>1, <1>3 DEF Survives, FirstStands, Stands
<1>4. CASE c \in {Route, Identity}
  BY <1>1, <1>4 DEF Survives, LastStands, Stands
<1> QED
  BY <1>2, <1>3, <1>4 DEF Verdict

\* What a settled register of command c holds, when w is what the getters read.
SettledRegister(P, w, failed, c) ==
  CASE c = Block -> FirstIn(P, w[Block], Block)
    [] c = Respond -> IF FirstIn(P, w[Block], Block) # {} \/ failed THEN {} ELSE FirstIn(P, w[c], c)
    [] OTHER -> IF failed THEN {} ELSE LatestIn(P, w[c], c)

\* finalize settles every register at once and leaves nothing pending.
LEMMA RegistersSettle ==
  ASSUME NEW s \in List, Ascending(s), NEW n \in Nat, SettledUpTo(s, n), NEW failed \in BOOLEAN,
         NEW d, d = Decided(s, failed), NEW w, w = [c \in Verdict |-> WinnerOf(s, n, c)]
  PROVE  /\ PendingOf(d, Len(s)) = {}
         /\ \A c \in Verdict : WinnerOf(d, Len(s), c) = SettledRegister(PendingOf(s, n), w, failed, c)
<1>1. /\ d \in List /\ Len(d) = Len(s) /\ Len(s) \in Nat
      /\ \A i \in 1 .. Len(s) : /\ d[i].index = s[i].index
                                /\ d[i].effective = Survives(s, failed, i)
                                /\ d[i].cmd = s[i].cmd
  <2>1. \A i \in 1 .. Len(s) :
          /\ s[i] \in Entry
          /\ d[i] = Marked(s[i], Survives(s, failed, i))
          /\ d[i].index = s[i].index
          /\ d[i].effective = Survives(s, failed, i)
    BY DecidedList, ElementOfSeq DEF List
  <2>2. \A i \in 1 .. Len(s) : d[i].cmd = s[i].cmd
    BY <2>1 DEF Marked, Entry
  <2> QED
    BY <2>1, <2>2, DecidedList, LenProperties DEF List
<1>2. PendingOf(d, Len(s)) = {}
  BY <1>1 DEF PendingOf
<1>3. ASSUME NEW c \in Verdict, NEW x
      PROVE  x \in WinnerOf(d, Len(s), c)
               <=> \E i \in 1 .. Len(s) : (s[i].cmd = c /\ Survives(s, failed, i)) /\ x = s[i].index
  <2>1. x \in WinnerOf(d, Len(s), c) <=> \E i \in 1 .. Len(s) : Stands(d, c, i) /\ x = d[i].index
    BY DEF WinnerOf
  <2> QED
    BY <1>1, <2>1 DEF Stands
<1>4. FirstIn(PendingOf(s, n), w[Block], Block) = {} <=> ~ \E j \in 1 .. Len(s) : Stands(s, Block, j)
  <2> DEFINE F == FirstIn(PendingOf(s, n), w[Block], Block)
  <2>1. w[Block] = WinnerOf(s, n, Block) /\ Block \in Verdict
    BY DEF Verdict
  <2>2. \A x : x \in F <=> \E i \in 1 .. Len(s) : FirstStands(s, Block, i) /\ x = s[i].index
    BY <2>1, FirstEntry
  <2> HIDE DEF F
  <2>3. ASSUME NEW j \in 1 .. Len(s), Stands(s, Block, j) PROVE F # {}
    <3>1. PICK i \in 1 .. Len(s) : FirstStands(s, Block, i)
      BY <2>3, FirstIsThere
    <3> QED
      BY <2>2, <3>1
  <2>4. ASSUME F # {} PROVE \E j \in 1 .. Len(s) : Stands(s, Block, j)
    BY <2>2, <2>4 DEF FirstStands
  <2> QED
    BY <2>3, <2>4 DEF F
<1>5. ASSUME NEW c \in Verdict
      PROVE  WinnerOf(d, Len(s), c) = SettledRegister(PendingOf(s, n), w, failed, c)
  <2>1. w[c] = WinnerOf(s, n, c)
    OBVIOUS
  <2>2. CASE c = Block
    <3> DEFINE F == FirstIn(PendingOf(s, n), w[Block], Block)
    <3>1. SettledRegister(PendingOf(s, n), w, failed, c) = F
      BY <2>2 DEF SettledRegister, Block, Respond
    <3>2. \A x : x \in F <=> \E i \in 1 .. Len(s) : FirstStands(s, c, i) /\ x = s[i].index
      BY <2>1, <2>2, FirstEntry
    <3>3. \A i \in 1 .. Len(s) : s[i].cmd = c /\ Survives(s, failed, i) <=> FirstStands(s, c, i)
      BY <2>2, SurvivorsStand
    <3> HIDE DEF F
    <3>4. \A x : x \in WinnerOf(d, Len(s), c) <=> x \in F
      BY <1>3, <3>2, <3>3
    <3> QED
      BY <3>1, <3>4
  <2>3. CASE c = Respond
    <3> DEFINE blocked == \E j \in 1 .. Len(s) : Stands(s, Block, j)
               F == FirstIn(PendingOf(s, n), w[c], c)
    <3>1. SettledRegister(PendingOf(s, n), w, failed, c) = IF blocked \/ failed THEN {} ELSE F
      BY <1>4, <2>3 DEF SettledRegister, Block, Respond
    <3>2. \A x : x \in F <=> \E i \in 1 .. Len(s) : FirstStands(s, c, i) /\ x = s[i].index
      BY <2>1, FirstEntry
    <3>3. \A i \in 1 .. Len(s) : s[i].cmd = c /\ Survives(s, failed, i)
                                   <=> ~failed /\ FirstStands(s, c, i) /\ ~ blocked
      BY <2>3, SurvivorsStand DEF Block, Respond
    <3> HIDE DEF blocked, F
    <3>4. \A x : x \in WinnerOf(d, Len(s), c) <=> ~ blocked /\ ~ failed /\ x \in F
      BY <1>3, <3>2, <3>3
    <3> QED
      BY <3>1, <3>4
  <2>4. CASE c \notin {Block, Respond}
    <3> DEFINE L == LatestIn(PendingOf(s, n), w[c], c)
    <3>1. SettledRegister(PendingOf(s, n), w, failed, c) = IF failed THEN {} ELSE L
      BY <2>4 DEF SettledRegister
    <3>2. \A x : x \in L <=> \E i \in 1 .. Len(s) : LastStands(s, c, i) /\ x = s[i].index
      BY <2>1, LatestEntry
    <3>3. \A i \in 1 .. Len(s) : s[i].cmd = c /\ Survives(s, failed, i) <=> ~failed /\ LastStands(s, c, i)
      BY <2>4, SurvivorsStand
    <3> HIDE DEF L
    <3>4. \A x : x \in WinnerOf(d, Len(s), c) <=> ~ failed /\ x \in L
      BY <1>3, <3>2, <3>3
    <3> QED
      BY <3>1, <3>4
  <2> QED
    BY <2>2, <2>3, <2>4
<1> QED
  BY <1>2, <1>5

\* The mapped variables of a request.
LEMMA Mapped ==
  /\ Pending = [r \in Request |-> PendingOf(rAccepted[r], settled[r])]
  /\ Winner = [r \in Request |-> [c \in Verdict |-> WinnerOf(rAccepted[r], settled[r], c)]]
BY DEF Pending, Winner, PendingOf, WinnerOf

\* No verdict, nothing pending.
LEMMA RegisterInit == Init => Register!Init
<1> SUFFICES ASSUME Init PROVE Register!Init
  OBVIOUS
<1>1. PendingOf(<<>>, 0) = {} /\ \A c \in Verdict : WinnerOf(<<>>, 0, c) = {}
  BY DEF PendingOf, WinnerOf
<1>2. \A r \in Request : rAccepted[r] = <<>> /\ settled[r] = 0
  BY DEF Init
<1>3. Pending = [r \in Request |-> {}] /\ Winner = [r \in Request |-> [c \in Verdict |-> {}]]
  BY <1>1, <1>2, Mapped
<1> QED
  BY <1>3 DEF Register!Init, Register!Verdict, Verdict, Block, Respond, Route, Identity

\* finalize is the settling of the request's registers.
LEMMA FinishSettles ==
  ASSUME OutcomeInv, SettledInv, NEW failed \in BOOLEAN, Finish(failed)
  PROVE  Register!Settle(active, failed)
<1> DEFINE s == rAccepted[active]
           n == settled[active]
           d == Decided(s, failed)
           w == [c \in Verdict |-> WinnerOf(s, n, c)]
<1>1. /\ active \in Request /\ s \in List /\ Ascending(s) /\ n \in Nat /\ SettledUpTo(s, n)
      /\ rAccepted' = [rAccepted EXCEPT ![active] = d]
      /\ settled' = [settled EXCEPT ![active] = Len(s)]
      /\ rAccepted \in [Request -> List] /\ settled \in [Request -> Nat]
  BY Finished DEF OutcomeInv, TypeInv, OrderInv, SettledInv, Finish
<1>2. /\ PendingOf(d, Len(s)) = {}
      /\ \A c \in Verdict : WinnerOf(d, Len(s), c) = SettledRegister(PendingOf(s, n), w, failed, c)
  <2>1. d = Decided(s, failed) /\ w = [c \in Verdict |-> WinnerOf(s, n, c)]
    OBVIOUS
  <2> HIDE DEF s, n, d, w
  <2> QED
    BY <1>1, <2>1, RegistersSettle
<1>3. Pending[active] = PendingOf(s, n) /\ Winner[active] = w
  BY <1>1, Mapped
<1> HIDE DEF s, n, d, w
<1>4. /\ Pending' = [r \in Request |-> PendingOf(rAccepted'[r], settled'[r])]
      /\ Winner' = [r \in Request |-> [c \in Verdict |-> WinnerOf(rAccepted'[r], settled'[r], c)]]
  BY DEF Pending, Winner, PendingOf, WinnerOf
<1>5. Pending' = [Pending EXCEPT ![active] = {}]
  BY <1>1, <1>2, <1>4, Mapped
<1>6. Winner' = [Winner EXCEPT ![active] = [c \in Verdict |-> SettledRegister(Pending[active], Winner[active], failed, c)]]
  BY <1>1, <1>2, <1>3, <1>4, Mapped
<1>7. Verdict = Register!Verdict
  BY DEF Verdict, Register!Verdict, Block, Respond, Route, Identity
<1>8. \A c \in Verdict : SettledRegister(Pending[active], Winner[active], failed, c) =
        CASE c = "env.block_request" -> Register!First(active, "env.block_request")
          [] c = "env.respond_request" ->
               IF Register!First(active, "env.block_request") # {} THEN {} ELSE IF failed THEN {} ELSE Register!First(active, c)
          [] OTHER -> IF failed THEN {} ELSE Register!Latest(active, c)
  BY DEF SettledRegister, FirstIn, LatestIn, IssuedIn, Register!First, Register!Latest, Register!Issued, Block, Respond
<1> QED
  BY <1>5, <1>6, <1>7, <1>8 DEF Register!Settle


\* A recorded call is accepted by the register of its request when it is an
\* effective verdict, and is nothing to the registers otherwise.
LEMMA CallAccepted ==
  ASSUME OutcomeInv, SettledInv, NEW cmd \in Command, NEW effective \in BOOLEAN, HostCall(cmd, effective)
  PROVE  (\E r \in Request : Register!Accept(r)) \/ UNCHANGED <<Pending, Winner>>
<1> DEFINE e == [cmd |-> cmd, index |-> Len(calls) + 1, effective |-> effective]
<1>1. e \in Entry /\ e.cmd = cmd /\ e.index = Len(calls) + 1 /\ Record(e) /\ settled' = settled
  BY LenProperties DEF Entry, HostCall, OutcomeInv, TypeInv, List
<1>2. e.index \in 1 .. MaxCalls
  BY <1>1, MaxCallsAssumption, LenProperties DEF HostCall, OutcomeInv, TypeInv, List
<1> HIDE DEF e
<1>3. \A r \in Request : rAccepted'[r] = rAccepted[r] \/ (r = active /\ Longer(rAccepted[r], e, rAccepted'[r]))
  BY <1>1, Recorded DEF OutcomeInv
<1>4. /\ Pending' = [r \in Request |-> PendingOf(rAccepted'[r], settled'[r])]
      /\ Winner' = [r \in Request |-> [c \in Verdict |-> WinnerOf(rAccepted'[r], settled'[r], c)]]
  BY DEF Pending, Winner, PendingOf, WinnerOf
<1>5. ASSUME NEW r \in Request, Longer(rAccepted[r], e, rAccepted'[r])
      PROVE  /\ PendingOf(rAccepted'[r], settled[r]) =
                  PendingOf(rAccepted[r], settled[r])
                    \cup (IF e.cmd \in Verdict THEN {[cmd |-> e.cmd, id |-> e.index]} ELSE {})
             /\ \A c \in Verdict : WinnerOf(rAccepted'[r], settled[r], c) = WinnerOf(rAccepted[r], settled[r], c)
  <2> DEFINE s == rAccepted[r]
             t == rAccepted'[r]
             n == settled[r]
             P(u, i) == [cmd |-> u[i].cmd, id |-> u[i].index]
             E == IF e.cmd \in Verdict THEN {[cmd |-> e.cmd, id |-> e.index]} ELSE {}
  <2>1. /\ Len(s) \in Nat /\ n \in 0 .. Len(s) /\ Len(t) = Len(s) + 1 /\ t[Len(s) + 1] = e
        /\ \A i \in 1 .. Len(s) : t[i] = s[i]
    BY <1>5, LenProperties DEF Longer, SettledInv, SettledUpTo, OutcomeInv, TypeInv, List
  <2> HIDE DEF s, t, n
  <2>2. /\ n + 1 .. Len(t) = (n + 1 .. Len(s)) \cup {Len(s) + 1}
        /\ n + 1 .. Len(s) \subseteq 1 .. Len(s) /\ 1 .. n \subseteq 1 .. Len(s)
    BY <2>1
  <2>3. \A x : x \in PendingOf(t, n) <=>
          \E i \in n + 1 .. Len(t) : t[i].cmd \in Verdict /\ x = P(t, i)
    BY DEF PendingOf
  <2>4. \A x : x \in PendingOf(s, n) <=>
          \E i \in n + 1 .. Len(s) : s[i].cmd \in Verdict /\ x = P(s, i)
    BY DEF PendingOf
  <2>5. \A i \in n + 1 .. Len(s) : t[i].cmd = s[i].cmd /\ P(t, i) = P(s, i)
    BY <2>1, <2>2
  <2>6. P(t, Len(s) + 1) = [cmd |-> e.cmd, id |-> e.index] /\ t[Len(s) + 1].cmd = e.cmd
    BY <2>1
  <2> HIDE DEF P
  <2>7. \A x : x \in PendingOf(t, n) <=>
          x \in PendingOf(s, n) \/ (e.cmd \in Verdict /\ x = [cmd |-> e.cmd, id |-> e.index])
    BY <2>2, <2>3, <2>4, <2>5, <2>6
  <2>8. PendingOf(t, n) = PendingOf(s, n) \cup E
    BY <2>7
  <2>9. \A c \in Verdict : WinnerOf(t, n, c) = WinnerOf(s, n, c)
    <3>1. \A i \in 1 .. n : t[i] = s[i]
      BY <2>1, <2>2
    <3> QED
      BY <3>1 DEF WinnerOf, Stands
  <2> QED
    BY <2>8, <2>9 DEF s, t, n
<1>6. CASE \A r \in Request : rAccepted'[r] = rAccepted[r]
  BY <1>1, <1>4, <1>6, Mapped
<1>7. ASSUME NEW q \in Request, rAccepted'[q] # rAccepted[q]
      PROVE  Register!Accept(active) \/ UNCHANGED <<Pending, Winner>>
  <2>1. q = active /\ active \in Request /\ Longer(rAccepted[active], e, rAccepted'[active])
    BY <1>3, <1>7
  <2>2. \A r \in Request : r # active => rAccepted'[r] = rAccepted[r]
    BY <1>3
  <2>3. Winner' = Winner
    BY <1>1, <1>4, <1>5, <2>1, <2>2, Mapped
  <2>4. CASE e.cmd \notin Verdict
    <3>1. Pending' = Pending
      BY <1>1, <1>4, <1>5, <2>1, <2>2, <2>4, Mapped
    <3> QED
      BY <2>3, <3>1
  <2>5. CASE e.cmd \in Verdict
    <3> DEFINE p == [cmd |-> e.cmd, id |-> e.index]
    <3>1. Pending' = [Pending EXCEPT ![active] = Pending[active] \cup {p}]
      BY <1>1, <1>4, <1>5, <2>1, <2>2, <2>5, Mapped
    <3>2. \A x \in Pending[active] : x.id < e.index
      <4>1. Pending[active] = PendingOf(rAccepted[active], settled[active])
        BY <2>1, Mapped
      <4>2. ASSUME NEW i \in settled[active] + 1 .. Len(rAccepted[active])
            PROVE  rAccepted[active][i].index < e.index
        <5>1. Copies(rAccepted[active], calls) /\ Len(rAccepted[active]) \in Nat /\ Len(calls) \in Nat
          BY <2>1, LenProperties DEF OutcomeInv, CopyInv, TypeInv, List
        <5>2. i \in 1 .. Len(rAccepted[active])
          BY <2>1, <5>1 DEF OutcomeInv, TypeInv
        <5>3. rAccepted[active][i].index \in 1 .. Len(calls)
          BY <5>1, <5>2 DEF Copies
        <5> QED
          BY <1>1, <5>1, <5>3
      <4> QED
        BY <4>1, <4>2 DEF PendingOf
    <3>3. e.cmd \in Register!Verdict
      BY <2>5 DEF Verdict, Register!Verdict, Block, Respond, Route, Identity
    <3>4. Register!Accept(active)
      BY <1>2, <2>3, <3>1, <3>2, <3>3 DEF Register!Accept
    <3> QED
      BY <3>4
  <2> QED
    BY <2>4, <2>5
<1> QED
  BY <1>3, <1>6, <1>7

\* Every step of the harness is a step of the registers, or none.
LEMMA RegisterStep == OutcomeInv /\ SettledInv /\ [Next]_vars => [Register!Next]_Register!vars
<1> SUFFICES ASSUME OutcomeInv, SettledInv, [Next]_vars PROVE Register!Next \/ UNCHANGED Register!vars
  OBVIOUS
<1>1. CASE UNCHANGED <<rAccepted, settled>>
  BY <1>1 DEF Register!vars, Pending, Winner, Stands
<1>2. ASSUME NEW cmd \in Command, NEW effective \in BOOLEAN, HostCall(cmd, effective)
      PROVE  Register!Next \/ UNCHANGED Register!vars
  BY <1>2, CallAccepted DEF Register!Next, Register!vars
<1>3. ASSUME NEW failed \in BOOLEAN, Finish(failed) PROVE Register!Next
  <2>1. active \in Request
    BY <1>3 DEF Finish, OutcomeInv, TypeInv
  <2> QED
    BY <1>3, <2>1, FinishSettles DEF Register!Next
<1> QED
  BY <1>1, <1>2, <1>3 DEF Next, Enter, LeaveRun, lists, vars

\* What the getters answer between invocations is what one register per verdict
\* would hold: first block, first response unless blocked, last route and last
\* identity, and a rollback on failure.
THEOREM OutcomeKeepsRegisters == Spec => KeepsRegisters
<1>1. Init => Register!Init
  BY RegisterInit
<1>2. OutcomeInv /\ SettledInv /\ [Next]_vars => [Register!Next]_Register!vars
  BY RegisterStep
<1> QED
  BY <1>1, <1>2, OutcomeHolds, SettledHolds, PTL DEF Spec, KeepsRegisters, Register!Spec
=============================================================================
