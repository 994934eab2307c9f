------------------------- MODULE DurableStateProofs -------------------------
(***************************************************************************)
(* What holds of the durable state of the native test host and of its      *)
(* clients for any keys, values, clients and number of versions, and not   *)
(* only for the small instances TLC checks.                                *)
(*                                                                         *)
(* The store: its two maps agree, and the env.state_* commands implement   *)
(* VersionedStore.  Sessions: no lost update and no reused version, since  *)
(* what a session remembers of a key can be trusted as long as the store   *)
(* still has the version it remembers.  Loops of state.go: no increment is *)
(* lost or repeated, and no scan misses a key that was there all along.    *)
(***************************************************************************)
EXTENDS StateSessions, StateLoops, FiniteSetTheorems, WellFoundedInduction, TLAPS

-----------------------------------------------------------------------------
(* Pages: facts about FirstOf and Max on finite sets of ranks. *)

\* A finite set of integers that is not empty has a greatest element: of the
\* sets of elements from x upwards, a minimal one belongs to it.
LEMMA GreatestElement ==
  ASSUME NEW S, IsFiniteSet(S), S \subseteq Int, S # {}
  PROVE  \E x \in S : \A y \in S : x >= y
<1> DEFINE Up(x) == {y \in S : y >= x}
           T == {Up(x) : x \in S}
<1>1. T \subseteq FiniteSubsetsOf(S) /\ T # {}
  <2>1. \A x \in S : Up(x) \in SUBSET S
    OBVIOUS
  <2>2. \A x \in S : IsFiniteSet(Up(x))
    BY <2>1, FS_Subset
  <2> QED BY <2>1, <2>2 DEF FiniteSubsetsOf
<1>2. PICK m \in T : \A t \in T : ~ (<<t, m>> \in StrictSubsetOrdering(S))
  BY <1>1, WFMin, FS_StrictSubsetOrderingWellFounded, Zenon
<1>3. PICK x \in S : m = Up(x)
  OBVIOUS
<1>4. \A y \in S : x >= y
  <2> SUFFICES ASSUME NEW y \in S, ~(x >= y) PROVE FALSE
    OBVIOUS
  <2> x \in Int /\ y \in Int /\ y > x
    OBVIOUS
  <2>1. Up(y) \subseteq Up(x) /\ Up(y) # Up(x)
    <3>1. ASSUME NEW z \in Up(y) PROVE z \in Up(x)
      <4>1. z \in S /\ z >= y /\ x \in Int /\ y \in Int /\ z \in Int
        OBVIOUS
      <4> QED BY <4>1
    <3>2. x \in Up(x) /\ x \notin Up(y)
      OBVIOUS
    <3> QED BY <3>1, <3>2
  <2>2. <<Up(y), Up(x)>> \in StrictSubsetOrdering(S)
    BY <2>1 DEF StrictSubsetOrdering
  <2> QED BY <1>2, <1>3, <2>2
<1> QED BY <1>4

\* The same from below.
LEMMA LeastElement ==
  ASSUME NEW S, IsFiniteSet(S), S \subseteq Int, S # {}
  PROVE  \E x \in S : \A y \in S : x =< y
<1> DEFINE Down(x) == {y \in S : y =< x}
           T == {Down(x) : x \in S}
<1>1. T \subseteq FiniteSubsetsOf(S) /\ T # {}
  <2>1. \A x \in S : Down(x) \in SUBSET S
    OBVIOUS
  <2>2. \A x \in S : IsFiniteSet(Down(x))
    BY <2>1, FS_Subset
  <2> QED BY <2>1, <2>2 DEF FiniteSubsetsOf
<1>2. PICK m \in T : \A t \in T : ~ (<<t, m>> \in StrictSubsetOrdering(S))
  BY <1>1, WFMin, FS_StrictSubsetOrderingWellFounded, Zenon
<1>3. PICK x \in S : m = Down(x)
  OBVIOUS
<1>4. \A y \in S : x =< y
  <2> SUFFICES ASSUME NEW y \in S, ~(x =< y) PROVE FALSE
    OBVIOUS
  <2> x \in Int /\ y \in Int /\ y < x
    OBVIOUS
  <2>1. Down(y) \subseteq Down(x) /\ Down(y) # Down(x)
    <3>1. ASSUME NEW z \in Down(y) PROVE z \in Down(x)
      <4>1. z \in S /\ z =< y /\ x \in Int /\ y \in Int /\ z \in Int
        OBVIOUS
      <4> QED BY <4>1
    <3>2. x \in Down(x) /\ x \notin Down(y)
      OBVIOUS
    <3> QED BY <3>1, <3>2
  <2>2. <<Down(y), Down(x)>> \in StrictSubsetOrdering(S)
    BY <2>1 DEF StrictSubsetOrdering
  <2> QED BY <1>2, <1>3, <2>2
<1> QED BY <1>4

\* The keys of the namespace are a finite set of positive numbers.
LEMMA SomeKeys ==
  ASSUME NEW keys \in SUBSET Key
  PROVE  IsFiniteSet(keys) /\ keys \subseteq Int
<1>1. IsFiniteSet(keys)
  BY KeyAssumption, FS_Subset
<1>2. keys \subseteq Int
  BY KeyAssumption
<1> QED BY <1>1, <1>2

\* A page of at least one key is empty only when there is nothing to list: it
\* always holds the least key.
LEMMA PageIsNotEmpty ==
  ASSUME NEW keys \in SUBSET Key, keys # {}, NEW limit \in Nat \ {0}
  PROVE  FirstOf(keys, limit) # {}
<1>1. PICK k \in keys : \A y \in keys : k =< y
  BY SomeKeys, LeastElement
<1>2. {j \in keys : j =< k} = {k}
  <2>1. \A j \in keys : j =< k => j = k
    BY <1>1, SomeKeys
  <2> QED BY <2>1, SomeKeys
<1>3. k \in FirstOf(keys, limit)
  BY <1>2, FS_Singleton DEF FirstOf
<1> QED BY <1>3

\* The last key of a page is one of its keys and no key of it is greater.
LEMMA LastOfPage ==
  ASSUME NEW page \in SUBSET Key, page # {}
  PROVE  Max(page) \in page /\ \A k \in page : k =< Max(page)
<1>1. \E x \in page : \A y \in page : x >= y
  BY SomeKeys, GreatestElement
<1>2. Max(page) \in page /\ \A y \in page : Max(page) >= y
  BY <1>1 DEF Max
<1> QED BY <1>2, SomeKeys

\* A page is an initial part of what is left to list: it never skips a key.
LEMMA PageSkipsNothing ==
  ASSUME NEW keys \in SUBSET Key, NEW limit \in Nat,
         NEW k \in FirstOf(keys, limit), NEW j \in keys, j =< k
  PROVE  j \in FirstOf(keys, limit)
<1> DEFINE Upto(x) == {y \in keys : y =< x}
<1>1. Upto(j) \in SUBSET Upto(k)
  <2> SUFFICES ASSUME NEW y \in keys, y =< j PROVE y =< k
    OBVIOUS
  <2>1. y \in Int /\ j \in Int /\ k \in Int
    BY SomeKeys DEF FirstOf
  <2> QED BY <2>1
<1>2. IsFiniteSet(Upto(k)) /\ IsFiniteSet(Upto(j))
  BY SomeKeys, FS_Subset
<1>3. Cardinality(Upto(j)) =< Cardinality(Upto(k))
  BY <1>1, <1>2, FS_Subset
<1>4. Cardinality(Upto(k)) =< limit
  BY DEF FirstOf
<1>5. Cardinality(Upto(j)) \in Nat /\ Cardinality(Upto(k)) \in Nat
  BY <1>2, FS_CardinalityType
<1>6. Cardinality(Upto(j)) =< limit
  BY <1>3, <1>4, <1>5
<1> QED BY <1>6 DEF FirstOf

\* A page never holds more keys than were asked for.
LEMMA PageFitsLimit ==
  ASSUME NEW keys \in SUBSET Key, NEW limit \in Nat
  PROVE  Cardinality(FirstOf(keys, limit)) =< limit
<1> DEFINE page == FirstOf(keys, limit)
<1>0. page \in SUBSET Key /\ page \subseteq keys
  BY DEF FirstOf
<1>1. CASE page = {}
  BY <1>1, FS_EmptySet
<1>2. CASE page # {}
  <2>1. Max(page) \in page /\ \A k \in page : k =< Max(page)
    BY <1>0, <1>2, LastOfPage
  <2>2. Cardinality({j \in keys : j =< Max(page)}) =< limit
    BY <2>1 DEF FirstOf
  <2>3. {j \in keys : j =< Max(page)} = page
    BY <1>0, <2>1, PageSkipsNothing
  <2> QED BY <2>2, <2>3
<1> QED BY <1>1, <1>2

-----------------------------------------------------------------------------
(* Type correctness *)

\* An answer without a value, a version or a page.
LEMMA AnswerType ==
  ASSUME NEW cmd \in Command, NEW k \in Key \cup {EmptyKey}, NEW code \in Code
  PROVE  Answer(cmd, k, code) \in Reply
BY DEF Answer, Reply

\* A conflict is a reply.
LEMMA ConflictType ==
  ASSUME NEW cmd \in Command, NEW k \in Key \cup {EmptyKey}, NEW expected \in Version \cup {NilVersion}
  PROVE  Conflict(cmd, k, expected) \in Reply
BY AnswerType DEF Conflict, Reply, Code

\* The answers that carry what the maps hold, or that a write was applied.
LEMMA FilledAnswerType ==
  ASSUME NEW r \in Reply
  PROVE  /\ [r EXCEPT !.applied = TRUE] \in Reply
         /\ \A v \in Value \cup {NoValue} : [r EXCEPT !.value = v] \in Reply
         /\ \A keys \in SUBSET Key : [r EXCEPT !.keys = keys] \in Reply
         /\ \A v \in Value \cup {NoValue}, ver \in Version \cup {NoVersion} :
              /\ [r EXCEPT !.value = v, !.version = ver] \in Reply
              /\ [r EXCEPT !.value = v, !.applied = TRUE, !.version = ver] \in Reply
         /\ \A page \in SUBSET StateEntry, last \in Key \cup {EmptyKey} :
              [r EXCEPT !.page = page, !.next = last] \in Reply
<1>1. \A v \in Value \cup {NoValue} : [r EXCEPT !.value = v] \in Reply
  BY DEF Reply
<1>2. [r EXCEPT !.applied = TRUE] \in Reply /\ \A keys \in SUBSET Key : [r EXCEPT !.keys = keys] \in Reply
  BY DEF Reply
<1>3. \A v \in Value \cup {NoValue}, ver \in Version \cup {NoVersion} :
        [r EXCEPT !.value = v, !.version = ver] \in Reply
  BY DEF Reply
<1>4. \A v \in Value \cup {NoValue}, ver \in Version \cup {NoVersion} :
        [r EXCEPT !.value = v, !.applied = TRUE, !.version = ver] \in Reply
  BY DEF Reply
<1>5. \A page \in SUBSET StateEntry, last \in Key \cup {EmptyKey} : [r EXCEPT !.page = page, !.next = last] \in Reply
  BY DEF Reply
<1> QED
  BY <1>1, <1>2, <1>3, <1>4, <1>5

\* A refused call keeps the types,
LEMMA RefusedType ==
  ASSUME TypeOK, NEW cmd \in Command, NEW k \in Key \cup {EmptyKey}, NEW valid,
         Refused(cmd, k, valid)
  PROVE  TypeOK'
<1>1. reply' \in Reply
  BY AnswerType DEF Refused, Code
<1> QED BY <1>1 DEF TypeOK, Refused, store

\* and so does a write of a typed value.
LEMMA WriteType ==
  ASSUME TypeOK, NEW k \in Key, NEW v \in Value, Write(k, v), reply' \in Reply
  PROVE  TypeOK'
<1>1. stateSeq + 1 \in Version /\ stateSeq + 1 \in 0 .. MaxSeq
  BY MaxSeqAssumption DEF TypeOK, Write, Version
<1> QED BY <1>1 DEF TypeOK, Write

\* The entries of keys that hold a value.
LEMMA EntriesType ==
  ASSUME TypeOK, NEW keys \in SUBSET {k \in Key : Present(k)}
  PROVE  Entries(keys) \in SUBSET StateEntry
BY DEF Entries, StateEntry, TypeOK, Present

\* The page a scan returns, and its cursor.
LEMMA ScanReplyType ==
  ASSUME TypeOK, NEW prefix \in Prefix, NEW cursor \in Key \cup {EmptyKey},
         NEW limit \in Limit, limit \in 1 .. 256
  PROVE  LET found == Matching(prefix, cursor)
             page == FirstOf(found, limit)
         IN [Answer("state_scan", EmptyKey, "OK")
               EXCEPT !.page = Entries(page),
                      !.next = IF Cardinality(found) > limit THEN Max(page) ELSE EmptyKey] \in Reply
<1> DEFINE found == Matching(prefix, cursor)
           page == FirstOf(found, limit)
<1>1. found \in SUBSET Key /\ \A k \in found : Present(k)
  BY ScanAssumption DEF Matching
<1>2. page \in SUBSET Key /\ page \subseteq found
  BY <1>1 DEF FirstOf
<1>0. Entries(page) \in SUBSET StateEntry
  BY <1>1, <1>2, EntriesType
<1>3. CASE Cardinality(found) > limit
  <2>1. found # {}
    BY <1>3, FS_EmptySet
  <2>2. page # {}
    BY <1>1, <2>1, PageIsNotEmpty
  <2>3. Max(page) \in Key
    BY <1>2, <2>2, LastOfPage
  <2> QED BY <1>0, <1>3, <2>3, AnswerType, FilledAnswerType DEF Command, Code
<1>4. CASE ~(Cardinality(found) > limit)
  BY <1>0, <1>4, AnswerType, FilledAnswerType DEF Command, Code
<1> QED BY <1>3, <1>4

\* One step of any command keeps the types.
LEMMA NextType == TypeOK /\ [Next]_vars => TypeOK'
<1> SUFFICES ASSUME TypeOK, [Next]_vars PROVE TypeOK'
  OBVIOUS
<1> USE DEF Command, Code
<1>1. CASE ConfigureState
  BY <1>1 DEF ConfigureState, TypeOK
<1>2. CASE StateKeys
  <2>1. CASE Refused("state_keys", EmptyKey, TRUE)
    BY <2>1, RefusedType
  <2>2. CASE reply' = [Answer("state_keys", EmptyKey, "OK") EXCEPT !.keys = {k \in Key : Present(k)}]
             /\ UNCHANGED store
    <3>1. reply' \in Reply
      BY <2>2, AnswerType, FilledAnswerType
    <3> QED BY <2>2, <3>1 DEF TypeOK, store
  <2> QED BY <1>2, <2>1, <2>2 DEF StateKeys
<1>3. ASSUME NEW k \in Key \cup {EmptyKey}, StateGet(k) PROVE TypeOK'
  <2>1. CASE Refused("state_get", k, k # EmptyKey)
    BY <2>1, RefusedType
  <2>2. CASE ~Refused("state_get", k, k # EmptyKey)
    <3>1. k \in Key /\ UNCHANGED store
      BY <1>3, <2>2 DEF StateGet
    <3>2. PICK code \in Code : reply' = [Answer("state_get", k, code) EXCEPT !.value = state[k]]
      BY <1>3, <2>2 DEF StateGet
    <3>3. Answer("state_get", k, code) \in Reply /\ state[k] \in Value \cup {NoValue}
      BY <3>1, AnswerType DEF TypeOK
    <3>4. reply' \in Reply
      BY <3>2, <3>3, FilledAnswerType
    <3> QED BY <3>1, <3>4 DEF TypeOK, store
  <2> QED BY <2>1, <2>2
<1>4. ASSUME NEW k \in Key \cup {EmptyKey}, StateGetVersioned(k) PROVE TypeOK'
  <2>1. CASE Refused("state_get_versioned", k, k # EmptyKey)
    BY <2>1, RefusedType
  <2>2. CASE ~Refused("state_get_versioned", k, k # EmptyKey)
    <3>1. k \in Key /\ UNCHANGED store
      BY <1>4, <2>2 DEF StateGetVersioned
    <3>2. /\ \A code \in Code : Answer("state_get_versioned", k, code) \in Reply
          /\ state[k] \in Value \cup {NoValue} /\ stateVersion[k] \in Version \cup {NoVersion}
      BY <3>1, AnswerType DEF TypeOK
    <3>3. [Answer("state_get_versioned", k, "OK") EXCEPT !.value = state[k], !.version = stateVersion[k]]
            \in Reply
      BY <3>2, FilledAnswerType
    <3>4. reply' \in Reply
      BY <1>4, <2>2, <3>2, <3>3 DEF StateGetVersioned
    <3> QED BY <3>1, <3>4 DEF TypeOK, store
  <2> QED BY <2>1, <2>2
<1>5. ASSUME NEW k \in Key \cup {EmptyKey}, NEW v \in Value, StateSet(k, v) PROVE TypeOK'
  <2>1. CASE Refused("state_set", k, k # EmptyKey)
    BY <2>1, RefusedType
  <2>2. CASE ~Refused("state_set", k, k # EmptyKey)
    <3>1. k \in Key /\ Write(k, v) /\ reply' \in Reply
      BY <1>5, <2>2, AnswerType DEF StateSet
    <3> QED BY <3>1, WriteType
  <2> QED BY <2>1, <2>2
<1>6. ASSUME NEW k \in Key, NEW v \in Value, SeedState(k, v) PROVE TypeOK'
  <2>1. Write(k, v) /\ reply' \in Reply
    BY <1>6 DEF SeedState, TypeOK
  <2> QED BY <2>1, WriteType
<1>7. ASSUME NEW k \in Key \cup {EmptyKey}, NEW v \in Value,
             NEW expected \in Version \cup {NoVersion, NilVersion},
             StateCompareAndSet(k, v, expected)
      PROVE  TypeOK'
  <2>1. CASE Refused("state_compare_and_set", k, k # EmptyKey /\ expected # NoVersion)
    BY <2>1, RefusedType
  <2>2. CASE ~Refused("state_compare_and_set", k, k # EmptyKey /\ expected # NoVersion)
    <3>1. k \in Key /\ expected \in Version \cup {NilVersion}
      BY <1>7, <2>2 DEF StateCompareAndSet
    <3>2. CASE Matches(k, expected)
      <4>1. Write(k, v)
        BY <1>7, <2>2, <3>2 DEF StateCompareAndSet
      <4>2. stateSeq + 1 \in Version
        BY <4>1, MaxSeqAssumption DEF Write, TypeOK, Version
      <4>3. reply' \in Reply
        <5>1. Conflict("state_compare_and_set", k, expected) \in Reply
          BY <3>1, ConflictType DEF Command
        <5>2. [Conflict("state_compare_and_set", k, expected)
                 EXCEPT !.value = v, !.applied = TRUE, !.version = stateSeq + 1] \in Reply
          BY <4>2, <5>1, FilledAnswerType
        <5> QED BY <1>7, <2>2, <3>2, <5>2 DEF StateCompareAndSet
      <4> QED BY <3>1, <4>1, <4>3, WriteType
    <3>3. CASE ~Matches(k, expected)
      <4>1. UNCHANGED store /\ reply' \in Reply
        BY <1>7, <2>2, <3>1, <3>3, ConflictType DEF StateCompareAndSet, Command
      <4> QED BY <4>1 DEF TypeOK, store
    <3> QED BY <3>2, <3>3
  <2> QED BY <2>1, <2>2
<1>8. ASSUME NEW k \in Key \cup {EmptyKey}, NEW expected \in Version \cup {NoVersion},
             StateCompareAndDelete(k, expected)
      PROVE  TypeOK'
  <2>1. CASE Refused("state_compare_and_delete", k, k # EmptyKey /\ expected # NoVersion)
    BY <2>1, RefusedType
  <2>2. CASE ~Refused("state_compare_and_delete", k, k # EmptyKey /\ expected # NoVersion)
    <3>1. reply' \in Reply
      <4>1. Conflict("state_compare_and_delete", k, expected) \in Reply
        BY <1>8, <2>2, ConflictType DEF StateCompareAndDelete, Command
      <4> QED BY <1>8, <2>2, <4>1, FilledAnswerType DEF StateCompareAndDelete
    <3> QED BY <1>8, <2>2, <3>1 DEF StateCompareAndDelete, TypeOK, store
  <2> QED BY <2>1, <2>2
<1>9. ASSUME NEW k \in Key \cup {EmptyKey}, StateDelete(k) PROVE TypeOK'
  <2>1. CASE Refused("state_delete", k, k # EmptyKey)
    BY <2>1, RefusedType
  <2>2. CASE ~Refused("state_delete", k, k # EmptyKey)
    <3>1. reply' \in Reply
      BY <1>9, <2>2, AnswerType DEF StateDelete
    <3> QED BY <1>9, <2>2, <3>1 DEF StateDelete, TypeOK
  <2> QED BY <2>1, <2>2
<1>10. ASSUME NEW prefix \in Prefix, NEW cursor \in Key \cup {EmptyKey}, NEW limit \in Limit,
              StateScan(prefix, cursor, limit)
       PROVE  TypeOK'
  <2>1. CASE Refused("state_scan", EmptyKey, limit \in 1 .. 256)
    BY <2>1, RefusedType
  <2>2. CASE ~Refused("state_scan", EmptyKey, limit \in 1 .. 256)
    <3> DEFINE found == Matching(prefix, cursor)
               page == FirstOf(found, limit)
               answer == [Answer("state_scan", EmptyKey, "OK")
                            EXCEPT !.page = Entries(page),
                                   !.next = IF Cardinality(found) > limit THEN Max(page) ELSE EmptyKey]
    <3>1. limit \in 1 .. 256 /\ reply' = answer /\ UNCHANGED store
      BY <1>10, <2>2 DEF StateScan
    <3>2. answer \in Reply
      BY <3>1, ScanReplyType
    <3>3. reply' \in Reply
      BY <3>1, <3>2
    <3> QED BY <3>1, <3>3 DEF TypeOK, store
  <2> QED BY <2>1, <2>2
<1>11. CASE UNCHANGED vars
  BY <1>11 DEF vars, TypeOK
<1> QED
  BY <1>1, <1>2, <1>3, <1>4, <1>5, <1>6, <1>7, <1>8, <1>9, <1>10, <1>11 DEF Next, ConditionalNext

\* Whatever commands a plugin issues, in whatever order, the two maps, the
\* counter and every answer stay within their types: in particular a scan
\* always has a last key to return as its cursor (env.state_* of sdktest.go).
THEOREM TypeCorrect == Spec => []TypeOK
<1>1. Init => TypeOK
  <2>1. Answer("none", EmptyKey, "OK") \in Reply
    BY AnswerType DEF Command, Code
  <2> QED BY <2>1, MaxSeqAssumption DEF Init, TypeOK
<1>2. TypeOK /\ [Next]_vars => TypeOK'
  BY NextType
<1> QED BY <1>1, <1>2, PTL DEF Spec

-----------------------------------------------------------------------------
(* Versions *)

\* All that the commands ever do to the maps and the counter.
Untouched == UNCHANGED <<state, stateVersion, stateSeq>>
Written == \E k \in Key, v \in Value : Write(k, v)
Cleared == \E k \in Key :
             /\ state' = [state EXCEPT ![k] = NoValue]
             /\ stateVersion' = [stateVersion EXCEPT ![k] = NoVersion]
             /\ UNCHANGED stateSeq
ValueDropped == \E k \in Key :
             /\ state' = [state EXCEPT ![k] = NoValue]
             /\ UNCHANGED <<stateVersion, stateSeq>>

\* What a call may do to the maps: a refused one, nothing;
LEMMA RefusedIsUntouched ==
  ASSUME NEW cmd, NEW k, NEW valid, Refused(cmd, k, valid)
  PROVE  Untouched
BY DEF Refused, store, Untouched

\* a versioned one, nothing, a write of both maps or a delete from both;
LEMMA ConditionalStep ==
  ASSUME [ConditionalNext]_vars
  PROVE  Untouched \/ Written \/ Cleared
<1>1. CASE ConfigureState \/ StateKeys
  BY <1>1, RefusedIsUntouched DEF ConfigureState, StateKeys, store, Untouched
<1>2. ASSUME NEW k \in Key \cup {EmptyKey}, StateGet(k) \/ StateGetVersioned(k) PROVE Untouched
  BY <1>2, RefusedIsUntouched DEF StateGet, StateGetVersioned, store, Untouched
<1>3. ASSUME NEW k \in Key \cup {EmptyKey}, NEW v \in Value, StateSet(k, v) \/ (k \in Key /\ SeedState(k, v))
      PROVE  Untouched \/ Written
  <2>1. CASE k \in Key /\ Write(k, v)
    BY <2>1 DEF Written
  <2>2. CASE ~(k \in Key /\ Write(k, v))
    BY <1>3, <2>2, RefusedIsUntouched DEF StateSet, SeedState
  <2> QED BY <2>1, <2>2
<1>4. ASSUME NEW k \in Key \cup {EmptyKey}, NEW v \in Value,
             NEW expected \in Version \cup {NoVersion, NilVersion}, StateCompareAndSet(k, v, expected)
      PROVE  Untouched \/ Written
  <2>1. CASE k \in Key /\ Write(k, v)
    BY <2>1 DEF Written
  <2>2. CASE ~(k \in Key /\ Write(k, v))
    BY <1>4, <2>2, RefusedIsUntouched DEF StateCompareAndSet, store, Untouched
  <2> QED BY <2>1, <2>2
<1>5. ASSUME NEW k \in Key \cup {EmptyKey}, NEW expected \in Version \cup {NoVersion},
             StateCompareAndDelete(k, expected)
      PROVE  Untouched \/ Cleared
  <2>1. CASE Refused("state_compare_and_delete", k, k # EmptyKey /\ expected # NoVersion)
    BY <2>1, RefusedIsUntouched
  <2>2. CASE ~Refused("state_compare_and_delete", k, k # EmptyKey /\ expected # NoVersion)
    BY <1>5, <2>2 DEF StateCompareAndDelete, store, Untouched, Cleared
  <2> QED BY <2>1, <2>2
<1>6. ASSUME NEW prefix \in Prefix, NEW cursor \in Key \cup {EmptyKey}, NEW limit \in Limit,
             StateScan(prefix, cursor, limit)
      PROVE  Untouched
  BY <1>6, RefusedIsUntouched DEF StateScan, store, Untouched
<1>7. CASE UNCHANGED vars
  BY <1>7 DEF vars, Untouched
<1> QED BY <1>1, <1>2, <1>3, <1>4, <1>5, <1>6, <1>7 DEF ConditionalNext

\* any one, that or the loss of a value whose version stays.
LEMMA AnyStep ==
  ASSUME [Next]_vars
  PROVE  Untouched \/ Written \/ Cleared \/ ValueDropped
<1>1. CASE [ConditionalNext]_vars
  BY <1>1, ConditionalStep
<1>2. ASSUME NEW k \in Key \cup {EmptyKey}, StateDelete(k) PROVE Untouched \/ ValueDropped
  <2>1. CASE Refused("state_delete", k, k # EmptyKey)
    BY <2>1, RefusedIsUntouched
  <2>2. CASE ~Refused("state_delete", k, k # EmptyKey)
    BY <1>2, <2>2 DEF StateDelete, ValueDropped
  <2> QED BY <2>1, <2>2
<1> QED BY <1>1, <1>2 DEF Next

\* The two facts are inductive together with the types: a write uses a number
\* above every version in the map, nothing else adds a version, and only the
\* command that also removes the value removes one.
VersionInv == TypeOK /\ StoredValuesHaveVersions /\ VersionsAreDistinct

\* The versions are in order at the start,
LEMMA InitVersionInv == Init => VersionInv
<1> SUFFICES ASSUME Init PROVE VersionInv
  OBVIOUS
<1>1. TypeOK
  <2>1. Answer("none", EmptyKey, "OK") \in Reply
    BY AnswerType DEF Command, Code
  <2> QED BY <2>1, MaxSeqAssumption DEF Init, TypeOK
<1>2. StoredValuesHaveVersions /\ VersionsAreDistinct
  BY DEF Init, StoredValuesHaveVersions, VersionsAreDistinct, Present, NoVersion
<1> QED BY <1>1, <1>2 DEF VersionInv

\* and every step keeps them so,
LEMMA NextVersionInv == VersionInv /\ [Next]_vars => VersionInv'
<1> SUFFICES ASSUME VersionInv, [Next]_vars PROVE VersionInv'
  OBVIOUS
<1> USE DEF StoredValuesHaveVersions, VersionsAreDistinct, Present
<1>1. TypeOK /\ TypeOK'
  BY NextType DEF VersionInv
<1>2. \A k \in Key : stateVersion[k] \in Nat /\ stateSeq \in Nat
  BY <1>1, MaxSeqAssumption DEF TypeOK, Version, NoVersion
<1>3. CASE Untouched
  BY <1>1, <1>3 DEF Untouched, VersionInv
<1>4. CASE Written
  <2>1. PICK k \in Key, v \in Value : Write(k, v)
    BY <1>4 DEF Written
  <2>2. /\ stateSeq' = stateSeq + 1
        /\ stateVersion' = [stateVersion EXCEPT ![k] = stateSeq + 1]
        /\ state' = [state EXCEPT ![k] = v]
    BY <2>1 DEF Write
  <2>3. stateVersion'[k] = stateSeq + 1 /\ \A j \in Key \ {k} : stateVersion'[j] = stateVersion[j]
    BY <1>1, <2>2 DEF TypeOK
  <2>4. \A j \in Key : j # k => state'[j] = state[j]
    BY <1>1, <2>2 DEF TypeOK
  <2>5. StoredValuesHaveVersions'
    BY <1>2, <2>3, <2>4 DEF VersionInv, NoVersion
  <2>6. VersionsAreDistinct'
    BY <1>2, <2>2, <2>3 DEF VersionInv
  <2> QED BY <1>1, <2>5, <2>6 DEF VersionInv
<1>5. CASE Cleared
  <2>1. PICK k \in Key : /\ state' = [state EXCEPT ![k] = NoValue]
                         /\ stateVersion' = [stateVersion EXCEPT ![k] = NoVersion]
                         /\ UNCHANGED stateSeq
    BY <1>5 DEF Cleared
  <2>2. /\ state'[k] = NoValue /\ stateVersion'[k] = NoVersion
        /\ \A j \in Key \ {k} : stateVersion'[j] = stateVersion[j] /\ state'[j] = state[j]
    BY <1>1, <2>1 DEF TypeOK
  <2> QED BY <1>1, <1>2, <2>1, <2>2 DEF VersionInv, NoVersion
<1>6. CASE ValueDropped
  <2>1. PICK k \in Key : state' = [state EXCEPT ![k] = NoValue] /\ UNCHANGED <<stateVersion, stateSeq>>
    BY <1>6 DEF ValueDropped
  <2>2. \A j \in Key : state'[j] # NoValue => state[j] # NoValue
    BY <1>1, <2>1 DEF TypeOK
  <2> QED BY <1>1, <2>1, <2>2 DEF VersionInv
<1> QED BY <1>3, <1>4, <1>5, <1>6, AnyStep

\* whence the invariant.
LEMMA VersionInvHolds == Spec => []VersionInv
<1>1. Init => VersionInv
  BY InitVersionInv
<1>2. VersionInv /\ [Next]_vars => VersionInv'
  BY NextVersionInv
<1> QED BY <1>1, <1>2, PTL DEF Spec

\* A value never sits in the store without a version, state_delete included: no
\* versioned read and no scan page carries the empty version that a plugin's
\* validation of the answer would reject (sdktest.go, foundation_validate.go).
THEOREM ValuesHaveVersions == Spec => []StoredValuesHaveVersions
<1>1. VersionInv => StoredValuesHaveVersions
  BY DEF VersionInv
<1> QED BY <1>1, VersionInvHolds, PTL

\* No version is ever at two keys and the counter is past all of them, so a
\* version a plugin still holds can only match the write it came from.
THEOREM VersionsIdentifyWrites == Spec => []VersionsAreDistinct
<1>1. VersionInv => VersionsAreDistinct
  BY DEF VersionInv
<1> QED BY <1>1, VersionInvHolds, PTL

-----------------------------------------------------------------------------
(* The two maps, for plugins that delete by compare_and_delete *)

AgreeInv == VersionInv /\ MapsAgree

\* A step of conditional writers is a step of the store.
LEMMA ConditionalIsNext == [ConditionalNext]_vars => [Next]_vars
BY DEF Next

\* The invariant of agreement holds for conditional writers.
LEMMA AgreeInvHolds == ConditionalSpec => []AgreeInv
<1>1. Init => AgreeInv
  BY InitVersionInv DEF AgreeInv, Init, MapsAgree, Present
<1>2. AgreeInv /\ [ConditionalNext]_vars => AgreeInv'
  <2> SUFFICES ASSUME AgreeInv, [ConditionalNext]_vars PROVE AgreeInv'
    OBVIOUS
  <2> USE DEF MapsAgree, Present
  <2>1. VersionInv /\ VersionInv' /\ TypeOK /\ TypeOK'
    BY ConditionalIsNext, NextVersionInv DEF AgreeInv, VersionInv
  <2>2. CASE Untouched
    BY <2>1, <2>2 DEF Untouched, AgreeInv
  <2>3. CASE Written
    <3>1. PICK k \in Key, v \in Value : Write(k, v)
      BY <2>3 DEF Written
    <3>2. /\ state'[k] = v /\ v # NoValue /\ stateVersion'[k] # NoVersion
          /\ \A j \in Key \ {k} : stateVersion'[j] = stateVersion[j] /\ state'[j] = state[j]
      BY <2>1, <3>1, ValueAssumption, MaxSeqAssumption DEF Write, TypeOK, NoVersion
    <3> QED BY <2>1, <3>2 DEF AgreeInv
  <2>4. CASE Cleared
    <3>1. PICK k \in Key : /\ state' = [state EXCEPT ![k] = NoValue]
                           /\ stateVersion' = [stateVersion EXCEPT ![k] = NoVersion]
      BY <2>4 DEF Cleared
    <3>2. /\ state'[k] = NoValue /\ stateVersion'[k] = NoVersion
          /\ \A j \in Key \ {k} : stateVersion'[j] = stateVersion[j] /\ state'[j] = state[j]
      BY <2>1, <3>1 DEF TypeOK
    <3> QED BY <2>1, <3>2 DEF AgreeInv
  <2> QED BY <2>2, <2>3, <2>4, ConditionalStep
<1> QED BY <1>1, <1>2, PTL DEF ConditionalSpec

\* As long as keys are given up by compare_and_delete only, "there is a value"
\* and "there is a version" are the same question, whichever of the two maps a
\* command asks (state_get asks one, compare_and_set the other).
THEOREM MapsAlwaysAgree == ConditionalSpec => []MapsAgree
<1>1. AgreeInv => MapsAgree
  BY DEF AgreeInv
<1> QED BY <1>1, AgreeInvHolds, PTL

-----------------------------------------------------------------------------
(* Refinement: each command maps to the operation of its name, a refusal or a
   conflict. *)

\* What a step does to the cells.
LEMMA SameCells ==
  ASSUME UNCHANGED <<state, stateVersion>>
  PROVE  Cell' = Cell
BY DEF Cell, Present

\* A write puts the abstract cell under a version never given,
LEMMA WrittenCells ==
  ASSUME TypeOK, NEW k \in Key, NEW v \in Value, Write(k, v)
  PROVE  /\ Promise!Put(k, v, stateSeq + 1)
         /\ stateSeq + 1 \in Version
<1>1. /\ stateSeq \in Nat /\ stateSeq' = stateSeq + 1 /\ stateSeq + 1 \in Version
      /\ UNCHANGED StateConfigured
  BY MaxSeqAssumption DEF Write, TypeOK, Version
<1>2. stateSeq + 1 \notin 1 .. stateSeq /\ 1 .. stateSeq' = (1 .. stateSeq) \cup {stateSeq + 1}
  BY <1>1
<1>3. /\ state'[k] = v /\ v # NoValue /\ stateVersion'[k] = stateSeq + 1
      /\ \A j \in Key \ {k} : state'[j] = state[j] /\ stateVersion'[j] = stateVersion[j]
  BY ValueAssumption DEF Write, TypeOK
<1>4. Cell' = [Cell EXCEPT ![k] = {[value |-> v, version |-> stateSeq + 1]}]
  BY <1>3 DEF Cell, Present
<1> QED BY <1>1, <1>2, <1>4 DEF Promise!Put

\* a delete clears it.
LEMMA ClearedCells ==
  ASSUME TypeOK, NEW k \in Key,
         state' = [state EXCEPT ![k] = NoValue],
         stateVersion' = [stateVersion EXCEPT ![k] = NoVersion],
         StateConfigured, UNCHANGED <<stateSeq, StateConfigured>>
  PROVE  Promise!Clear(k)
<1>1. /\ state'[k] = NoValue
      /\ \A j \in Key \ {k} : state'[j] = state[j] /\ stateVersion'[j] = stateVersion[j]
  BY DEF TypeOK
<1>2. Cell' = [Cell EXCEPT ![k] = {}]
  BY <1>1 DEF Cell, Present
<1> QED BY <1>2 DEF Promise!Clear

\* The expected version as the abstract store has it: nil expects absence.
Expecting(expected) == IF expected = NilVersion THEN {} ELSE {expected}

\* A key of the plugin is not the empty string.
LEMMA NamedKey == \A k \in Key : k # EmptyKey
BY KeyAssumption

\* What the abstract store knows of a key, in the words of the two maps.
LEMMA EntryOfCell ==
  ASSUME NEW k \in Key
  PROVE  /\ Promise!Values(k) = IF Present(k) THEN {state[k]} ELSE {}
         /\ Promise!Versions(k) = IF Present(k) THEN {stateVersion[k]} ELSE {}
         /\ Cell[k] = {} <=> ~Present(k)
<1>1. CASE Present(k)
  <2> DEFINE entry == [value |-> state[k], version |-> stateVersion[k]]
  <2>1. Cell[k] = {entry}
    BY <1>1 DEF Cell
  <2>2. {e.value : e \in {entry}} = {entry.value} /\ {e.version : e \in {entry}} = {entry.version}
    OBVIOUS
  <2> QED BY <1>1, <2>1, <2>2 DEF Promise!Values, Promise!Versions
<1>2. CASE ~Present(k)
  <2>1. Cell[k] = {}
    BY <1>2 DEF Cell
  <2> QED BY <1>2, <2>1 DEF Promise!Values, Promise!Versions
<1> QED BY <1>1, <1>2

\* A refusal leaves the cells alone and says why.
LEMMA RefusalRefines ==
  ASSUME TypeOK, NEW cmd \in Command \ {"none"}, NEW k \in Key \cup {EmptyKey}, NEW valid, Refused(cmd, k, valid)
  PROVE  Promise!Next
<1>1. PICK code \in {"INVALID_ARGUMENT", "NOT_CONFIGURED"} :
        reply' = Answer(cmd, k, code) /\ (code = "NOT_CONFIGURED" => ~StateConfigured)
  BY DEF Refused
<1>2. UNCHANGED <<state, stateVersion, stateSeq, StateConfigured>>
  BY DEF Refused, store
<1>3. Cell' = Cell
  BY <1>2, SameCells
<1> DEFINE key == IF k = EmptyKey THEN {} ELSE {k}
<1>4. Outcome' = Promise!Plain(cmd, key, code)
  BY <1>1 DEF Outcome, Answer, Promise!Plain, Promise!Answer, NoVersion
<1>5. Promise!Refuse(cmd, key, code)
  BY <1>1, <1>2, <1>3, <1>4 DEF Promise!Refuse
<1> QED BY <1>5 DEF Promise!Next, Command
-----------------------------------------------------------------------------
(* Every command is an operation of the abstract store. *)

\* Each command implements its promise: the plain read,
LEMMA GetRefines ==
  ASSUME TypeOK, NEW k \in Key, StateConfigured, UNCHANGED store,
         reply' = [Answer("state_get", k, IF Present(k) THEN "OK" ELSE "NOT_FOUND")
                     EXCEPT !.value = state[k]]
  PROVE  Promise!Read("state_get", k, {})
<1>1. UNCHANGED <<Cell, 1 .. stateSeq, StateConfigured>>
  BY SameCells DEF store
<1>2. Outcome' = Promise!Answer("state_get", {k}, {}, IF Cell[k] = {} THEN "NOT_FOUND" ELSE "OK",
                                Promise!Values(k), {}, {}, {}, FALSE)
  <2>1. CASE Present(k)
    <3>1. reply' = [Answer("state_get", k, "OK") EXCEPT !.value = state[k]]
      BY <2>1
    <3>2. state[k] # NoValue /\ Cell[k] # {} /\ Promise!Values(k) = {state[k]}
      BY <2>1, EntryOfCell DEF Present
    <3> QED BY <3>1, <3>2, NamedKey DEF Outcome, Answer, Promise!Plain, Promise!Answer, NoVersion
  <2>2. CASE ~Present(k)
    <3>1. reply' = [Answer("state_get", k, "NOT_FOUND") EXCEPT !.value = NoValue]
      BY <2>2 DEF Present
    <3>2. Cell[k] = {} /\ Promise!Values(k) = {}
      BY <2>2, EntryOfCell
    <3> QED BY <3>1, <3>2, NamedKey DEF Outcome, Answer, Promise!Plain, Promise!Answer, NoVersion
  <2> QED BY <2>1, <2>2
<1> QED BY <1>1, <1>2 DEF Promise!Read

\* the versioned read,
LEMMA GetVersionedRefines ==
  ASSUME AgreeInv, NEW k \in Key, StateConfigured, UNCHANGED store,
         \/ Present(k) /\ reply' = [Answer("state_get_versioned", k, "OK")
                                      EXCEPT !.value = state[k], !.version = stateVersion[k]]
         \/ ~Present(k) /\ reply' = Answer("state_get_versioned", k, "NOT_FOUND")
  PROVE  Promise!Read("state_get_versioned", k, Promise!Versions(k))
<1>1. UNCHANGED <<Cell, 1 .. stateSeq, StateConfigured>>
  BY SameCells DEF store
<1>2. Present(k) <=> stateVersion[k] # NoVersion
  BY DEF AgreeInv, MapsAgree
<1>3. Outcome' = Promise!Answer("state_get_versioned", {k}, {}, IF Cell[k] = {} THEN "NOT_FOUND" ELSE "OK",
                                Promise!Values(k), Promise!Versions(k), {}, {}, FALSE)
  <2>1. CASE Present(k)
    <3>1. reply' = [Answer("state_get_versioned", k, "OK")
                      EXCEPT !.value = state[k], !.version = stateVersion[k]]
      BY <2>1
    <3>2. /\ state[k] # NoValue /\ stateVersion[k] # NoVersion /\ Cell[k] # {}
          /\ Promise!Values(k) = {state[k]} /\ Promise!Versions(k) = {stateVersion[k]}
      BY <1>2, <2>1, EntryOfCell DEF Present
    <3> QED BY <3>1, <3>2, NamedKey DEF Outcome, Answer, Promise!Answer
  <2>2. CASE ~Present(k)
    <3>1. reply' = Answer("state_get_versioned", k, "NOT_FOUND")
      BY <2>2
    <3>2. Cell[k] = {} /\ Promise!Values(k) = {} /\ Promise!Versions(k) = {}
      BY <2>2, EntryOfCell
    <3> QED BY <3>1, <3>2, NamedKey DEF Outcome, Answer, Promise!Plain, Promise!Answer, NoVersion
  <2> QED BY <2>1, <2>2
<1> QED BY <1>1, <1>3 DEF Promise!Read

\* A conflict: the maps stay and nothing was applied.
LEMMA ConflictRefines ==
  ASSUME NEW k \in Key, NEW cmd, NEW expected \in Version \cup {NilVersion}, StateConfigured,
         UNCHANGED store, reply' = Conflict(cmd, k, expected),
         Promise!Versions(k) # Expecting(expected)
  PROVE  Promise!Conflict(cmd, k, Expecting(expected))
<1>1. UNCHANGED <<Cell, 1 .. stateSeq, StateConfigured>>
  BY SameCells DEF store
<1>2. Outcome' = Promise!Answer(cmd, {k}, Expecting(expected), "OK", {}, {}, {}, {}, FALSE)
  BY NamedKey DEF Outcome, Conflict, Answer, Promise!Answer, NoVersion, Expecting
<1> QED BY <1>1, <1>2 DEF Promise!Conflict

\* With the maps in agreement, matching on the version map alone is matching
\* the entry.
LEMMA MatchIsEntry ==
  ASSUME AgreeInv, NEW k \in Key, NEW expected \in Version \cup {NilVersion}
  PROVE  Matches(k, expected) <=> Promise!Versions(k) = Expecting(expected)
<1>1. Present(k) <=> stateVersion[k] # NoVersion
  BY DEF AgreeInv, MapsAgree
<1>2. expected # NoVersion /\ (expected \in Version => expected # NilVersion)
  BY DEF Version, NoVersion, NilVersion
<1> QED BY <1>1, <1>2, EntryOfCell DEF Matches, Expecting

\* the conditional write,
LEMMA CompareAndSetRefines ==
  ASSUME AgreeInv, NEW k \in Key, NEW v \in Value, NEW expected \in Version \cup {NilVersion},
         StateConfigured,
         \/ /\ Matches(k, expected)
            /\ Write(k, v)
            /\ reply' = [Conflict("state_compare_and_set", k, expected)
                           EXCEPT !.value = v, !.applied = TRUE, !.version = stateSeq + 1]
         \/ /\ ~Matches(k, expected)
            /\ reply' = Conflict("state_compare_and_set", k, expected)
            /\ UNCHANGED store
  PROVE  Promise!CompareAndSet(k, v, Expecting(expected))
<1> TypeOK
  BY DEF AgreeInv, VersionInv
<1>1. CASE Matches(k, expected)
  <2>1. Promise!Put(k, v, stateSeq + 1) /\ stateSeq + 1 \in Version
    BY <1>1, WrittenCells
  <2>2. v # NoValue /\ stateSeq + 1 # NoVersion
    BY <2>1, ValueAssumption DEF Version, NoVersion
  <2>3. reply' = [Conflict("state_compare_and_set", k, expected)
                    EXCEPT !.value = v, !.applied = TRUE, !.version = stateSeq + 1]
    BY <1>1
  <2>4. Outcome' = Promise!Answer("state_compare_and_set", {k}, Expecting(expected), "OK",
                                {v}, {stateSeq + 1}, {}, {}, TRUE)
    BY <2>2, <2>3, NamedKey DEF Outcome, Conflict, Answer, Promise!Answer, Expecting
  <2> QED BY <1>1, <2>1, <2>4, MatchIsEntry DEF Promise!CompareAndSet
<1>2. CASE ~Matches(k, expected)
  BY <1>2, MatchIsEntry, ConflictRefines DEF Promise!CompareAndSet
<1> QED BY <1>1, <1>2

\* and the conditional delete.
LEMMA CompareAndDeleteRefines ==
  ASSUME AgreeInv, NEW k \in Key, NEW expected \in Version, StateConfigured,
         \/ /\ stateVersion[k] # expected
            /\ reply' = Conflict("state_compare_and_delete", k, expected)
            /\ UNCHANGED store
         \/ /\ stateVersion[k] = expected
            /\ state' = [state EXCEPT ![k] = NoValue]
            /\ stateVersion' = [stateVersion EXCEPT ![k] = NoVersion]
            /\ reply' = [Conflict("state_compare_and_delete", k, expected) EXCEPT !.applied = TRUE]
            /\ UNCHANGED <<stateSeq, StateConfigured>>
  PROVE  Promise!CompareAndDelete(k, expected)
<1>1. Present(k) <=> stateVersion[k] # NoVersion
  BY DEF AgreeInv, MapsAgree
<1>2. expected # NoVersion /\ Expecting(expected) = {expected}
  BY DEF Version, NoVersion, NilVersion, Expecting
<1>3. CASE stateVersion[k] # expected
  <2>1. Promise!Versions(k) # {expected}
    BY <1>3, EntryOfCell
  <2> QED BY <1>2, <1>3, <2>1, ConflictRefines DEF Promise!CompareAndDelete
<1>4. CASE stateVersion[k] = expected
  <2>1. Promise!Versions(k) = {expected}
    BY <1>1, <1>2, <1>4, EntryOfCell
  <2>2. Promise!Clear(k)
    BY <1>4, ClearedCells DEF AgreeInv, VersionInv
  <2>3. Outcome' = Promise!Answer("state_compare_and_delete", {k}, {expected}, "OK", {}, {}, {}, {}, TRUE)
    BY <1>2, <1>4, NamedKey DEF Outcome, Conflict, Answer, Promise!Answer, NoVersion, Expecting
  <2> QED BY <2>1, <2>2, <2>3 DEF Promise!CompareAndDelete
<1> QED BY <1>3, <1>4

\* All keys that hold a value,
LEMMA ListRefines ==
  ASSUME StateConfigured, UNCHANGED store,
         reply' = [Answer("state_keys", EmptyKey, "OK") EXCEPT !.keys = {k \in Key : Present(k)}]
  PROVE  Promise!List
<1>1. UNCHANGED <<Cell, 1 .. stateSeq, StateConfigured>>
  BY SameCells DEF store
<1>2. {k \in Key : Present(k)} = Promise!Listable
  BY EntryOfCell DEF Promise!Listable
<1>3. PICK keys : keys = {k \in Key : Present(k)}
  OBVIOUS
<1>4. /\ reply'.cmd = "state_keys" /\ reply'.key = EmptyKey /\ reply'.expected = NilVersion
      /\ reply'.code = "OK" /\ reply'.value = NoValue /\ reply'.version = NoVersion
      /\ reply'.keys = keys /\ reply'.page = {} /\ reply'.applied = FALSE
  BY <1>3 DEF Answer
<1>5. Outcome' = Promise!Answer("state_keys", {}, {}, "OK", {}, {}, keys, {}, FALSE)
  BY <1>4 DEF Outcome, Promise!Answer
<1> QED BY <1>1, <1>2, <1>3, <1>5 DEF Promise!List

\* and a page lists some of them, each with the entry it holds.
LEMMA ScanRefines ==
  ASSUME NEW page \in SUBSET {k \in Key : Present(k)}, StateConfigured, UNCHANGED store,
         reply'.cmd = "state_scan", reply'.key = EmptyKey, reply'.expected = NilVersion, reply'.code = "OK",
         reply'.value = NoValue, reply'.version = NoVersion, reply'.keys = {},
         reply'.page = Entries(page), reply'.applied = FALSE
  PROVE  Promise!Scan(page) /\ page \in SUBSET Promise!Listable
<1>1. UNCHANGED <<Cell, 1 .. stateSeq, StateConfigured>>
  BY SameCells DEF store
<1>2. page \in SUBSET Promise!Listable
  BY EntryOfCell DEF Promise!Listable
<1>3. Entries(page) = Promise!EntriesOf(page)
  <2>1. ASSUME NEW k \in page
        PROVE  {[key |-> k, value |-> e.value, version |-> e.version] : e \in Cell[k]}
                 = {[key |-> k, value |-> state[k], version |-> stateVersion[k]]}
    <3>1. Cell[k] = {[value |-> state[k], version |-> stateVersion[k]]}
      BY <2>1 DEF Cell
    <3> QED BY <3>1
  <2>2. Promise!EntriesOf(page)
          = UNION {{[key |-> k, value |-> state[k], version |-> stateVersion[k]]} : k \in page}
    BY <2>1 DEF Promise!EntriesOf
  <2>3. ASSUME NEW x
        PROVE  x \in Entries(page) <=>
                 x \in UNION {{[key |-> k, value |-> state[k], version |-> stateVersion[k]]} : k \in page}
    BY DEF Entries
  <2> QED BY <2>2, <2>3
<1>4. PICK entries : entries = Entries(page)
  OBVIOUS
<1>5. Outcome' = Promise!Answer("state_scan", {}, {}, "OK", {}, {}, {}, entries, FALSE)
  BY <1>4 DEF Outcome, Promise!Answer
<1> QED BY <1>1, <1>2, <1>3, <1>4, <1>5 DEF Promise!Scan

-----------------------------------------------------------------------------
\* Every step implements a step of VersionedStore or none.
LEMMA StepRefines ==
  ASSUME AgreeInv, [ConditionalNext]_vars
  PROVE  [Promise!Next]_Promise!vars
<1> TypeOK
  BY DEF AgreeInv, VersionInv
<1> USE DEF Command
<1>1. CASE ConfigureState
  <2>1. Cell' = Cell
    BY <1>1, SameCells DEF ConfigureState
  <2> QED BY <1>1, <2>1 DEF ConfigureState, Outcome, Promise!Next, Promise!Switch
<1>2. CASE StateKeys
  <2>1. CASE Refused("state_keys", EmptyKey, TRUE)
    BY <2>1, RefusalRefines
  <2>2. CASE ~Refused("state_keys", EmptyKey, TRUE)
    <3>1. Promise!List
      BY <1>2, <2>2, ListRefines DEF StateKeys
    <3> QED BY <3>1 DEF Promise!Next
  <2> QED BY <2>1, <2>2
<1>3. ASSUME NEW k \in Key \cup {EmptyKey}, StateGet(k) PROVE Promise!Next
  <2>1. CASE Refused("state_get", k, k # EmptyKey)
    BY <2>1, RefusalRefines
  <2>2. CASE ~Refused("state_get", k, k # EmptyKey)
    <3>1. k \in Key /\ Promise!Read("state_get", k, {})
      BY <1>3, <2>2, GetRefines DEF StateGet
    <3> QED BY <3>1 DEF Promise!Next
  <2> QED BY <2>1, <2>2
<1>4. ASSUME NEW k \in Key \cup {EmptyKey}, StateGetVersioned(k) PROVE Promise!Next
  <2>1. CASE Refused("state_get_versioned", k, k # EmptyKey)
    BY <2>1, RefusalRefines
  <2>2. CASE ~Refused("state_get_versioned", k, k # EmptyKey)
    <3>1. k \in Key /\ Promise!Read("state_get_versioned", k, Promise!Versions(k))
      BY <1>4, <2>2, GetVersionedRefines DEF StateGetVersioned
    <3> QED BY <3>1 DEF Promise!Next
  <2> QED BY <2>1, <2>2
<1>5. ASSUME NEW k \in Key \cup {EmptyKey}, NEW v \in Value, StateSet(k, v) PROVE Promise!Next
  <2>1. CASE Refused("state_set", k, k # EmptyKey)
    BY <2>1, RefusalRefines
  <2>2. CASE ~Refused("state_set", k, k # EmptyKey)
    <3>1. k \in Key /\ StateConfigured /\ Write(k, v) /\ reply' = Answer("state_set", k, "OK")
      BY <1>5, <2>2 DEF StateSet
    <3>2. Promise!Put(k, v, stateSeq + 1) /\ stateSeq + 1 \in Version
      BY <3>1, WrittenCells
    <3>3. Outcome' = Promise!Plain("state_set", {k}, "OK")
      BY <3>1, NamedKey DEF Outcome, Answer, Promise!Plain, Promise!Answer, NoVersion
    <3> QED BY <3>1, <3>2, <3>3 DEF Promise!Next, Promise!Set
  <2> QED BY <2>1, <2>2
<1>6. ASSUME NEW k \in Key, NEW v \in Value, SeedState(k, v) PROVE Promise!Next
  <2>1. Write(k, v) /\ UNCHANGED reply
    BY <1>6 DEF SeedState
  <2>2. Promise!Put(k, v, stateSeq + 1) /\ stateSeq + 1 \in Version
    BY <2>1, WrittenCells
  <2> QED BY <2>1, <2>2 DEF Promise!Next, Promise!Seed, Outcome
<1>7. ASSUME NEW k \in Key \cup {EmptyKey}, NEW v \in Value,
             NEW expected \in Version \cup {NoVersion, NilVersion}, StateCompareAndSet(k, v, expected)
      PROVE  Promise!Next
  <2>1. CASE Refused("state_compare_and_set", k, k # EmptyKey /\ expected # NoVersion)
    BY <2>1, RefusalRefines
  <2>2. CASE ~Refused("state_compare_and_set", k, k # EmptyKey /\ expected # NoVersion)
    <3>1. k \in Key /\ expected \in Version \cup {NilVersion}
      BY <1>7, <2>2 DEF StateCompareAndSet
    <3>2. Promise!CompareAndSet(k, v, Expecting(expected))
      BY <1>7, <2>2, <3>1, CompareAndSetRefines DEF StateCompareAndSet
    <3>3. Expecting(expected) = {} \/ \E ver \in Version : Expecting(expected) = {ver}
      BY <3>1 DEF Expecting
    <3> QED BY <3>1, <3>2, <3>3 DEF Promise!Next
  <2> QED BY <2>1, <2>2
<1>8. ASSUME NEW k \in Key \cup {EmptyKey}, NEW expected \in Version \cup {NoVersion},
             StateCompareAndDelete(k, expected)
      PROVE  Promise!Next
  <2>1. CASE Refused("state_compare_and_delete", k, k # EmptyKey /\ expected # NoVersion)
    BY <2>1, RefusalRefines
  <2>2. CASE ~Refused("state_compare_and_delete", k, k # EmptyKey /\ expected # NoVersion)
    <3>1. k \in Key /\ expected \in Version
      BY <1>8, <2>2 DEF StateCompareAndDelete
    <3>2. Promise!CompareAndDelete(k, expected)
      BY <1>8, <2>2, <3>1, CompareAndDeleteRefines DEF StateCompareAndDelete
    <3> QED BY <3>1, <3>2 DEF Promise!Next
  <2> QED BY <2>1, <2>2
<1>9. ASSUME NEW prefix \in Prefix, NEW cursor \in Key \cup {EmptyKey}, NEW limit \in Limit,
             StateScan(prefix, cursor, limit)
      PROVE  Promise!Next
  <2>1. CASE Refused("state_scan", EmptyKey, limit \in 1 .. 256)
    BY <2>1, RefusalRefines
  <2>2. CASE ~Refused("state_scan", EmptyKey, limit \in 1 .. 256)
    <3> DEFINE found == Matching(prefix, cursor)
               page == FirstOf(found, limit)
    <3>1. /\ StateConfigured /\ UNCHANGED store
          /\ reply' = [Answer("state_scan", EmptyKey, "OK")
                         EXCEPT !.page = Entries(page),
                                !.next = IF Cardinality(found) > limit THEN Max(page) ELSE EmptyKey]
      BY <1>9, <2>2 DEF StateScan
    <3>2. page \in SUBSET {k \in Key : Present(k)}
      BY ScanAssumption DEF FirstOf, Matching
    <3>3. /\ reply'.cmd = "state_scan" /\ reply'.key = EmptyKey /\ reply'.expected = NilVersion
          /\ reply'.code = "OK" /\ reply'.value = NoValue
          /\ reply'.version = NoVersion /\ reply'.keys = {}
          /\ reply'.page = Entries(page) /\ reply'.applied = FALSE
      BY <3>1 DEF Answer
    <3>4. Promise!Scan(page) /\ page \in SUBSET Promise!Listable
      BY <3>1, <3>2, <3>3, ScanRefines
    <3> QED BY <3>4 DEF Promise!Next
  <2> QED BY <2>1, <2>2
<1>10. CASE UNCHANGED vars
  <2>1. Cell' = Cell
    BY <1>10, SameCells DEF vars
  <2> QED BY <1>10, <2>1 DEF vars, Outcome, Promise!vars
<1> QED
  BY <1>1, <1>2, <1>3, <1>4, <1>5, <1>6, <1>7, <1>8, <1>9, <1>10 DEF ConditionalNext

\* With any keys, values and number of versions, and whatever order commands
\* come in, env.state_* keep the contract of state.go as VersionedStore words
\* it, for plugins that delete by compare_and_delete: versions are never
\* issued twice, a conditional write is applied exactly when the entry is the
\* one expected, and every answer is true of the store.
THEOREM StoreKeepsPromise == ConditionalSpec => KeepsPromise
<1>1. Init => Promise!Init
  <2> SUFFICES ASSUME Init PROVE Promise!Init
    OBVIOUS
  <2>1. Cell = [k \in Key |-> {}]
    BY DEF Init, Cell, Present
  <2>2. Outcome = Promise!Plain("none", {}, "OK")
    BY DEF Init, Outcome, Answer, Promise!Plain, Promise!Answer, NoVersion
  <2>3. 1 .. stateSeq = {}
    BY DEF Init
  <2> QED BY <2>1, <2>2, <2>3 DEF Init, Promise!Init
<1>2. AgreeInv /\ [ConditionalNext]_vars => [Promise!Next]_Promise!vars
  BY StepRefines
<1> QED BY <1>1, <1>2, AgreeInvHolds, PTL DEF ConditionalSpec, KeepsPromise, Promise!Spec

-----------------------------------------------------------------------------
\* Sessions.

\* What a session remembers of key k is no news to the counter, and is the
\* stored value if it is the stored version.
Fits(e, k) ==
  /\ e.version =< stateSeq
  /\ e.version # NoVersion /\ stateVersion[k] = e.version /\ Present(k) => state[k] = e.value

\* The invariant behind the session properties.  SameVersionSameValue alone is
\* not inductive: a session that remembered a version not yet issued would see
\* it given to another write.
SessionInv ==
  /\ VersionInv
  /\ held \in [Session -> [Key -> Held]]
  /\ \A s \in Session, k \in Key : Fits(held[s][k], k)

\* No command of anybody spoils what is remembered: a rewrite takes a version
\* nobody has seen, and without an entry there is nothing to compare.
LEMMA FitsStays ==
  ASSUME VersionInv, VersionInv', [Next]_vars
  PROVE  \A e \in Held, k \in Key : Fits(e, k) => Fits(e, k)'
<1> SUFFICES ASSUME NEW e \in Held, NEW k \in Key, Fits(e, k) PROVE Fits(e, k)'
  OBVIOUS
<1>1. TypeOK /\ stateSeq \in Nat /\ e.version \in Nat /\ stateVersion[k] \in Nat
  BY MaxSeqAssumption DEF VersionInv, TypeOK, Held, Version, NoVersion
<1>2. CASE Untouched
  BY <1>2 DEF Untouched, Fits, Present
<1>3. CASE Written
  <2>1. PICK j \in Key, v \in Value : Write(j, v)
    BY <1>3 DEF Written
  <2>2. /\ stateSeq' = stateSeq + 1 /\ stateVersion'[j] = stateSeq + 1
        /\ \A i \in Key \ {j} : stateVersion'[i] = stateVersion[i] /\ state'[i] = state[i]
    BY <1>1, <2>1 DEF Write, TypeOK
  <2> QED BY <1>1, <2>2 DEF Fits, Present
<1>4. CASE Cleared
  <2>1. PICK j \in Key : /\ state' = [state EXCEPT ![j] = NoValue]
                         /\ stateVersion' = [stateVersion EXCEPT ![j] = NoVersion]
                         /\ UNCHANGED stateSeq
    BY <1>4 DEF Cleared
  <2>2. /\ state'[j] = NoValue
        /\ \A i \in Key \ {j} : stateVersion'[i] = stateVersion[i] /\ state'[i] = state[i]
    BY <1>1, <2>1 DEF TypeOK
  <2> QED BY <1>1, <2>1, <2>2 DEF Fits, Present
<1>5. CASE ValueDropped
  <2>1. PICK j \in Key : state' = [state EXCEPT ![j] = NoValue] /\ UNCHANGED <<stateVersion, stateSeq>>
    BY <1>5 DEF ValueDropped
  <2>2. state'[j] = NoValue /\ \A i \in Key \ {j} : state'[i] = state[i]
    BY <1>1, <2>1 DEF TypeOK
  <2> QED BY <1>1, <2>1, <2>2 DEF Fits, Present
<1> QED BY <1>2, <1>3, <1>4, <1>5, AnyStep

\* A session that learns one entry that fits.
LEMMA LearnsOne ==
  ASSUME SessionInv, [Next]_vars, NEW s \in Session, NEW k \in Key, NEW e \in Held,
         Fits(e, k)', held' = [held EXCEPT ![s][k] = e]
  PROVE  SessionInv'
<1>1. VersionInv /\ VersionInv'
  BY NextVersionInv DEF SessionInv
<1>2. held' \in [Session -> [Key -> Held]]
  BY DEF SessionInv
<1>3. ASSUME NEW t \in Session, NEW j \in Key PROVE Fits(held[t][j], j)'
  <2>1. CASE t = s /\ j = k
    <3>1. held'[t][j] = e
      BY <2>1 DEF SessionInv
    <3> QED BY <2>1, <3>1 DEF Fits
  <2>2. CASE ~(t = s /\ j = k)
    <3>1. held'[t][j] = held[t][j]
      BY <2>2 DEF SessionInv
    <3>2. held[t][j] \in Held /\ Fits(held[t][j], j)
      BY DEF SessionInv
    <3>3. PICK old \in Held : old = held[t][j]
      BY <3>2
    <3>4. Fits(old, j)'
      BY <1>1, <3>2, <3>3, FitsStays
    <3> QED BY <3>1, <3>3, <3>4 DEF Fits
  <2> QED BY <2>1, <2>2
<1> QED BY <1>1, <1>2, <1>3 DEF SessionInv

\* A step of the store that teaches no session anything leaves what they
\* hold fitting.
LEMMA LearnsNothing ==
  ASSUME SessionInv, [Next]_vars, held' = held
  PROVE  SessionInv'
<1>1. VersionInv /\ VersionInv'
  BY NextVersionInv DEF SessionInv
<1>2. ASSUME NEW t \in Session, NEW j \in Key PROVE Fits(held[t][j], j)'
  <2>1. held[t][j] \in Held /\ Fits(held[t][j], j)
    BY DEF SessionInv
  <2>2. PICK old \in Held : old = held[t][j]
    BY <2>1
  <2>3. Fits(old, j)'
    BY <1>1, <2>1, <2>2, FitsStays
  <2> QED BY <2>2, <2>3 DEF Fits
<1> QED BY <1>1, <1>2 DEF SessionInv

\* Entries without a version fit any key.
LEMMA NothingHeldFits ==
  ASSUME TypeOK'
  PROVE  /\ Unread \in Held /\ \A k \in Key : Fits(Unread, k)'
         /\ Learnt(NoValue, NoVersion) \in Held /\ \A k \in Key : Fits(Learnt(NoValue, NoVersion), k)'
BY MaxSeqAssumption DEF TypeOK, Fits, Unread, Learnt, Held, NoVersion

-----------------------------------------------------------------------------
(* The steps of a session *)

\* What a writer expects is absence, a version or nothing yet.
LEMMA ExpectedType ==
  ASSUME SessionInv, NEW s \in Session, NEW k \in Key
  PROVE  /\ held[s][k] \in Held
         /\ held[s][k].version \in Version \cup {NoVersion}
         /\ ExpectedBy(s, k) \in Version \cup {NoVersion, NilVersion}
BY DEF SessionInv, Held, ExpectedBy

\* Every command a session issues is a command of the store.
LEMMA ReadIsStep ==
  ASSUME NEW s \in Session, NEW k \in Key, Read(s, k) PROVE Next
BY DEF Read, Next, ConditionalNext

\* So is an update,
LEMMA UpdateIsStep ==
  ASSUME SessionInv, NEW s \in Session, NEW k \in Key, NEW v \in Value, Update(s, k, v) PROVE Next
<1>1. PICK expected \in Version \cup {NoVersion, NilVersion} : expected = ExpectedBy(s, k)
  BY ExpectedType
<1>2. StateCompareAndSet(k, v, expected)
  BY <1>1 DEF Update
<1> QED BY <1>2 DEF Next, ConditionalNext

\* a remove,
LEMMA RemoveIsStep ==
  ASSUME SessionInv, NEW s \in Session, NEW k \in Key, Remove(s, k) PROVE Next
<1>1. PICK expected \in Version \cup {NoVersion} : expected = held[s][k].version
  BY ExpectedType
<1>2. StateCompareAndDelete(k, expected)
  BY <1>1 DEF Remove
<1> QED BY <1>2 DEF Next, ConditionalNext

\* and a blind write.
LEMMA BlindIsStep == ASSUME Blind PROVE Next
BY DEF Blind, Next, ConditionalNext

\* A versioned read teaches the session the entry the store has.
LEMMA ReadKeepsInv ==
  ASSUME SessionInv, NEW s \in Session, NEW k \in Key, Read(s, k)
  PROVE  SessionInv'
<1>0. [Next]_vars /\ TypeOK /\ TypeOK'
  BY ReadIsStep, NextType DEF SessionInv, VersionInv
<1>1. CASE reply'.code \notin {"OK", "NOT_FOUND"}
  BY <1>0, <1>1, LearnsNothing DEF Read
<1>2. CASE reply'.code \in {"OK", "NOT_FOUND"}
  <2> DEFINE value == reply'.value
             version == reply'.version
  <2>1. PICK e : e = [known |-> TRUE, value |-> value, version |-> version]
    OBVIOUS
  <2>2. held' = [held EXCEPT ![s][k] = e]
    BY <1>2, <2>1 DEF Read, Learnt
  <2>3. e \in Held
    BY <1>0, <2>1 DEF TypeOK, Reply, Held
  <2>4. Fits(e, k)'
    <3>1. ~Refused("state_get_versioned", k, k # EmptyKey)
      BY <1>2 DEF Refused, Answer
    <3>2. UNCHANGED <<state, stateVersion, stateSeq>>
      BY <3>1 DEF Read, StateGetVersioned, store
    <3>3. CASE Present(k)
      <4>1. reply' = [Answer("state_get_versioned", k, "OK")
                        EXCEPT !.value = state[k], !.version = stateVersion[k]]
        BY <3>1, <3>3 DEF Read, StateGetVersioned
      <4>2. e.value = state[k] /\ e.version = stateVersion[k]
        BY <2>1, <4>1 DEF Answer
      <4>3. stateVersion[k] =< stateSeq
        BY DEF SessionInv, VersionInv, VersionsAreDistinct
      <4> QED BY <3>2, <4>2, <4>3 DEF Fits
    <3>4. CASE ~Present(k)
      <4>1. reply' = Answer("state_get_versioned", k, "NOT_FOUND")
        BY <3>1, <3>4 DEF Read, StateGetVersioned
      <4>2. e.version = NoVersion
        BY <2>1, <4>1 DEF Answer
      <4> QED BY <1>0, <4>2, MaxSeqAssumption DEF Fits, TypeOK, NoVersion
    <3> QED BY <3>3, <3>4
  <2> QED BY <1>0, <2>2, <2>3, <2>4, LearnsOne
<1> QED BY <1>1, <1>2

\* An update that was applied teaches it the entry it wrote.
LEMMA UpdateKeepsInv ==
  ASSUME SessionInv, NEW s \in Session, NEW k \in Key, NEW v \in Value, Update(s, k, v)
  PROVE  SessionInv'
<1>0. [Next]_vars /\ TypeOK /\ TypeOK'
  BY UpdateIsStep, NextType DEF SessionInv, VersionInv
<1>1. CASE reply'.code # "OK"
  <2>1. held' = [held EXCEPT ![s][k] = held[s][k]]
    BY <1>1 DEF Update
  <2>2. held' = held
    BY <2>1 DEF SessionInv
  <2> QED BY <1>0, <2>2, LearnsNothing
<1>2. CASE reply'.code = "OK" /\ reply'.applied
  <2> DEFINE version == reply'.version
  <2>1. PICK e : e = [known |-> TRUE, value |-> v, version |-> version]
    OBVIOUS
  <2>2. held' = [held EXCEPT ![s][k] = e]
    BY <1>2, <2>1 DEF Update, Learnt
  <2>3. e \in Held
    BY <1>0, <2>1 DEF TypeOK, Reply, Held
  <2>4. Fits(e, k)'
    <3>1. ~Refused("state_compare_and_set", k, k # EmptyKey /\ ExpectedBy(s, k) # NoVersion)
      BY <1>2 DEF Refused, Answer
    <3>2. /\ Write(k, v)
          /\ reply' = [Conflict("state_compare_and_set", k, ExpectedBy(s, k))
                         EXCEPT !.value = v, !.applied = TRUE, !.version = stateSeq + 1]
      BY <1>2, <3>1 DEF Update, StateCompareAndSet, Conflict, Answer
    <3>3. e.version = stateSeq + 1 /\ e.value = v
      BY <2>1, <3>2 DEF Conflict, Answer
    <3>4. stateSeq' = stateSeq + 1 /\ state'[k] = v /\ stateSeq \in Nat
      BY <1>0, <3>2, MaxSeqAssumption DEF Write, TypeOK
    <3> QED BY <3>3, <3>4 DEF Fits
  <2> QED BY <1>0, <2>2, <2>3, <2>4, LearnsOne
<1>3. CASE reply'.code = "OK" /\ ~reply'.applied
  <2>1. held' = [held EXCEPT ![s][k] = Unread]
    BY <1>3 DEF Update
  <2> QED BY <1>0, <2>1, NothingHeldFits, LearnsOne
<1> QED BY <1>1, <1>2, <1>3, <1>0 DEF TypeOK, Reply

\* A removal that was applied teaches it that the key is absent.
LEMMA RemoveKeepsInv ==
  ASSUME SessionInv, NEW s \in Session, NEW k \in Key, Remove(s, k)
  PROVE  SessionInv'
<1>0. [Next]_vars /\ TypeOK /\ TypeOK'
  BY RemoveIsStep, NextType DEF SessionInv, VersionInv
<1>1. CASE reply'.code # "OK"
  <2>1. held' = [held EXCEPT ![s][k] = held[s][k]]
    BY <1>1 DEF Remove
  <2>2. held' = held
    BY <2>1 DEF SessionInv
  <2> QED BY <1>0, <2>2, LearnsNothing
<1>2. CASE reply'.code = "OK"
  <2>1. \E e \in {Learnt(NoValue, NoVersion), Unread} : held' = [held EXCEPT ![s][k] = e]
    BY <1>2 DEF Remove
  <2> QED BY <1>0, <2>1, NothingHeldFits, LearnsOne
<1> QED BY <1>1, <1>2

\* The invariant of the sessions holds.
LEMMA SessionInvHolds == SessionSpec => []SessionInv
<1>1. SessionInit => SessionInv
  <2> SUFFICES ASSUME SessionInit PROVE SessionInv
    OBVIOUS
  <2>1. VersionInv
    BY InitVersionInv DEF SessionInit
  <2>2. \A s \in Session, k \in Key : held[s][k] = Unread
    BY DEF SessionInit
  <2>3. held \in [Session -> [Key -> Held]]
    BY DEF SessionInit, Unread, Held
  <2>4. stateSeq = 0
    BY DEF SessionInit, Init
  <2> QED BY <2>1, <2>2, <2>3, <2>4 DEF SessionInv, Fits, Unread, NoVersion
<1>2. SessionInv /\ [SessionNext]_sessionVars => SessionInv'
  <2> SUFFICES ASSUME SessionInv, [SessionNext]_sessionVars PROVE SessionInv'
    OBVIOUS
  <2>1. CASE Blind
    BY <2>1, BlindIsStep, LearnsNothing DEF Blind
  <2>2. CASE UNCHANGED sessionVars
    <3>1. [Next]_vars /\ held' = held
      BY <2>2 DEF sessionVars, vars
    <3> QED BY <3>1, LearnsNothing
  <2> QED BY <2>1, <2>2, ReadKeepsInv, UpdateKeepsInv, RemoveKeepsInv DEF SessionNext
<1> QED BY <1>1, <1>2, PTL DEF SessionSpec

-----------------------------------------------------------------------------
\* No ABA, for any number of sessions and however long they wait: while the
\* store still has the version a session remembers, it has the value that
\* session saw (torana.proto: versions are "never reused after
\* delete/recreate").
THEOREM NoABA == SessionSpec => []SameVersionSameValue
<1>1. SessionInv => SameVersionSameValue
  BY DEF SessionInv, SameVersionSameValue, Fits
<1> QED BY <1>1, SessionInvHolds, PTL

\* No lost update: an applied StateCompareAndSet of a session replaces the value
\* that session has seen, or creates the key, whatever other sessions did since
\* (state.go, StateCompareAndSet).
THEOREM UpdatesAreNotLost == SessionSpec => NoLostUpdate
<1> DEFINE Safe ==
      \A s \in Session, k \in Key, v \in Value :
        Update(s, k, v) /\ reply'.applied /\ Present(k) => state[k] = held[s][k].value
<1>1. SessionInv /\ [SessionNext]_sessionVars => [Safe]_sessionVars
  <2> SUFFICES ASSUME SessionInv, NEW s \in Session, NEW k \in Key, NEW v \in Value,
                      Update(s, k, v), reply'.applied, Present(k)
               PROVE  state[k] = held[s][k].value
    OBVIOUS
  <2>1. Matches(k, ExpectedBy(s, k))
    BY DEF Update, StateCompareAndSet, Conflict, Refused, Answer
  <2>2. stateVersion[k] # NoVersion
    BY DEF SessionInv, VersionInv, StoredValuesHaveVersions
  <2>3. held[s][k].version # NoVersion /\ stateVersion[k] = held[s][k].version
    BY <2>1, <2>2 DEF Matches, ExpectedBy
  <2> QED BY <2>3 DEF SessionInv, Fits
<1> QED BY <1>1, SessionInvHolds, PTL DEF SessionSpec, NoLostUpdate

-----------------------------------------------------------------------------
\* The two loops.

\* What a scanner and a worker keep.
ScanState == [open : BOOLEAN, prefix : SUBSET Key, cursor : Key \cup {EmptyKey}, listed : SUBSET Key]
Entry == [value : Value \cup {NoValue}, version : Version \cup {NoVersion}]

LoopTypes ==
  /\ VersionInv
  /\ at \in [Worker -> {"read", "swap", "done"}]
  /\ seen \in [Worker -> Entry]
  /\ scan \in [Scanner -> ScanState]
  /\ lasting \in [Scanner -> SUBSET Key]

\* What a worker is about to swap with is the entry of the counter, or an older
\* one whose version the counter has no more.
FitsCounter(w) ==
  /\ seen[w].version <= stateSeq
  /\ seen[w].value <= state[Counter]
  /\ seen[w].version = stateVersion[Counter] => seen[w].value = state[Counter]

\* Nobody deletes the counter, so its version is empty only before the first
\* increment.
CountInv ==
  /\ CountedOnce
  /\ Present(Counter) <=> stateVersion[Counter] # NoVersion
  /\ \A w \in Worker : at[w] = "swap" => FitsCounter(w)

\* What has lasted lies ahead of the cursor of an open scan, or was listed.
Behind(s, k) == scan[s].cursor # EmptyKey /\ k <= scan[s].cursor

ScanInv ==
  \A s \in Scanner :
    /\ \A k \in lasting[s] : Present(k) /\ k \in scan[s].prefix
    /\ scan[s].open => /\ scan[s].prefix \in Prefix
                       /\ \A k \in lasting[s] : Behind(s, k) => k \in scan[s].listed
    /\ Began(s) /\ ~scan[s].open => lasting[s] \subseteq scan[s].listed

LoopInv == LoopTypes /\ CountInv /\ ScanInv

-----------------------------------------------------------------------------
(* Counting *)

\* The workers are finitely many, so the count is a number and one more worker
\* done is one more.
LEMMA Counting1 ==
  ASSUME NEW S \in SUBSET Worker, NEW w \in Worker, w \notin S
  PROVE  /\ Cardinality(S) \in Nat /\ Cardinality(S \cup {w}) = Cardinality(S) + 1
         /\ Cardinality(S) + 1 \in Value /\ Cardinality(S) + 1 # NoValue
<1>1. IsFiniteSet(Worker) /\ IsFiniteSet(S) /\ Value = 1 .. Cardinality(Worker) /\ NoValue = 0
  BY RetryAssumption, FS_Subset
<1>2. Cardinality(S) \in Nat /\ Cardinality(S \cup {w}) = Cardinality(S) + 1
  BY <1>1, FS_CardinalityType, FS_AddElement
<1>3. S \cup {w} \in SUBSET Worker
  OBVIOUS
<1>4. Cardinality(S \cup {w}) <= Cardinality(Worker) /\ Cardinality(Worker) \in Nat
  BY <1>1, <1>3, FS_Subset, FS_CardinalityType
<1> QED
  BY <1>1, <1>2, <1>4

\* The counter, its version and the numbers a worker saw are integers.
LEMMA Numbers ==
  ASSUME LoopTypes
  PROVE  /\ state[Counter] \in Nat /\ stateVersion[Counter] \in Nat /\ stateSeq \in Nat
         /\ stateVersion[Counter] <= stateSeq
         /\ Counter \in Key /\ Counter # EmptyKey
         /\ \A w \in Worker : seen[w].value \in Nat /\ seen[w].version \in Nat /\ seen[w] \in Entry
<1>1. Counter \in Key /\ Value \subseteq Nat /\ NoValue \in Nat /\ Version \subseteq Nat /\ NoVersion \in Nat
  BY RetryAssumption, FS_CardinalityType DEF Version, NoVersion
<1>2. Counter # EmptyKey
  BY <1>1, KeyAssumption
<1>3. /\ state[Counter] \in Value \cup {NoValue} /\ stateVersion[Counter] \in Version \cup {NoVersion}
      /\ stateSeq \in Nat /\ stateVersion[Counter] <= stateSeq
  BY <1>1, MaxSeqAssumption DEF LoopTypes, VersionInv, TypeOK, VersionsAreDistinct
<1>4. \A w \in Worker : seen[w] \in Entry
  BY DEF LoopTypes
<1>5. \A x \in Entry : x.value \in Nat /\ x.version \in Nat
  BY <1>1 DEF Entry
<1> QED
  BY <1>1, <1>2, <1>3, <1>4, <1>5

\* Commands that leave the counter alone, and the versions behind it.
LEMMA CountStays ==
  ASSUME LoopTypes, LoopTypes', CountInv, UNCHANGED <<at, seen>>,
         state'[Counter] = state[Counter], stateVersion'[Counter] = stateVersion[Counter], stateSeq <= stateSeq'
  PROVE  CountInv'
<1>1. Done' = Done
  BY DEF Done
<1>2. stateSeq \in Nat /\ stateSeq' \in Nat /\ \A w \in Worker : seen[w].version \in Nat
  BY Numbers, MaxSeqAssumption DEF LoopTypes, VersionInv, TypeOK
<1> QED
  BY <1>1, <1>2 DEF CountInv, CountedOnce, FitsCounter, Present

\* A worker rereads the counter.
LEMMA RereadKeeps ==
  ASSUME LoopInv, NEW w \in Worker, Reread(w)
  PROVE  /\ [Next]_vars
         /\ UNCHANGED <<state, stateVersion, stateSeq>>
         /\ at' \in [Worker -> {"read", "swap", "done"}] /\ seen' \in [Worker -> Entry]
         /\ CountInv'
<1>1. [Next]_vars /\ Counter \in Key
  BY RetryAssumption DEF Reread, Next, ConditionalNext
<1>2. UNCHANGED <<state, stateVersion, stateSeq>>
  BY RefusedIsUntouched DEF Reread, StateGetVersioned, store, Untouched
<1>3. TypeOK'
  BY <1>1, NextType DEF LoopInv, LoopTypes, VersionInv
<1>4. CASE reply'.code \notin {"OK", "NOT_FOUND"}
  <2>1. UNCHANGED <<at, seen>>
    BY <1>4 DEF Reread
  <2> QED
    BY <1>1, <1>2, <2>1 DEF LoopInv, LoopTypes, CountInv, CountedOnce, Done, FitsCounter, Present
<1>5. CASE reply'.code \in {"OK", "NOT_FOUND"}
  <2>1. PICK e : e = [value |-> reply'.value, version |-> reply'.version]
    OBVIOUS
  <2>2. at' = [at EXCEPT ![w] = "swap"] /\ seen' = [seen EXCEPT ![w] = e] /\ at[w] = "read"
    BY <1>5, <2>1 DEF Reread
  <2>3. e \in Entry
    BY <1>3, <2>1 DEF TypeOK, Reply, Entry
  <2>4. at' \in [Worker -> {"read", "swap", "done"}] /\ seen' \in [Worker -> Entry]
    BY <2>2, <2>3 DEF LoopInv, LoopTypes
  <2>5. Done' = Done
    BY <2>2 DEF Done, LoopInv, LoopTypes
  <2>6. e.version = stateVersion[Counter] /\ e.value = state[Counter]
    <3>1. ~Refused("state_get_versioned", Counter, Counter # EmptyKey)
      BY <1>5 DEF Refused, Answer
    <3>2. CASE Present(Counter)
      BY <2>1, <3>1, <3>2 DEF Reread, StateGetVersioned, Answer
    <3>3. CASE ~Present(Counter)
      <4>1. e.version = NoVersion /\ e.value = NoValue
        BY <2>1, <3>1, <3>3 DEF Reread, StateGetVersioned, Answer
      <4> QED
        BY <3>3, <4>1 DEF LoopInv, CountInv, Present
    <3> QED
      BY <3>2, <3>3
  <2>7. FitsCounter(w)'
    <3>1. seen'[w] = e
      BY <2>2 DEF LoopInv, LoopTypes
    <3> QED
      BY <1>2, <2>6, <3>1, Numbers DEF FitsCounter, LoopInv
  <2>8. ASSUME NEW v \in Worker, v # w, at'[v] = "swap" PROVE FitsCounter(v)'
    <3>1. at'[v] = at[v] /\ seen'[v] = seen[v]
      BY <2>2, <2>8 DEF LoopInv, LoopTypes
    <3> QED
      BY <1>2, <2>8, <3>1 DEF FitsCounter, LoopInv, CountInv
  <2> QED
    BY <1>1, <1>2, <2>4, <2>5, <2>7, <2>8 DEF LoopInv, CountInv, CountedOnce, Present
<1> QED
  BY <1>4, <1>5

\* A worker swaps: the store has what it saw and counts it, or it reads again.
LEMMA SwapKeeps ==
  ASSUME LoopInv, NEW w \in Worker, Swap(w)
  PROVE  /\ [Next]_vars
         /\ \A k \in Key : Present(k) => Present(k)'
         /\ at' \in [Worker -> {"read", "swap", "done"}] /\ seen' = seen
         /\ CountInv'
<1> DEFINE v == seen[w].value + 1
           expected == IF seen[w].version = NoVersion THEN NilVersion ELSE seen[w].version
<1>1. /\ Counter \in Key /\ Counter # EmptyKey /\ state[Counter] \in Nat /\ stateSeq \in Nat
      /\ seen[w].value \in Nat /\ seen[w].version \in Nat /\ seen[w] \in Entry
      /\ seen[w].version \in Version \cup {NoVersion}
      /\ stateVersion[Counter] \in Nat /\ stateVersion[Counter] <= stateSeq
  BY Numbers DEF LoopInv, Entry
<1>2. at[w] = "swap" /\ w \notin Done /\ FitsCounter(w) /\ seen' = seen
  BY DEF Swap, Done, LoopInv, CountInv
<1>3. /\ state[Counter] = Cardinality(Done) /\ Cardinality(Done \cup {w}) = state[Counter] + 1
      /\ v \in Value /\ v # NoValue
  <2>1. Done \in SUBSET Worker
    BY DEF Done
  <2>2. /\ state[Counter] = Cardinality(Done) /\ Cardinality(Done \cup {w}) = state[Counter] + 1
        /\ state[Counter] + 1 \in Value
    BY <1>2, <2>1, Counting1 DEF LoopInv, CountInv, CountedOnce
  <2>3. Value = 1 .. Cardinality(Worker) /\ NoValue = 0 /\ Cardinality(Worker) \in Nat
    BY RetryAssumption, FS_CardinalityType
  <2> QED
    BY <1>1, <1>2, <2>2, <2>3 DEF FitsCounter
<1>4. expected \in Version \cup {NoVersion, NilVersion} /\ expected # NoVersion
  BY <1>1 DEF NilVersion, NoVersion
<1>5. StateCompareAndSet(Counter, v, expected)
  BY DEF Swap
<1>6. /\ reply'.code # "OK" => at' = [at EXCEPT ![w] = "swap"]
      /\ reply'.code = "OK" /\ reply'.applied => at' = [at EXCEPT ![w] = "done"]
      /\ reply'.code = "OK" /\ ~reply'.applied => at' = [at EXCEPT ![w] = "read"]
  BY DEF Swap
<1> HIDE DEF v, expected
<1>7. [Next]_vars
  BY <1>1, <1>3, <1>4, <1>5 DEF Next, ConditionalNext
<1>8. CASE Refused("state_compare_and_set", Counter, Counter # EmptyKey /\ expected # NoVersion)
  <2>1. UNCHANGED <<state, stateVersion, stateSeq>> /\ reply'.code # "OK"
    BY <1>8 DEF Refused, Answer, store
  <2>2. at' = at
    BY <1>2, <1>6, <2>1 DEF LoopInv, LoopTypes
  <2> QED
    BY <1>2, <1>7, <2>1, <2>2
       DEF LoopInv, LoopTypes, CountInv, CountedOnce, Done, FitsCounter, Present
<1>9. CASE Matches(Counter, expected) /\ Write(Counter, v)
           /\ reply' = [Conflict("state_compare_and_set", Counter, expected)
                         EXCEPT !.value = v, !.applied = TRUE, !.version = stateSeq + 1]
  <2>1. reply'.code = "OK" /\ reply'.applied
    BY <1>9 DEF Conflict, Answer
  <2>2. at' = [at EXCEPT ![w] = "done"]
    BY <1>6, <2>1
  <2>3. /\ state'[Counter] = v /\ stateVersion'[Counter] = stateSeq + 1 /\ stateSeq' = stateSeq + 1
        /\ \A k \in Key \ {Counter} : state'[k] = state[k]
    BY <1>1, <1>9 DEF Write, LoopInv, LoopTypes, VersionInv, TypeOK
  <2>4. seen[w].value = state[Counter]
    <3>1. seen[w].version = stateVersion[Counter]
      BY <1>1, <1>9 DEF Matches, expected, NilVersion, NoVersion
    <3> QED
      BY <1>2, <3>1 DEF FitsCounter
  <2>5. Done' = Done \cup {w}
    BY <2>2 DEF Done, LoopInv, LoopTypes
  <2>6. CountedOnce'
    BY <1>3, <2>3, <2>4, <2>5 DEF CountedOnce, v
  <2>7. Present(Counter)' /\ stateVersion'[Counter] # NoVersion
    BY <1>1, <1>3, <2>3 DEF Present, NoVersion
  <2>8. ASSUME NEW u \in Worker, at'[u] = "swap" PROVE FitsCounter(u)'
    <3>1. u # w /\ at[u] = "swap"
      BY <2>2, <2>8 DEF LoopInv, LoopTypes
    <3>2. FitsCounter(u) /\ seen[u].version \in Nat /\ seen[u].value \in Nat
      BY <3>1, Numbers DEF LoopInv, CountInv
    <3> QED
      BY <1>1, <1>2, <2>3, <2>4, <3>2 DEF FitsCounter, v
  <2>9. \A k \in Key : Present(k) => Present(k)'
    BY <1>3, <2>3 DEF Present
  <2> QED
    BY <1>2, <1>7, <2>2, <2>6, <2>7, <2>8, <2>9 DEF CountInv, LoopInv, LoopTypes
<1>10. CASE reply' = Conflict("state_compare_and_set", Counter, expected) /\ UNCHANGED store
  <2>1. UNCHANGED <<state, stateVersion, stateSeq>> /\ reply'.code = "OK" /\ ~reply'.applied
    BY <1>10 DEF Conflict, Answer, store
  <2>2. at' = [at EXCEPT ![w] = "read"]
    BY <1>6, <2>1
  <2>3. Done' = Done
    BY <1>2, <2>2 DEF Done, LoopInv, LoopTypes
  <2>4. ASSUME NEW u \in Worker, at'[u] = "swap" PROVE FitsCounter(u)'
    <3>1. at[u] = "swap"
      BY <2>2, <2>4 DEF LoopInv, LoopTypes
    <3> QED
      BY <1>2, <2>1, <3>1 DEF FitsCounter, LoopInv, CountInv
  <2> QED
    BY <1>2, <1>7, <2>1, <2>2, <2>3, <2>4 DEF LoopInv, LoopTypes, CountInv, CountedOnce, Present
<1> QED
  BY <1>5, <1>8, <1>9, <1>10 DEF StateCompareAndSet

-----------------------------------------------------------------------------
(* Scanning *)

\* What is read of a key that another command leaves present.
LEMMA ScanStays ==
  ASSUME ScanInv, UNCHANGED <<scan, lasting>>, \A k \in Key : Present(k) => Present(k)',
         lasting \in [Scanner -> SUBSET Key]
  PROVE  ScanInv'
BY DEF ScanInv, Behind, Began

\* A page lists all there is up to its last key, and the last page the rest.
LEMMA PageCovers ==
  ASSUME TypeOK, NEW prefix \in Prefix, NEW cursor \in Key \cup {EmptyKey}, NEW limit \in Limit,
         limit \in 1 .. 256, NEW found, found = Matching(prefix, cursor), NEW page, page = FirstOf(found, limit),
         NEW next, next = IF Cardinality(found) > limit THEN Max(page) ELSE EmptyKey
  PROVE  /\ page \in SUBSET Key /\ next \in Key \cup {EmptyKey}
         /\ next # EmptyKey => \A k \in found : k <= next => k \in page
         /\ next = EmptyKey => found \subseteq page
<1>1. found \in SUBSET Key /\ page \in SUBSET Key /\ page \subseteq found
  BY ScanAssumption DEF Matching, FirstOf
<1>2. IsFiniteSet(found) /\ Cardinality(found) \in Nat /\ limit \in Nat
  BY <1>1, SomeKeys, FS_CardinalityType
<1>3. CASE Cardinality(found) > limit
  <2>1. found # {}
    BY <1>2, <1>3, FS_EmptySet
  <2>2. page # {}
    BY <1>1, <2>1, PageIsNotEmpty
  <2>3. Max(page) \in page
    BY <1>1, <2>2, LastOfPage
  <2>4. \A k \in found : k <= Max(page) => k \in page
    BY <1>1, <1>2, <2>3, PageSkipsNothing
  <2>5. Max(page) # EmptyKey
    BY <1>1, <2>3, KeyAssumption
  <2> QED
    BY <1>1, <1>3, <2>3, <2>4, <2>5
<1>4. CASE ~(Cardinality(found) > limit)
  <2>1. ASSUME NEW k \in found PROVE k \in page
    <3> DEFINE upto == {j \in found : j <= k}
    <3>1. upto \in SUBSET found
      OBVIOUS
    <3>2. IsFiniteSet(upto) /\ Cardinality(upto) <= Cardinality(found) /\ Cardinality(upto) \in Nat
      BY <1>2, <3>1, FS_Subset, FS_CardinalityType
    <3>3. Cardinality(upto) <= limit
      BY <1>2, <1>4, <3>2
    <3> QED
      BY <3>3 DEF FirstOf
  <2> QED
    BY <1>1, <1>4, <2>1
<1> QED
  BY <1>3, <1>4


\* A scanner opens a scan, or asks for its next page.
LEMMA BeginKeeps ==
  ASSUME LoopInv, NEW s \in Scanner, NEW prefix \in Prefix, BeginScan(s, prefix)
  PROVE  [Next]_vars /\ ScanInv' /\ scan' \in [Scanner -> ScanState] /\ lasting' \in [Scanner -> SUBSET Key]
         /\ UNCHANGED <<state, stateVersion, stateSeq>>
<1>1. PICK begun : begun = [NoScan EXCEPT !.open = TRUE, !.prefix = prefix]
  OBVIOUS
<1>2. begun.open = TRUE /\ begun.prefix = prefix /\ begun.cursor = EmptyKey /\ begun \in ScanState
  BY <1>1, ScanAssumption DEF NoScan, ScanState
<1>3. /\ scan' = [scan EXCEPT ![s] = begun]
      /\ lasting' = [lasting EXCEPT ![s] = {k \in prefix : Present(k)}]
      /\ UNCHANGED vars /\ prefix \in SUBSET Key
  BY <1>1, ScanAssumption DEF BeginScan, store, vars
<1>4. scan' \in [Scanner -> ScanState] /\ lasting' \in [Scanner -> SUBSET Key]
  BY <1>2, <1>3 DEF LoopInv, LoopTypes
<1>5. scan'[s] = begun /\ lasting'[s] = {k \in prefix : Present(k)}
  BY <1>3 DEF LoopInv, LoopTypes
<1>6. \A r \in Scanner \ {s} : scan'[r] = scan[r] /\ lasting'[r] = lasting[r]
  BY <1>3 DEF LoopInv, LoopTypes
<1>7. \A k \in Key : Present(k)' <=> Present(k)
  BY <1>3 DEF Present, vars
<1>8. ASSUME NEW r \in Scanner
      PROVE  /\ \A k \in lasting'[r] : Present(k)' /\ k \in scan'[r].prefix
             /\ scan'[r].open => /\ scan'[r].prefix \in Prefix
                                 /\ \A k \in lasting'[r] : Behind(r, k)' => k \in scan'[r].listed
             /\ Began(r)' /\ ~scan'[r].open => lasting'[r] \subseteq scan'[r].listed
  <2>1. CASE r = s
    <3>1. ~Behind(s, EmptyKey)' /\ \A k : ~Behind(s, k)'
      BY <1>2, <1>5 DEF Behind
    <3> QED
      BY <1>2, <1>3, <1>5, <1>7, <2>1, <3>1
  <2>2. CASE r # s
    <3>1. scan'[r] = scan[r] /\ lasting'[r] = lasting[r] /\ lasting[r] \in SUBSET Key
      BY <1>6, <2>2 DEF LoopInv, LoopTypes
    <3>2. Began(r)' = Began(r) /\ \A k : Behind(r, k)' = Behind(r, k)
      BY <3>1 DEF Began, Behind
    <3> QED
      BY <1>7, <3>1, <3>2 DEF LoopInv, ScanInv
  <2> QED
    BY <2>1, <2>2
<1>9. ScanInv'
  BY <1>8 DEF ScanInv
<1> QED
  BY <1>3, <1>4, <1>9 DEF vars

\* A page lists what lasts between the two cursors; a refusal changes nothing.
LEMMA PageKeeps ==
  ASSUME LoopInv, NEW s \in Scanner, NEW limit \in Limit, NextPage(s, limit)
  PROVE  [Next]_vars /\ ScanInv' /\ scan' \in [Scanner -> ScanState] /\ lasting' \in [Scanner -> SUBSET Key]
         /\ UNCHANGED <<state, stateVersion, stateSeq>>
<1>1. TypeOK /\ scan[s] \in ScanState /\ scan[s].cursor \in Key \cup {EmptyKey} /\ scan[s].open
  BY DEF LoopInv, LoopTypes, VersionInv, ScanState, NextPage
<1>2. scan[s].prefix \in Prefix /\ StateScan(scan[s].prefix, scan[s].cursor, limit) /\ lasting' = lasting
  BY <1>1 DEF LoopInv, ScanInv, NextPage
<1>3. [Next]_vars
  BY <1>1, <1>2 DEF Next, ConditionalNext
<1>4. UNCHANGED <<state, stateVersion, stateSeq>>
  BY <1>2, RefusedIsUntouched DEF StateScan, store, Untouched
<1>5. \A k \in Key : Present(k)' <=> Present(k)
  BY <1>4 DEF Present
<1>6. CASE reply'.code # "OK"
  <2>1. scan' = scan
    BY <1>6 DEF NextPage
  <2>2. ScanInv'
    BY <1>2, <1>5, <2>1, ScanStays DEF LoopInv, LoopTypes
  <2> QED
    BY <1>2, <1>3, <1>4, <2>1, <2>2 DEF LoopInv, LoopTypes
<1>7. CASE reply'.code = "OK"
  <2>1. limit \in 1 .. 256
    BY <1>2, <1>7 DEF StateScan, Refused, Answer
  <2>2. PICK found : found = Matching(scan[s].prefix, scan[s].cursor)
    OBVIOUS
  <2>3. PICK page : page = FirstOf(found, limit)
    OBVIOUS
  <2>4. PICK next : next = IF Cardinality(found) > limit THEN Max(page) ELSE EmptyKey
    OBVIOUS
  <2>5. reply' = [Answer("state_scan", EmptyKey, "OK") EXCEPT !.page = Entries(page), !.next = next]
    <3>1. ~Refused("state_scan", EmptyKey, limit \in 1 .. 256)
      BY <1>7 DEF Refused, Answer
    <3> QED
      BY <1>2, <2>2, <2>3, <2>4, <3>1 DEF StateScan
  <2>6. {e.key : e \in reply'.page} = page /\ reply'.next = next
    <3>1. {e.key : e \in Entries(page)} = page
      <4>1. \A e \in Entries(page) : e.key \in page
        BY DEF Entries
      <4>2. ASSUME NEW k \in page PROVE \E e \in Entries(page) : e.key = k
        <5>1. [key |-> k, value |-> state[k], version |-> stateVersion[k]] \in Entries(page)
          BY DEF Entries
        <5> QED
          BY <5>1
      <4> QED
        BY <4>1, <4>2
    <3>2. reply'.page = Entries(page) /\ reply'.next = next
      BY <2>5 DEF Answer
    <3> QED
      BY <3>1, <3>2
  <2>7. /\ page \in SUBSET Key /\ next \in Key \cup {EmptyKey}
        /\ next # EmptyKey => \A k \in found : k <= next => k \in page
        /\ next = EmptyKey => found \subseteq page
    BY <1>1, <1>2, <2>1, <2>2, <2>3, <2>4, PageCovers
  <2>8. PICK after : after = [scan[s] EXCEPT !.listed = @ \cup page, !.cursor = next, !.open = next # EmptyKey]
    OBVIOUS
  <2>9. /\ after.listed = scan[s].listed \cup page /\ after.cursor = next /\ after.open = (next # EmptyKey)
        /\ after.prefix = scan[s].prefix /\ after \in ScanState
    BY <1>1, <2>7, <2>8 DEF ScanState
  <2>10. scan' = [scan EXCEPT ![s].listed = @ \cup page, ![s].cursor = next, ![s].open = next # EmptyKey]
    BY <1>7, <2>6 DEF NextPage
  <2>11. scan' \in [Scanner -> ScanState]
    BY <1>1, <2>7, <2>10 DEF LoopInv, LoopTypes, ScanState
  <2>12. /\ scan'[s].listed = scan[s].listed \cup page /\ scan'[s].cursor = next
         /\ scan'[s].open = (next # EmptyKey) /\ scan'[s].prefix = scan[s].prefix
    BY <1>1, <2>10 DEF LoopInv, LoopTypes, ScanState
  <2>13. \A r \in Scanner \ {s} : scan'[r] = scan[r]
    BY <2>10 DEF LoopInv, LoopTypes
  <2>14. ASSUME NEW k \in lasting[s]
         PROVE  /\ next # EmptyKey /\ k <= next => k \in scan[s].listed \cup page
                /\ next = EmptyKey => k \in scan[s].listed \cup page
    <3>1. k \in Key /\ Present(k) /\ k \in scan[s].prefix /\ k \in Nat
      BY <2>14, KeyAssumption DEF LoopInv, LoopTypes, ScanInv
    <3>2. CASE Behind(s, k)
      BY <1>1, <2>14, <3>2 DEF LoopInv, ScanInv
    <3>3. CASE ~Behind(s, k)
      <4>0. \A c \in Key \cup {EmptyKey} : c \in Nat
        BY KeyAssumption DEF EmptyKey
      <4>1. scan[s].cursor \in Nat
        BY <1>1, <4>0
      <4>2. k \in found
        BY <2>2, <3>1, <3>3, <4>1 DEF Behind, Matching
      <4> QED
        BY <2>7, <4>2
    <3> QED
      BY <3>2, <3>3
  <2>15. ASSUME NEW r \in Scanner
         PROVE  /\ \A k \in lasting'[r] : Present(k)' /\ k \in scan'[r].prefix
                /\ scan'[r].open => /\ scan'[r].prefix \in Prefix
                                    /\ \A k \in lasting'[r] : Behind(r, k)' => k \in scan'[r].listed
                /\ Began(r)' /\ ~scan'[r].open => lasting'[r] \subseteq scan'[r].listed
    <3>0. lasting'[r] = lasting[r] /\ lasting[r] \in SUBSET Key
      BY <1>2 DEF LoopInv, LoopTypes
    <3>1. CASE r = s
      <4>1. \A k \in lasting[s] : Present(k)' /\ k \in scan'[s].prefix
        BY <1>5, <2>12, <3>0, <3>1 DEF LoopInv, ScanInv
      <4>2. scan'[s].open => \A k \in lasting[s] : Behind(s, k)' => k \in scan'[s].listed
        BY <2>12, <2>14 DEF Behind
      <4>3. ~scan'[s].open => lasting[s] \subseteq scan'[s].listed
        BY <2>12, <2>14
      <4> QED
        BY <1>2, <2>12, <3>0, <3>1, <4>1, <4>2, <4>3
    <3>2. CASE r # s
      <4>1. scan'[r] = scan[r]
        BY <2>13, <3>2
      <4>2. Began(r)' = Began(r) /\ \A k : Behind(r, k)' = Behind(r, k)
        BY <4>1 DEF Began, Behind
      <4> QED
        BY <1>5, <3>0, <4>1, <4>2 DEF LoopInv, ScanInv
    <3> QED
      BY <3>1, <3>2
  <2>16. ScanInv'
    BY <2>15 DEF ScanInv
  <2> QED
    BY <1>2, <1>3, <1>4, <2>11, <2>16 DEF LoopInv, LoopTypes
<1> QED
  BY <1>6, <1>7


-----------------------------------------------------------------------------
(* The others *)

\* What other invocations do touches neither the counter nor a key that lasts.
LEMMA OthersKeep ==
  ASSUME LoopInv, Others
  PROVE  LoopInv'
<1>1. [Next]_vars
  BY DEF Others, Meanwhile, Next, ConditionalNext
<1>2. VersionInv' /\ stateSeq <= stateSeq'
  <2>1. VersionInv'
    BY <1>1, NextVersionInv DEF LoopInv, LoopTypes
  <2>2. stateSeq \in Nat
    BY Numbers DEF LoopInv
  <2>3. stateSeq' = stateSeq \/ stateSeq' = stateSeq + 1
    BY <1>1, AnyStep DEF Untouched, Written, Write, Cleared, ValueDropped
  <2> QED
    BY <2>1, <2>2, <2>3
<1>3. /\ lasting' = [s \in Scanner |-> {k \in lasting[s] : Present(k)'}]
      /\ UNCHANGED <<scan, at, seen>>
  BY DEF Others, Meanwhile
<1>4. LoopTypes'
  BY <1>2, <1>3 DEF LoopInv, LoopTypes
<1>5. CountInv'
  BY <1>2, <1>3, <1>4, CountStays DEF LoopInv, Others, KeepsCounter
<1>6. ASSUME NEW s \in Scanner
      PROVE  /\ \A k \in lasting'[s] : Present(k)' /\ k \in scan'[s].prefix
             /\ scan'[s].open => /\ scan'[s].prefix \in Prefix
                                 /\ \A k \in lasting'[s] : Behind(s, k)' => k \in scan'[s].listed
             /\ Began(s)' /\ ~scan'[s].open => lasting'[s] \subseteq scan'[s].listed
  <2>1. lasting'[s] \subseteq lasting[s] /\ scan'[s] = scan[s] /\ \A k \in lasting'[s] : Present(k)'
    BY <1>3
  <2>2. Began(s)' = Began(s) /\ \A k : Behind(s, k)' = Behind(s, k)
    BY <2>1 DEF Began, Behind
  <2> QED
    BY <2>1, <2>2 DEF LoopInv, ScanInv
<1>7. ScanInv'
  BY <1>6 DEF ScanInv
<1> QED
  BY <1>4, <1>5, <1>7 DEF LoopInv

-----------------------------------------------------------------------------
(* The loops together *)

\* Nothing counted, nothing scanned.
LEMMA InitLoopInv == LoopInit => LoopInv
<1> SUFFICES ASSUME LoopInit PROVE LoopInv
  OBVIOUS
<1>1. VersionInv
  BY InitVersionInv DEF LoopInit, RetryInit
<1>2. Counter \in Key /\ NoValue = 0
  BY RetryAssumption
<1>3. LoopTypes
  <2>1. NoScan \in ScanState
    BY DEF NoScan, ScanState
  <2>2. [value |-> NoValue, version |-> NoVersion] \in Entry
    BY DEF Entry
  <2> QED
    BY <1>1, <2>1, <2>2 DEF LoopInit, RetryInit, ScanInit, LoopTypes
<1>4. CountInv
  <2>1. Done = {} /\ \A w \in Worker : at[w] # "swap"
    BY DEF LoopInit, RetryInit, Done
  <2> QED
    BY <1>2, <2>1, FS_EmptySet DEF LoopInit, RetryInit, Init, CountInv, CountedOnce, Present
<1>5. ScanInv
  BY DEF LoopInit, ScanInit, ScanInv, Began, NoScan
<1> QED
  BY <1>3, <1>4, <1>5 DEF LoopInv

\* Others, scanners and workers in any order.
LEMMA NextLoopInv == LoopInv /\ [LoopNext]_loopVars => LoopInv'
<1> SUFFICES ASSUME LoopInv, [LoopNext]_loopVars PROVE LoopInv'
  OBVIOUS
<1>1. CASE Others
  BY <1>1, OthersKeep
<1>2. ASSUME NEW s \in Scanner, Scanning(s) PROVE LoopInv'
  <2>1. /\ [Next]_vars /\ ScanInv' /\ scan' \in [Scanner -> ScanState] /\ lasting' \in [Scanner -> SUBSET Key]
        /\ UNCHANGED <<state, stateVersion, stateSeq>>
    BY <1>2, BeginKeeps, PageKeeps DEF Scanning
  <2>2. VersionInv' /\ UNCHANGED <<at, seen>>
    BY <1>2, <2>1, NextVersionInv DEF LoopInv, LoopTypes, Scanning
  <2>3. LoopTypes'
    BY <2>1, <2>2 DEF LoopInv, LoopTypes
  <2>4. stateSeq <= stateSeq'
    BY <2>1, Numbers DEF LoopInv
  <2>5. CountInv'
    BY <2>1, <2>2, <2>3, <2>4, CountStays DEF LoopInv
  <2> QED
    BY <2>1, <2>3, <2>5 DEF LoopInv
<1>3. ASSUME NEW w \in Worker, Counting(w) PROVE LoopInv'
  <2>1. /\ [Next]_vars /\ at' \in [Worker -> {"read", "swap", "done"}] /\ seen' \in [Worker -> Entry]
        /\ CountInv' /\ \A k \in Key : Present(k) => Present(k)'
    <3>1. CASE Reread(w)
      BY <3>1, RereadKeeps DEF Present
    <3>2. CASE Swap(w)
      BY <3>2, SwapKeeps DEF LoopInv, LoopTypes
    <3> QED
      BY <1>3, <3>1, <3>2 DEF Counting, Work
  <2>2. UNCHANGED <<scan, lasting>> /\ VersionInv'
    BY <1>3, <2>1, NextVersionInv DEF Counting, LoopInv, LoopTypes
  <2>3. LoopTypes' /\ ScanInv'
    BY <2>1, <2>2, ScanStays DEF LoopInv, LoopTypes
  <2> QED
    BY <2>1, <2>3 DEF LoopInv
<1>4. CASE UNCHANGED loopVars
  <2>1. UNCHANGED <<state, stateVersion, stateSeq, StateConfigured, reply, at, seen, scan, lasting>>
    BY <1>4 DEF loopVars, retryVars
  <2>2. [Next]_vars /\ \A k \in Key : Present(k) => Present(k)'
    BY <2>1 DEF vars, Present
  <2>3. LoopTypes'
    BY <2>1, <2>2, NextVersionInv DEF LoopInv, LoopTypes
  <2>4. CountInv' /\ ScanInv'
    BY <2>1, <2>2, <2>3, Numbers, CountStays, ScanStays DEF LoopInv, LoopTypes
  <2> QED
    BY <2>3, <2>4 DEF LoopInv
<1> QED
  BY <1>1, <1>2, <1>3, <1>4 DEF LoopNext

\* The inductive invariant of the two loops: what a worker swaps with fits the
\* counter or can no more match it, and what has lasted behind a cursor was listed.
THEOREM LoopHolds == LoopSpec => []LoopInv
<1>1. LoopInit => LoopInv
  BY InitLoopInv
<1>2. LoopInv /\ [LoopNext]_loopVars => LoopInv'
  BY NextLoopInv
<1> QED BY <1>1, <1>2, PTL DEF LoopSpec

\* However many plugins count themselves under one key, each is counted exactly
\* once: the reread-and-retry loop of state.go drops no increment on a conflict
\* and repeats none that was applied.
THEOREM LoopCountsOnce == LoopSpec => []CountedOnce
<1>1. LoopInv => CountedOnce
  BY DEF LoopInv, CountInv
<1> QED BY <1>1, LoopHolds, PTL

\* A finished scan lists every key of its prefix that was there all along,
\* whatever lands between its pages: the cursor is a key, not a position.
THEOREM LoopScanMissesNothing == LoopSpec => []ScanMissesNothingLasting
<1>1. LoopInv => ScanMissesNothingLasting
  BY DEF LoopInv, ScanInv, ScanMissesNothingLasting
<1> QED BY <1>1, LoopHolds, PTL
=============================================================================
