---------------------------- MODULE StateStore ----------------------------
(***************************************************************************)
(* Durable plugin state as the native test host keeps it: the env.state_*  *)
(* cases of builtinTyped (sdktest/sdktest.go), called by the helpers of    *)
(* state.go.  The host holds two maps, state and stateVersion, and the     *)
(* counter stateSeq that versions are formatted from.  builtinTyped holds  *)
(* the harness mutex, so each command is one step.                         *)
(*                                                                         *)
(* Keys are their lexical rank (0 is the empty string, which no command    *)
(* accepts as a key and which starts and ends a scan).  A version is the   *)
(* number it is formatted from; a missing map entry reads as "", here      *)
(* NoVersion; a nil *string is NilVersion.  A prefix is the set of keys    *)
(* that begin with it.                                                     *)
(***************************************************************************)
EXTENDS Integers, FiniteSets, FiniteSetsExt

CONSTANTS
  Key,       \* ranks of the keys a plugin uses
  Value,     \* what a key can hold; the empty string is an ordinary value
  NoValue,   \* no entry in the state map
  Prefix,    \* the prefixes a scan asks for, each a set of keys
  Limit,     \* the page limits a scan asks for
  MaxSeq     \* bound: how many versions are ever issued

EmptyKey == 0
NoVersion == 0
NilVersion == -1
Version == 1 .. MaxSeq

ASSUME KeyAssumption == Key \subseteq Nat \ {EmptyKey} /\ IsFiniteSet(Key)
ASSUME ValueAssumption == NoValue \notin Value
ASSUME ScanAssumption == Prefix \subseteq SUBSET Key /\ Limit \subseteq Nat
ASSUME MaxSeqAssumption == MaxSeq \in Nat

VARIABLES
  state,            \* h.state
  stateVersion,     \* h.stateVersion
  stateSeq,         \* h.stateSeq
  StateConfigured,  \* h.StateConfigured, a field the test sets
  reply             \* the last command and what it answered

store == <<state, stateVersion, stateSeq, StateConfigured>>
vars == <<state, stateVersion, stateSeq, StateConfigured, reply>>

-----------------------------------------------------------------------------
Command == {"none", "state_get", "state_get_versioned", "state_set",
            "state_compare_and_set", "state_compare_and_delete",
            "state_delete", "state_scan", "state_keys"}
Code == {"OK", "NOT_FOUND", "NOT_CONFIGURED", "INVALID_ARGUMENT"}

\* An entry of a scan page.
StateEntry == [key : Key, value : Value, version : Version \cup {NoVersion}]

Reply == [cmd : Command, key : Key \cup {EmptyKey}, expected : Version \cup {NilVersion}, code : Code,
          value : Value \cup {NoValue}, version : Version \cup {NoVersion},
          applied : BOOLEAN, keys : SUBSET Key, page : SUBSET StateEntry, next : Key \cup {EmptyKey}]

TypeOK ==
  /\ state \in [Key -> Value \cup {NoValue}]
  /\ stateVersion \in [Key -> Version \cup {NoVersion}]
  /\ stateSeq \in 0 .. MaxSeq
  /\ StateConfigured \in BOOLEAN
  /\ reply \in Reply

Answer(cmd, k, code) ==
  [cmd |-> cmd, key |-> k, expected |-> NilVersion, code |-> code, value |-> NoValue,
   version |-> NoVersion, applied |-> FALSE, keys |-> {}, page |-> {}, next |-> EmptyKey]

\* The answer to a conditional write that found something else than expected.
Conflict(cmd, k, expected) == [Answer(cmd, k, "OK") EXCEPT !.expected = expected]

Init ==
  /\ state = [k \in Key |-> NoValue]
  /\ stateVersion = [k \in Key |-> NoVersion]
  /\ stateSeq = 0
  /\ StateConfigured = TRUE
  /\ reply = Answer("none", EmptyKey, "OK")

Present(k) == state[k] # NoValue

\* Arguments are validated first, then the store must be configured; a
\* refusal changes nothing.
Refused(cmd, k, valid) ==
  /\ \/ ~valid /\ reply' = Answer(cmd, k, "INVALID_ARGUMENT")
     \/ valid /\ ~StateConfigured /\ reply' = Answer(cmd, k, "NOT_CONFIGURED")
  /\ UNCHANGED store

\* Slip: a counter per key.
WritePerKey(k, v) ==
  /\ stateSeq < MaxSeq
  /\ state' = [state EXCEPT ![k] = v]
  /\ stateSeq' = stateSeq + 1
  /\ stateVersion' = [stateVersion EXCEPT ![k] = @ + 1]
  /\ UNCHANGED StateConfigured

\* The key is written under the next version of the one counter.
Write(k, v) ==
  /\ stateSeq < MaxSeq
  /\ state' = [state EXCEPT ![k] = v]
  /\ stateSeq' = stateSeq + 1
  /\ stateVersion' = [stateVersion EXCEPT ![k] = stateSeq + 1]
  /\ UNCHANGED StateConfigured

-----------------------------------------------------------------------------
StateGet(k) ==
  \/ Refused("state_get", k, k # EmptyKey)
  \/ /\ k # EmptyKey /\ StateConfigured
     /\ reply' = [Answer("state_get", k, IF Present(k) THEN "OK" ELSE "NOT_FOUND")
                   EXCEPT !.value = state[k]]
     /\ UNCHANGED store

StateGetVersioned(k) ==
  \/ Refused("state_get_versioned", k, k # EmptyKey)
  \/ /\ k # EmptyKey /\ StateConfigured
     /\ \/ Present(k) /\ reply' = [Answer("state_get_versioned", k, "OK")
                                    EXCEPT !.value = state[k], !.version = stateVersion[k]]
        \/ ~Present(k) /\ reply' = Answer("state_get_versioned", k, "NOT_FOUND")
     /\ UNCHANGED store

\* Slip: an unconditional write keeps the old version.
StateSetUnversioned(k, v) ==
  \/ Refused("state_set", k, k # EmptyKey)
  \/ /\ k # EmptyKey /\ StateConfigured
     /\ state' = [state EXCEPT ![k] = v]
     /\ reply' = Answer("state_set", k, "OK")
     /\ UNCHANGED <<stateVersion, stateSeq, StateConfigured>>

StateSet(k, v) ==
  \/ Refused("state_set", k, k # EmptyKey)
  \/ /\ k # EmptyKey /\ StateConfigured
     /\ Write(k, v)
     /\ reply' = Answer("state_set", k, "OK")

\* Slip: no expected version means no condition.
MatchesNilAsAny(k, expected) == expected = NilVersion \/ expected = stateVersion[k]

\* The match of compare_and_set is decided on the version map alone.
Matches(k, expected) ==
  \/ expected = NilVersion /\ stateVersion[k] = NoVersion
  \/ expected # NilVersion /\ stateVersion[k] # NoVersion /\ expected = stateVersion[k]

StateCompareAndSet(k, v, expected) ==
  \/ Refused("state_compare_and_set", k, k # EmptyKey /\ expected # NoVersion)
  \/ /\ k # EmptyKey /\ expected # NoVersion /\ StateConfigured
     /\ \/ /\ Matches(k, expected)
           /\ Write(k, v)
           /\ reply' = [Conflict("state_compare_and_set", k, expected)
                         EXCEPT !.value = v, !.applied = TRUE, !.version = stateSeq + 1]
        \/ /\ ~Matches(k, expected)
           /\ reply' = Conflict("state_compare_and_set", k, expected)
           /\ UNCHANGED store

\* Slips: the deletion leaves the version behind, or marks it instead.
ConditionalDelete(k, expected, versionLeft) ==
  \/ Refused("state_compare_and_delete", k, k # EmptyKey /\ expected # NoVersion)
  \/ /\ k # EmptyKey /\ expected # NoVersion /\ StateConfigured
     /\ stateVersion[k] = expected
     /\ state' = [state EXCEPT ![k] = NoValue]
     /\ stateVersion' = [stateVersion EXCEPT ![k] = versionLeft]
     /\ reply' = [Conflict("state_compare_and_delete", k, expected) EXCEPT !.applied = TRUE]
     /\ UNCHANGED <<stateSeq, StateConfigured>>
CompareAndDeleteKeepingVersion(k, expected) == ConditionalDelete(k, expected, stateVersion[k])
CompareAndDeleteMarking(k, expected) == ConditionalDelete(k, expected, NilVersion)

StateCompareAndDelete(k, expected) ==
  \/ Refused("state_compare_and_delete", k, k # EmptyKey /\ expected # NoVersion)
  \/ /\ k # EmptyKey /\ expected # NoVersion /\ StateConfigured
     /\ \/ /\ stateVersion[k] # expected
           /\ reply' = Conflict("state_compare_and_delete", k, expected)
           /\ UNCHANGED store
        \/ /\ stateVersion[k] = expected
           /\ state' = [state EXCEPT ![k] = NoValue]
           /\ stateVersion' = [stateVersion EXCEPT ![k] = NoVersion]
           /\ reply' = [Conflict("state_compare_and_delete", k, expected) EXCEPT !.applied = TRUE]
           /\ UNCHANGED <<stateSeq, StateConfigured>>

\* The value goes; the version map is not touched.
StateDelete(k) ==
  \/ Refused("state_delete", k, k # EmptyKey)
  \/ /\ k # EmptyKey /\ StateConfigured
     /\ state' = [state EXCEPT ![k] = NoValue]
     /\ reply' = Answer("state_delete", k, "OK")
     /\ UNCHANGED <<stateVersion, stateSeq, StateConfigured>>

\* Slip: the cursor itself is listed again.
MatchingFromCursor(prefix, cursor) == {k \in prefix : Present(k) /\ k >= cursor}

\* The keys a scan would list past the cursor, what it says of a key, and the
\* first limit of some keys.
Matching(prefix, cursor) == {k \in prefix : Present(k) /\ (cursor = EmptyKey \/ k > cursor)}
Entries(keys) == {[key |-> k, value |-> state[k], version |-> stateVersion[k]] : k \in keys}
FirstOf(keys, limit) == {k \in keys : Cardinality({j \in keys : j <= k}) <= limit}

\* Slip: the cursor is the first key that did not fit.
StateScanFromUnlisted(prefix, cursor, limit) ==
  \/ Refused("state_scan", EmptyKey, limit \in 1 .. 256)
  \/ /\ limit \in 1 .. 256 /\ StateConfigured
     /\ LET found == Matching(prefix, cursor)
            page == FirstOf(found, limit)
        IN reply' = [Answer("state_scan", EmptyKey, "OK")
                      EXCEPT !.page = Entries(page),
                             !.next = IF found # page THEN Min(found \ page) ELSE EmptyKey]
     /\ UNCHANGED store

StateScan(prefix, cursor, limit) ==
  \/ Refused("state_scan", EmptyKey, limit \in 1 .. 256)
  \/ /\ limit \in 1 .. 256 /\ StateConfigured
     /\ LET found == Matching(prefix, cursor)
            page == FirstOf(found, limit)
        IN reply' = [Answer("state_scan", EmptyKey, "OK")
                      EXCEPT !.page = Entries(page),
                             !.next = IF Cardinality(found) > limit THEN Max(page) ELSE EmptyKey]
     /\ UNCHANGED store

StateKeys ==
  \/ Refused("state_keys", EmptyKey, TRUE)
  \/ /\ StateConfigured
     /\ reply' = [Answer("state_keys", EmptyKey, "OK") EXCEPT !.keys = {k \in Key : Present(k)}]
     /\ UNCHANGED store

\* The test warms the store before or between dispatches; nothing is validated.
SeedState(k, v) == Write(k, v) /\ UNCHANGED reply

\* The test declares that the host has, or has not, a durable store.
ConfigureState ==
  /\ StateConfigured' = ~StateConfigured
  /\ UNCHANGED <<state, stateVersion, stateSeq, reply>>

-----------------------------------------------------------------------------
\* Every command of a plugin that gives up keys by compare_and_delete only.
ConditionalNext ==
  \/ ConfigureState
  \/ StateKeys
  \/ \E k \in Key \cup {EmptyKey} :
       \/ StateGet(k)
       \/ StateGetVersioned(k)
       \/ \E v \in Value :
            \/ StateSet(k, v)
            \/ \E expected \in Version \cup {NoVersion, NilVersion} : StateCompareAndSet(k, v, expected)
       \/ \E expected \in Version \cup {NoVersion} : StateCompareAndDelete(k, expected)
  \/ \E k \in Key, v \in Value : SeedState(k, v)  \* bound: no test seeds the empty key
  \/ \E prefix \in Prefix, cursor \in Key \cup {EmptyKey}, limit \in Limit : StateScan(prefix, cursor, limit)

Next == ConditionalNext \/ \E k \in Key \cup {EmptyKey} : StateDelete(k)

ConditionalSpec == Init /\ [][ConditionalNext]_vars
Spec == Init /\ [][Next]_vars

-----------------------------------------------------------------------------
(* Properties *)

\* Every stored value has a version, so a versioned read or a scan page never
\* carries the empty version that StateValue.Validate rejects
\* (foundation_validate.go); the write paths of sdktest.go keep the two maps
\* in step.
StoredValuesHaveVersions == \A k \in Key : Present(k) => stateVersion[k] # NoVersion

\* Two keys never share a version and the counter is past all of them: what
\* makes a version held by a plugin worthless once its key was rewritten.
VersionsAreDistinct ==
  /\ \A k \in Key : stateVersion[k] <= stateSeq
  /\ \A j, k \in Key : stateVersion[j] = stateVersion[k] /\ stateVersion[j] # NoVersion => j = k

\* While keys are only given up by compare_and_delete, the two maps of the
\* host hold the same keys (sdktest.go deletes from both in that command).
MapsAgree == \A k \in Key : Present(k) <=> stateVersion[k] # NoVersion

\* The entry the two maps hold at a key.
Cell == [k \in Key |-> IF Present(k) THEN {[value |-> state[k], version |-> stateVersion[k]]} ELSE {}]

\* The answer as the abstract store words it.
Outcome ==
  [cmd |-> reply.cmd, code |-> reply.code,
   key |-> IF reply.key = EmptyKey THEN {} ELSE {reply.key},
   expected |-> IF reply.expected = NilVersion THEN {} ELSE {reply.expected},
   values |-> IF reply.value = NoValue THEN {} ELSE {reply.value},
   versions |-> IF reply.version = NoVersion THEN {} ELSE {reply.version},
   keys |-> reply.keys, entries |-> reply.page, applied |-> reply.applied]

Promise == INSTANCE VersionedStore
  WITH cell <- Cell, issued <- 1 .. stateSeq, available <- StateConfigured, outcome <- Outcome

\* The store keeps the promise of VersionedStore: fresh versions, conditional
\* writes that apply exactly when the entry still is the expected one, answers
\* that tell the truth (state.go's contract for StateGetVersioned,
\* StateCompareAndSet, StateCompareAndDelete).
KeepsPromise == Promise!Spec

\* The doc of StateCompareAndDelete: "Applied=false is a clean conflict or
\* absence", so deleting a key that holds nothing is never reported applied.
AbsenceIsNotApplied ==
  [][\A k \in Key, expected \in Version :
       StateCompareAndDelete(k, expected) /\ ~Present(k) => ~reply'.applied]_vars

=============================================================================
