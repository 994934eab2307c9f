-------------------------- MODULE VersionedStore --------------------------
(***************************************************************************)
(* What the durable plugin state promises a plugin (state.go, the State*   *)
(* messages of torana.proto): one cell per key that holds a value and an   *)
(* opaque version, versions that are never issued twice, and conditional   *)
(* writes that succeed exactly when the cell still is the one expected.    *)
(* Nothing here says how a version is made.                                *)
(***************************************************************************)
EXTENDS Integers

CONSTANTS
  Key,          \* the keys of one plugin's namespace
  Value,        \* what a key can hold
  Version       \* the opaque versions a host can issue

VARIABLES
  cell,         \* cell[k] is the set of entries at k: empty, or one entry
  issued,       \* every version issued so far
  available,    \* whether the host has durable state at all
  outcome       \* the answer to the last command

vars == <<cell, issued, available, outcome>>

-----------------------------------------------------------------------------
\* An answer: the command, its key and expected version (empty sets for none),
\* the refusal code or "OK", the values, versions, keys and entries it
\* returned, and whether a conditional write was applied.
Answer(cmd, key, expected, code, values, versions, keys, entries, applied) ==
  [cmd |-> cmd, key |-> key, expected |-> expected, code |-> code, values |-> values,
   versions |-> versions, keys |-> keys, entries |-> entries, applied |-> applied]

Plain(cmd, key, code) == Answer(cmd, key, {}, code, {}, {}, {}, {}, FALSE)

Values(k) == {e.value : e \in cell[k]}
Versions(k) == {e.version : e \in cell[k]}

Init ==
  /\ cell = [k \in Key |-> {}]
  /\ issued = {}
  /\ available = TRUE
  /\ outcome = Plain("none", {}, "OK")

Switch == available' = ~available /\ UNCHANGED <<cell, issued, outcome>>

Refuse(cmd, key, code) ==
  /\ code = "NOT_CONFIGURED" => ~available
  /\ outcome' = Plain(cmd, key, code)
  /\ UNCHANGED <<cell, issued, available>>

\* The key gets a new entry under a version nobody has seen.
Put(k, v, ver) ==
  /\ ver \notin issued
  /\ issued' = issued \cup {ver}
  /\ cell' = [cell EXCEPT ![k] = {[value |-> v, version |-> ver]}]
  /\ UNCHANGED available

Clear(k) ==
  /\ available
  /\ cell' = [cell EXCEPT ![k] = {}]
  /\ UNCHANGED <<issued, available>>

\* A read answers with the entry, or with NOT_FOUND when there is none; only a
\* versioned read shows the version.
Read(cmd, k, versions) ==
  /\ available
  /\ outcome' = Answer(cmd, {k}, {}, IF cell[k] = {} THEN "NOT_FOUND" ELSE "OK",
                       Values(k), versions, {}, {}, FALSE)
  /\ UNCHANGED <<cell, issued, available>>

Set(k, v) ==
  \E ver \in Version :
    available /\ Put(k, v, ver) /\ outcome' = Plain("state_set", {k}, "OK")

\* The test fills a cell behind the plugin's back.
Seed(k, v) == (\E ver \in Version : Put(k, v, ver)) /\ UNCHANGED outcome

\* The cell is not what the caller expects: absent ({}) or this version.
Conflict(cmd, k, versions) ==
  /\ available
  /\ Versions(k) # versions
  /\ outcome' = Answer(cmd, {k}, versions, "OK", {}, {}, {}, {}, FALSE)
  /\ UNCHANGED <<cell, issued, available>>

CompareAndSet(k, v, versions) ==
  \/ /\ available
     /\ Versions(k) = versions
     /\ \E ver \in Version :
          /\ Put(k, v, ver)
          /\ outcome' = Answer("state_compare_and_set", {k}, versions, "OK", {v}, {ver}, {}, {}, TRUE)
  \/ Conflict("state_compare_and_set", k, versions)

CompareAndDelete(k, ver) ==
  \/ /\ Versions(k) = {ver}
     /\ Clear(k)
     /\ outcome' = Answer("state_compare_and_delete", {k}, {ver}, "OK", {}, {}, {}, {}, TRUE)
  \/ Conflict("state_compare_and_delete", k, {ver})

Delete(k) == Clear(k) /\ outcome' = Plain("state_delete", {k}, "OK")

\* A listing answers with all keys that hold an entry now, a scan with the
\* entries that some of them hold now.
Listable == {k \in Key : cell[k] # {}}
List ==
  /\ available
  /\ outcome' = Answer("state_keys", {}, {}, "OK", {}, {}, Listable, {}, FALSE)
  /\ UNCHANGED <<cell, issued, available>>

EntriesOf(keys) ==
  UNION {{[key |-> k, value |-> e.value, version |-> e.version] : e \in cell[k]} : k \in keys}
Scan(keys) ==
  /\ available
  /\ outcome' = Answer("state_scan", {}, {}, "OK", {}, {}, {}, EntriesOf(keys), FALSE)
  /\ UNCHANGED <<cell, issued, available>>

Next ==
  \/ Switch
  \/ \E cmd \in {"state_get", "state_get_versioned", "state_set",
                 "state_compare_and_set", "state_compare_and_delete",
                 "state_delete", "state_scan", "state_keys"},
       code \in {"INVALID_ARGUMENT", "NOT_CONFIGURED"},
       key \in {{}} \cup {{k} : k \in Key} : Refuse(cmd, key, code)
  \/ List
  \/ \E keys \in SUBSET Listable : Scan(keys)
  \/ \E k \in Key :
       \/ Read("state_get", k, {})
       \/ Read("state_get_versioned", k, Versions(k))
       \/ Delete(k)
       \/ \E v \in Value :
            \/ Set(k, v)
            \/ Seed(k, v)
            \/ CompareAndSet(k, v, {})
            \/ \E ver \in Version : CompareAndSet(k, v, {ver})
       \/ \E ver \in Version : CompareAndDelete(k, ver)

Spec == Init /\ [][Next]_vars
=============================================================================
