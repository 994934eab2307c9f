---------------------------- MODULE CacheService ----------------------------
(***************************************************************************)
(* What plugins may rely on of the private and the shared cache (meta.go): *)
(* a read finds what the last write said exactly while the clock reads     *)
(* before its deadline, whether or not anybody looked since, an entry      *)
(* without a lifetime stays, and absence is not emptiness.  An entry past  *)
(* its deadline may be forgotten by the read that does not find it; only   *)
(* then does a clock that is set back not bring it back.  A test may seed  *)
(* entries; a seed has the deadline of the entry it overwrites.            *)
(***************************************************************************)
EXTENDS Naturals

CONSTANTS
  Store, Key,
  Absent,   \* no entry, and the answer that there is none
  Never,    \* the deadline of an entry without a lifetime
  Caller

VARIABLES
  now,      \* milliseconds
  entry,    \* entry[s][k]: Absent, or a value and its deadline
  asked,    \* asked[c]: c's last call, as [op, store, key, value, ttl]
  answer    \* answer[c]: "pending", "done", "refused", Absent or a value found

cacheVars == <<now, entry, asked, answer>>

CacheInit ==
  /\ entry = [s \in Store |-> [k \in Key |-> Absent]]
  /\ answer = [c \in Caller |-> [kind |-> "done"]]

Lives(e) == e # Absent /\ (e.due = Never \/ now < e.due)

\* The clock is set, forward or back.
SetClock == UNCHANGED <<entry, asked, answer>>

\* A call is turned away at once or waits for its answer.
Ask(c) ==
  /\ answer[c].kind # "pending"
  /\ \E kind \in {"pending", "elsewhere"} : answer' = [answer EXCEPT ![c] = [kind |-> kind]]
  /\ \A d \in Caller \ {c} : asked'[d] = asked[d]
  /\ UNCHANGED <<now, entry>>

Answer(c, op, reply) ==
  /\ answer[c].kind = "pending" /\ asked[c].op = op
  /\ answer' = [answer EXCEPT ![c] = reply]
  /\ UNCHANGED <<now, asked>>

Put(s, k, e) == entry' = [entry EXCEPT ![s][k] = e]

Set(c) ==
  LET due == IF asked[c].ttl = Never THEN Never ELSE now + asked[c].ttl
  IN /\ Answer(c, "set", [kind |-> "done"])
     /\ Put(asked[c].store, asked[c].key, [value |-> asked[c].value, due |-> due])

Delete(c) ==
  /\ Answer(c, "delete", [kind |-> "done"])
  /\ Put(asked[c].store, asked[c].key, Absent)

Get(c) ==
  LET e == entry[asked[c].store][asked[c].key]
  IN /\ Answer(c, "get", IF Lives(e) THEN [kind |-> "found", value |-> e.value] ELSE [kind |-> "absent"])
     /\ UNCHANGED entry \/ (~Lives(e) /\ Put(asked[c].store, asked[c].key, Absent))

\* Not granted, malformed, answered by a stub, or a call to another service.
Elsewhere(c) ==
  /\ Answer(c, asked[c].op, [kind |-> "elsewhere"])
  /\ UNCHANGED entry

Seed(s, k) ==
  /\ entry'[s][k] # Absent
  /\ entry'[s][k].due = IF entry[s][k] = Absent THEN Never ELSE entry[s][k].due
  /\ Put(s, k, entry'[s][k])
  /\ UNCHANGED <<now, asked, answer>>

CacheNext ==
  \/ SetClock
  \/ \E c \in Caller : Ask(c) \/ Set(c) \/ Delete(c) \/ Get(c) \/ Elsewhere(c)
  \/ \E s \in Store, k \in Key : Seed(s, k)

CacheSpec == CacheInit /\ [][CacheNext]_cacheVars
=============================================================================
