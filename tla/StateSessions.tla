-------------------------- MODULE StateSessions --------------------------
(***************************************************************************)
(* Plugin invocations that share one durable namespace and interleave at   *)
(* every host call.  A session remembers what its own calls told it of a   *)
(* key: the value and version of a versioned read or of its own applied    *)
(* write.  Its conditional writes use the versions it remembers, as the    *)
(* guide asks ("do not invent versions").  Sessions outlive hook           *)
(* invocations, so any other session's call, SeedState or a change of      *)
(* StateConfigured can come in between.                                    *)
(***************************************************************************)
EXTENDS StateStore

CONSTANTS Session

VARIABLES
  held      \* held[s][k]: the entry s last learnt for k; version 0 for absent

sessionVars == <<state, stateVersion, stateSeq, StateConfigured, reply, held>>

Unread == [known |-> FALSE, value |-> NoValue, version |-> NoVersion]
Learnt(v, ver) == [known |-> TRUE, value |-> v, version |-> ver]

Held == [known : BOOLEAN, value : Value \cup {NoValue}, version : Version \cup {NoVersion}]

SessionInit == Init /\ held = [s \in Session |-> [k \in Key |-> Unread]]

-----------------------------------------------------------------------------
\* StateGetVersioned: found or not, the session now knows the cell; a refusal
\* teaches it nothing.
Read(s, k) ==
  /\ StateGetVersioned(k)
  /\ held' = IF reply'.code \in {"OK", "NOT_FOUND"}
             THEN [held EXCEPT ![s][k] = Learnt(reply'.value, reply'.version)]
             ELSE held

\* The version a session passes: nil when it saw the key absent.
ExpectedBy(s, k) == IF held[s][k].version = NoVersion THEN NilVersion ELSE held[s][k].version

\* StateCompareAndSet with the remembered version; an applied result carries
\* the new version, a conflict means reread.
Update(s, k, v) ==
  /\ held[s][k].known
  /\ StateCompareAndSet(k, v, ExpectedBy(s, k))
  /\ held' = [held EXCEPT ![s][k] = CASE reply'.code # "OK" -> @
                                      [] reply'.code = "OK" /\ reply'.applied -> Learnt(v, reply'.version)
                                      [] OTHER -> Unread]

\* StateCompareAndDelete with the remembered version.
Remove(s, k) ==
  /\ held[s][k].known /\ held[s][k].version # NoVersion
  /\ StateCompareAndDelete(k, held[s][k].version)
  /\ held' = [held EXCEPT ![s][k] = CASE reply'.code # "OK" -> @
                                      [] reply'.code = "OK" /\ reply'.applied -> Learnt(NoValue, NoVersion)
                                      [] OTHER -> Unread]

\* The unconditional commands of any session or of the test, and a change of
\* configuration: nobody learns anything from them.
Blind ==
  /\ \/ ConfigureState
     \/ \E k \in Key : StateDelete(k) \/ \E v \in Value : StateSet(k, v) \/ SeedState(k, v)
  /\ UNCHANGED held

SessionNext ==
  \/ Blind
  \/ \E s \in Session, k \in Key : Read(s, k) \/ Remove(s, k) \/ \E v \in Value : Update(s, k, v)

SessionSpec == SessionInit /\ [][SessionNext]_sessionVars

-----------------------------------------------------------------------------
(* Properties *)

\* No ABA: as long as the host still has the version a session remembers for
\* a stored key, the stored value is the one that session saw, whatever
\* deletes, rewrites and recreations other sessions made in between
\* (torana.proto: versions are "never reused after delete/recreate").
SameVersionSameValue ==
  \A s \in Session, k \in Key :
    held[s][k].version # NoVersion /\ stateVersion[k] = held[s][k].version /\ Present(k)
      => state[k] = held[s][k].value

\* An applied conditional write of a session never overwrites a value that
\* session has not seen: the lost update that StateCompareAndSet exists to
\* prevent (state.go: it "updates only the version read by StateGetVersioned").
NoLostUpdate ==
  [][\A s \in Session, k \in Key, v \in Value :
       Update(s, k, v) /\ reply'.applied /\ Present(k) => state[k] = held[s][k].value]_sessionVars

\* The answer to the last command is an output: no step reads it.
View == <<store, held>>
=============================================================================
