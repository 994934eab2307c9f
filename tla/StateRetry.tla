---------------------------- MODULE StateRetry ----------------------------
(***************************************************************************)
(* The loop a plugin writes for concurrent writers: StateGetVersioned,     *)
(* StateCompareAndSet with what was read, and on a conflict "reread before *)
(* retrying" (state.go).  Each worker counts itself once in a counter kept *)
(* under one durable key that nobody else writes or deletes.               *)
(***************************************************************************)
EXTENDS StateStore

CONSTANTS Worker, Counter

ASSUME RetryAssumption ==
  /\ IsFiniteSet(Worker)
  /\ Counter \in Key
  /\ Value = 1 .. Cardinality(Worker)
  /\ NoValue = 0

VARIABLES
  at,     \* at[w]: "read", "swap" or "done"
  seen    \* seen[w]: the value and version w read last

retryVars == <<state, stateVersion, stateSeq, StateConfigured, reply, at, seen>>

RetryInit ==
  /\ Init
  /\ at = [w \in Worker |-> "read"]
  /\ seen = [w \in Worker |-> [value |-> NoValue, version |-> NoVersion]]

Reread(w) ==
  /\ at[w] = "read"
  /\ StateGetVersioned(Counter)
  /\ IF reply'.code \in {"OK", "NOT_FOUND"}
     THEN /\ at' = [at EXCEPT ![w] = "swap"]
          /\ seen' = [seen EXCEPT ![w] = [value |-> reply'.value, version |-> reply'.version]]
     ELSE UNCHANGED <<at, seen>>

\* Slip: a conflict is retried without a reread.
SwapAgain(w) ==
  /\ at[w] = "swap"
  /\ StateCompareAndSet(Counter, seen[w].value + 1,
                        IF seen[w].version = NoVersion THEN NilVersion ELSE seen[w].version)
  /\ at' = IF reply'.applied THEN [at EXCEPT ![w] = "done"] ELSE at
  /\ UNCHANGED seen

Swap(w) ==
  /\ at[w] = "swap"
  /\ StateCompareAndSet(Counter, seen[w].value + 1,
                        IF seen[w].version = NoVersion THEN NilVersion ELSE seen[w].version)
  /\ at' = [at EXCEPT ![w] = CASE reply'.code # "OK" -> "swap"
                               [] reply'.code = "OK" /\ reply'.applied -> "done"
                               [] OTHER -> "read"]
  /\ UNCHANGED seen

Work(w) == Reread(w) \/ Swap(w)

-----------------------------------------------------------------------------
(* Properties *)

Done == {w \in Worker : at[w] = "done"}

\* Each worker is counted exactly once: a conflict never drops an increment
\* and a retry never repeats one that was applied.
CountedOnce == state[Counter] = Cardinality(Done)
=============================================================================
