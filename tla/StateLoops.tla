---------------------------- MODULE StateLoops ----------------------------
(***************************************************************************)
(* The two loops of state.go run against one store: workers count          *)
(* themselves with the reread-and-retry loop while scanners page through   *)
(* the keys, the counter among them, and other invocations write and       *)
(* delete the remaining keys and the test takes the store away and back.   *)
(***************************************************************************)
EXTENDS StateRetry, StateScans

loopVars == <<retryVars, scan, lasting>>

LoopInit == RetryInit /\ ScanInit

\* The others keep away from the counter, which the workers own.
KeepsCounter == state'[Counter] = state[Counter] /\ stateVersion'[Counter] = stateVersion[Counter]

\* Bound: what the others write is told apart from nothing only.
WritesOne == \A k \in Key \ {Counter} : state'[k] \in {NoValue, 1}

\* Bound: the others leave enough of the MaxSeq versions for the workers.
LeavesVersions == stateSeq' + Cardinality(Worker \ Done) <= MaxSeq

Others ==
  /\ Meanwhile
  /\ KeepsCounter
  /\ WritesOne
  /\ LeavesVersions
  /\ UNCHANGED <<at, seen>>

Scanning(s) ==
  /\ \/ \E prefix \in Prefix : BeginScan(s, prefix)
     \/ \E limit \in Limit : NextPage(s, limit)
  /\ UNCHANGED <<at, seen>>

Counting(w) == Work(w) /\ UNCHANGED <<scan, lasting>>

LoopNext ==
  \/ Others
  \/ \E s \in Scanner : Scanning(s)
  \/ \E w \in Worker : Counting(w)

\* A plugin inside one of the loops goes on calling; the others owe nothing.
LoopSpec ==
  /\ LoopInit /\ [][LoopNext]_loopVars
  /\ \A w \in Worker : WF_loopVars(Counting(w) /\ reply'.code # "NOT_CONFIGURED")
  /\ \A s \in Scanner :
       WF_loopVars(\E limit \in Limit : NextPage(s, limit) /\ reply'.code = "OK" /\ UNCHANGED <<at, seen>>)

-----------------------------------------------------------------------------
(* Properties *)

\* Every worker gets its increment in although the others write, delete and
\* scan in between and the store may be away for a while: a conflict of one
\* worker is the success of another.
EveryoneIsCounted == <>[]StateConfigured => \A w \in Worker : <>(at[w] = "done")
=============================================================================
