---------------------------- MODULE StateScans ----------------------------
(***************************************************************************)
(* Plugins that page through their keys with StateScan (state.go) while    *)
(* other invocations write and delete: the cursor a page returned is       *)
(* passed to the next one, and a scan is "not a snapshot across pages"     *)
(* (torana.proto, StateScanResult).                                        *)
(***************************************************************************)
EXTENDS StateStore

CONSTANTS Scanner

VARIABLES
  scan,     \* scan[s]: the pages scanner s has collected
  lasting   \* history: the keys of its prefix present ever since it began

scanVars == <<state, stateVersion, stateSeq, StateConfigured, reply, scan, lasting>>

NoScan == [open |-> FALSE, prefix |-> {}, cursor |-> EmptyKey, listed |-> {}]

ScanInit ==
  /\ Init
  /\ scan = [s \in Scanner |-> NoScan]
  /\ lasting = [s \in Scanner |-> {}]

Began(s) == scan[s] # NoScan

-----------------------------------------------------------------------------
BeginScan(s, prefix) ==
  /\ ~scan[s].open
  /\ scan' = [scan EXCEPT ![s] = [NoScan EXCEPT !.open = TRUE, !.prefix = prefix]]
  /\ lasting' = [lasting EXCEPT ![s] = {k \in prefix : Present(k)}]
  /\ UNCHANGED <<store, reply>>

\* One page; an empty next cursor ends the scan, a refusal leaves it where it is.
NextPage(s, limit) ==
  /\ scan[s].open
  /\ StateScan(scan[s].prefix, scan[s].cursor, limit)
  /\ scan' = IF reply'.code # "OK" THEN scan
             ELSE [scan EXCEPT ![s].listed = @ \cup {e.key : e \in reply'.page},
                               ![s].cursor = reply'.next,
                               ![s].open = reply'.next # EmptyKey]
  /\ UNCHANGED lasting

\* What other invocations do in between; to a scan every write is like
\* state_set and every deletion like state_delete.
Meanwhile ==
  /\ \/ ConfigureState
     \/ \E k \in Key : StateDelete(k) \/ \E v \in Value : StateSet(k, v)
  /\ lasting' = [s \in Scanner |-> {k \in lasting[s] : Present(k)'}]
  /\ UNCHANGED scan

-----------------------------------------------------------------------------
(* Properties *)

\* A finished scan lists every key of its prefix that was there the whole
\* time, however many writes and deletes landed between its pages: the cursor
\* of env.state_scan is the last key listed, not a position in the page.
ScanMissesNothingLasting ==
  \A s \in Scanner : Began(s) /\ ~scan[s].open => lasting[s] \subseteq scan[s].listed

\* A scan comes to its end although other invocations keep adding and removing
\* keys behind and ahead of its cursor, if the store is not taken away for good.
ScanEnds == <>[]StateConfigured => \A s \in Scanner : scan[s].open ~> ~scan[s].open
=============================================================================
