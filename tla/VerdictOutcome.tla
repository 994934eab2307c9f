--------------------------- MODULE VerdictOutcome ---------------------------
(***************************************************************************)
(* The bookkeeping of host calls in the native test host                   *)
(* (sdktest/sdktest.go, hostCallBytes; sdktest/dispatch.go, finalize).     *)
(* Every call is copied into up to four lists: the harness's calls and     *)
(* accepted, and those of the request whose hook is running.  When a hook  *)
(* invocation ends, finalize decides which accepted verdicts are effective *)
(* and writes the decision through to all copies.  Invocations run one at  *)
(* a time (RequestScope models the locks), and host calls here are made by *)
(* the hook's own goroutine.                                               *)
(***************************************************************************)
EXTENDS Integers, Sequences

CONSTANTS
  Request,     \* the request scopes a test creates
  NoRequest,   \* Harness.Run installs the host without a request
  MaxCalls     \* bound: host calls in one test

ASSUME RequestAssumption == NoRequest \notin Request
ASSUME MaxCallsAssumption == MaxCalls \in Nat

VARIABLES
  calls,       \* h.calls; the index of an entry is its position
  accepted,    \* h.accepted
  rCalls,      \* rCalls[r] is r.calls
  rAccepted,   \* rAccepted[r] is r.accepted
  active,      \* h.active
  hook,        \* its invocationHook; "run" inside Run, "none" outside
  settled      \* history: how much of rAccepted[r] a finalize has seen

lists == <<calls, accepted, rCalls, rAccepted>>
vars == <<calls, accepted, rCalls, rAccepted, active, hook, settled>>

-----------------------------------------------------------------------------
Block == "env.block_request"
Respond == "env.respond_request"
Route == "env.route_request"
Identity == "env.set_identity"
Verdict == {Block, Respond, Route, Identity}
Command == Verdict \cup {"env.meta_get"}
Hook == {"run_before_request", "run_after_response"}

Init ==
  /\ calls = <<>>
  /\ accepted = <<>>
  /\ rCalls = [r \in Request |-> <<>>]
  /\ rAccepted = [r \in Request |-> <<>>]
  /\ active = NoRequest
  /\ hook = "none"
  /\ settled = [r \in Request |-> 0]

-----------------------------------------------------------------------------
\* Request.Run, Harness.Run, and the dispatch methods.
Enter(r, mode) ==
  /\ hook = "none"
  /\ mode \in Hook => r # NoRequest
  /\ active' = r
  /\ hook' = mode
  /\ UNCHANGED <<lists, settled>>

\* The catalog offers the verdicts to run_before_request only; outside a hook
\* invocation nothing is asked.
Available(cmd) == hook \in Hook /\ cmd \in Verdict => hook = "run_before_request"

\* The entry goes to the end of each list it belongs to.
Record(entry) ==
  LET kept == IF entry.effective THEN <<entry>> ELSE <<>>
  IN /\ calls' = Append(calls, entry)
     /\ accepted' = accepted \o kept
     /\ IF active = NoRequest
        THEN UNCHANGED <<rCalls, rAccepted>>
        ELSE /\ rCalls' = [rCalls EXCEPT ![active] = Append(@, entry)]
             /\ rAccepted' = [rAccepted EXCEPT ![active] = @ \o kept]

\* A call is refused by the hook table or the permissions, fails in transport,
\* is answered with an error, or is accepted: only a value is effective.
HostCall(cmd, effective) ==
  /\ hook # "none"
  /\ Len(calls) < MaxCalls
  /\ effective => Available(cmd)
  /\ Record([cmd |-> cmd, index |-> Len(calls) + 1, effective |-> effective])
  /\ UNCHANGED <<active, hook, settled>>

-----------------------------------------------------------------------------
(* finalize *)

Stands(s, cmd, i) == s[i].cmd = cmd /\ s[i].effective

\* Slips: every invocation decides afresh; a failure takes the block back too.
SurvivesAfresh(s, failed, i) ==
  s[i].cmd # Block => ~failed /\ ~ \E j \in i + 1 .. Len(s) : s[j].cmd = s[i].cmd
SurvivesUnlessFailed(s, failed, i) ==
  /\ s[i].effective /\ ~failed
  /\ s[i].cmd \in {Block, Respond} => ~ \E j \in 1 .. i - 1 : Stands(s, s[i].cmd, j)
  /\ s[i].cmd = Respond => ~ \E j \in 1 .. Len(s) : Stands(s, Block, j)
  /\ s[i].cmd \in {Route, Identity} => ~ \E j \in i + 1 .. Len(s) : Stands(s, s[i].cmd, j)

\* Whether accepted entry i of s is still effective afterwards: the first block
\* and the first response, the last route and the last identity, no response
\* beside a block, and only the block when the hook failed.
Survives(s, failed, i) ==
  /\ s[i].effective
  /\ s[i].cmd = Block => ~ \E j \in 1 .. i - 1 : Stands(s, Block, j)
  /\ s[i].cmd = Respond =>
       /\ ~failed
       /\ ~ \E j \in 1 .. i - 1 : Stands(s, Respond, j)
       /\ ~ \E j \in 1 .. Len(s) : Stands(s, Block, j)
  /\ s[i].cmd \in {Route, Identity} =>
       ~failed /\ ~ \E j \in i + 1 .. Len(s) : Stands(s, s[i].cmd, j)

Decided(s, failed) == [i \in 1 .. Len(s) |-> [s[i] EXCEPT !.effective = Survives(s, failed, i)]]

\* Copies of the decided entries are found by their index.
WriteThrough(s, decided) ==
  [i \in 1 .. Len(s) |->
     IF \E j \in 1 .. Len(decided) : decided[j].index = s[i].index
     THEN [s[i] EXCEPT !.effective =
             (CHOOSE d \in {decided[j] : j \in 1 .. Len(decided)} : d.index = s[i].index).effective]
     ELSE s[i]]

\* Slip: the harness's own list of accepted calls is forgotten.
FinishInRequest(failed) ==
  /\ hook \in Hook
  /\ LET decided == Decided(rAccepted[active], failed)
     IN /\ rAccepted' = [rAccepted EXCEPT ![active] = decided]
        /\ calls' = WriteThrough(calls, decided)
        /\ rCalls' = [rCalls EXCEPT ![active] = WriteThrough(@, decided)]
  /\ settled' = [settled EXCEPT ![active] = Len(rAccepted[active])]
  /\ active' = NoRequest
  /\ hook' = "none"
  /\ UNCHANGED accepted

\* The hook returned, returned an error, or panicked: finalize, then the scope
\* closes.
Finish(failed) ==
  /\ hook \in Hook
  /\ LET decided == Decided(rAccepted[active], failed)
     IN /\ rAccepted' = [rAccepted EXCEPT ![active] = decided]
        /\ calls' = WriteThrough(calls, decided)
        /\ rCalls' = [rCalls EXCEPT ![active] = WriteThrough(@, decided)]
        /\ accepted' = WriteThrough(accepted, decided)
  /\ settled' = [settled EXCEPT ![active] = Len(rAccepted[active])]
  /\ active' = NoRequest
  /\ hook' = "none"

\* Run ends without finalize: what it accepted stays effective until the next
\* hook invocation of the request ends.
LeaveRun ==
  /\ hook = "run"
  /\ active' = NoRequest
  /\ hook' = "none"
  /\ UNCHANGED <<lists, settled>>

Next ==
  \/ \E r \in Request, mode \in Hook \cup {"run"} : Enter(r, mode)
  \/ Enter(NoRequest, "run")
  \/ \E cmd \in Command, effective \in BOOLEAN : HostCall(cmd, effective)
  \/ \E failed \in BOOLEAN : Finish(failed)
  \/ LeaveRun

Spec == Init /\ [][Next]_vars

-----------------------------------------------------------------------------
(* Properties *)

\* However invocations of different requests mix, the copies of a call agree:
\* a test that asks the harness and one that asks the request see the same
\* outcome (finalize writes the decision into four lists by index).
CopiesAgree ==
  /\ \A i \in 1 .. Len(calls) : calls[i].index = i
  /\ \A i \in 1 .. Len(accepted) : accepted[i] = calls[accepted[i].index]
  /\ \A r \in Request :
       /\ \A i \in 1 .. Len(rCalls[r]) : rCalls[r][i] = calls[rCalls[r][i].index]
       /\ \A i \in 1 .. Len(rAccepted[r]) : rAccepted[r][i] = calls[rAccepted[r][i].index]

\* A verdict that lost is never effective again, in no copy, whatever later
\* invocations of the request do ("later success resurrected discarded
\* verdict", outcome_scope_test.go).
NeverRestored ==
  [][/\ \A i \in 1 .. Len(calls) : calls'[i].effective => calls[i].effective
     /\ \A r \in Request : \A i \in 1 .. Len(rAccepted[r]) :
          rAccepted'[r][i].effective => rAccepted[r][i].effective]_vars

\* The registers of VerdictRegister as the Effective* getters read them, and the
\* verdicts no finalize has seen.
Pending ==
  [r \in Request |->
     {[cmd |-> rAccepted[r][i].cmd, id |-> rAccepted[r][i].index] :
        i \in {i \in settled[r] + 1 .. Len(rAccepted[r]) : rAccepted[r][i].cmd \in Verdict}}]
Winner ==
  [r \in Request |-> [c \in Verdict |->
     {rAccepted[r][i].index : i \in {i \in 1 .. settled[r] : Stands(rAccepted[r], c, i)}}]]

Register == INSTANCE VerdictRegister WITH
  Id <- 1 .. MaxCalls, pending <- Pending, winner <- Winner

\* What the getters answer between invocations is what one register per verdict
\* would hold: one pass over the whole list of a request, repeated after every
\* invocation, amounts to first block, first response unless blocked, last
\* route and identity, and a rollback on failure.
KeepsRegisters == Register!Spec
=============================================================================
