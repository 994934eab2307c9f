-------------------------- MODULE VerdictRegister --------------------------
(***************************************************************************)
(* What becomes of the verdicts a plugin issues on one request (verdicts.go *)
(* and the Effective* getters of sdktest/dispatch.go), with no word of call *)
(* lists: a verdict is pending until its hook invocation ends, and then one *)
(* register per command says which verdict the client sees.                *)
(***************************************************************************)
EXTENDS Naturals

CONSTANTS
  Request,   \* the simulated requests
  Id         \* numbers of calls, in the order they are made

Verdict == {"env.block_request", "env.respond_request", "env.route_request", "env.set_identity"}

VARIABLES
  pending,   \* pending[r]: the verdicts accepted and not yet settled
  winner     \* winner[r][c]: the settled verdict of command c, as a set of ids

vars == <<pending, winner>>

Init ==
  /\ pending = [r \in Request |-> {}]
  /\ winner = [r \in Request |-> [c \in Verdict |-> {}]]

Accept(r) ==
  /\ \E c \in Verdict, id \in Id :
       /\ \A p \in pending[r] : p.id < id
       /\ pending' = [pending EXCEPT ![r] = @ \cup {[cmd |-> c, id |-> id]}]
  /\ UNCHANGED winner

Issued(r, c) == {p.id : p \in {p \in pending[r] : p.cmd = c}}

\* The first verdict of a command stays; a later one takes its place.
First(r, c) ==
  IF winner[r][c] = {} THEN {i \in Issued(r, c) : \A j \in Issued(r, c) : i <= j} ELSE winner[r][c]
Latest(r, c) ==
  IF Issued(r, c) = {} THEN winner[r][c] ELSE {i \in Issued(r, c) : \A j \in Issued(r, c) : j <= i}

\* A hook invocation ends.  A block stands whatever else happens and is served
\* instead of a response; a failed invocation takes every other verdict of the
\* request back.
Settle(r, failed) ==
  LET block == First(r, "env.block_request")
      keep(ids) == IF failed THEN {} ELSE ids
  IN /\ winner' = [winner EXCEPT ![r] =
          [c \in Verdict |->
             CASE c = "env.block_request" -> block
               [] c = "env.respond_request" -> IF block # {} THEN {} ELSE keep(First(r, c))
               [] OTHER -> keep(Latest(r, c))]]
     /\ pending' = [pending EXCEPT ![r] = {}]

Next == \E r \in Request : Accept(r) \/ \E failed \in BOOLEAN : Settle(r, failed)

Spec == Init /\ [][Next]_vars
=============================================================================
