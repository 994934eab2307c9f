---------------------------- MODULE RequestScope ----------------------------
(***************************************************************************)
(* How the native test host keeps invocations apart: WithTestHost          *)
(* (testsupport.go) installs a harness in the global testHostPtr under     *)
(* dispatchMu, and Request.with (sdktest/dispatch.go) swaps the metadata   *)
(* map and the active request of that harness.  Test goroutines            *)
(* (t.Parallel) dispatch concurrently, and a hook may run goroutines of    *)
(* its own that make host calls.                                           *)
(*                                                                         *)
(* A scope is a Request, or a Harness for Harness.Run.  Each scope owns    *)
(* one metadata map and the maps are swapped by reference, so a map is     *)
(* named by the scope that created it.  What a map or a call list holds is *)
(* reduced to the other scopes whose calls wrote to it.  A hook that       *)
(* returns, fails, panics or calls t.Fatal runs the same deferred          *)
(* functions.                                                              *)
(***************************************************************************)
EXTENDS Integers, FiniteSets

CONSTANTS
  Thread,      \* test goroutines
  Worker,      \* goroutines started inside a hook or Run function
  Harness, Request,
  HarnessOf,   \* the harness of each scope
  None,        \* a nil pointer
  Loose        \* scopes whose function may return before its goroutines end

Scope == Harness \cup Request

ASSUME ScopeAssumption ==
  /\ HarnessOf \in [Scope -> Harness] /\ \A h \in Harness : HarnessOf[h] = h
  /\ None \notin Scope \cup Thread /\ Harness \cap Request = {} /\ Thread \cap Worker = {}
  /\ Loose \subseteq Scope

VARIABLES
  dispatchMu,    \* who holds dispatchMu
  testHostPtr,   \* the installed harness
  hMeta,         \* hMeta[h]: the map h.meta refers to
  active,        \* active[h]: h.active
  rMeta,         \* rMeta[r]: the map r.meta refers to
  at,            \* at[t]: where thread t is in WithTestHost and with
  job,           \* job[t]: the scope it dispatches in
  saved,         \* saved[t]: prev, previous and previousActive
  call,          \* call[c]: the host call of goroutine c under way
  starter,       \* starter[w]: the thread and scope that started worker w
  leaked,        \* history: scopes whose function returned before a goroutine of it
  contents,      \* contents[m]: other scopes that wrote to map m
  recorded       \* recorded[r]: other scopes whose calls are in r.calls

host == <<dispatchMu, testHostPtr, hMeta, active, rMeta>>
threads == <<at, job, saved>>
workers == <<starter, leaked>>
written == <<contents, recorded>>
vars == <<host, threads, workers, call, written>>

Caller == Thread \cup Worker
NoCall == [stage |-> "none", host |-> None]
NoStart == [thread |-> None, scope |-> None]

Init ==
  /\ dispatchMu = None
  /\ testHostPtr = None
  /\ hMeta = [h \in Harness |-> h]
  /\ active = [h \in Harness |-> None]
  /\ rMeta = [r \in Request |-> r]
  /\ at = [t \in Thread |-> "idle"]
  /\ job = [t \in Thread |-> None]
  /\ saved = [t \in Thread |-> [ptr |-> None, meta |-> None, active |-> None]]
  /\ call = [c \in Caller |-> NoCall]
  /\ starter = [w \in Worker |-> NoStart]
  /\ leaked = {}
  /\ contents = [m \in Scope |-> {}]
  /\ recorded = [r \in Request |-> {}]

-----------------------------------------------------------------------------
(* WithTestHost and with, in the order a dispatch runs them *)

Go(t, from, to) == at[t] = from /\ at' = [at EXCEPT ![t] = to]

Begin(t, s) ==
  /\ Go(t, "idle", "waiting")
  /\ job' = [job EXCEPT ![t] = s]
  /\ UNCHANGED <<host, saved, workers, call, written>>

\* Slip: dispatchMu is not waited for.
LockWithoutWaiting(t) ==
  /\ Go(t, "waiting", "locked")
  /\ dispatchMu' = t
  /\ UNCHANGED <<testHostPtr, hMeta, active, rMeta, job, saved, workers, call, written>>

Lock(t) ==
  /\ Go(t, "waiting", "locked")
  /\ dispatchMu = None /\ dispatchMu' = t
  /\ UNCHANGED <<testHostPtr, hMeta, active, rMeta, job, saved, workers, call, written>>

Install(t) ==
  /\ Go(t, "locked", IF job[t] \in Request THEN "installed" ELSE "running")
  /\ saved' = [saved EXCEPT ![t].ptr = testHostPtr]
  /\ testHostPtr' = HarnessOf[job[t]]
  /\ UNCHANGED <<dispatchMu, hMeta, active, rMeta, job, workers, call, written>>

\* Slip: the request's map is not installed.
OpenScopeSharingMeta(t) ==
  LET h == HarnessOf[job[t]]
  IN /\ Go(t, "installed", "running")
     /\ saved' = [saved EXCEPT ![t].meta = hMeta[h], ![t].active = active[h]]
     /\ active' = [active EXCEPT ![h] = job[t]]
     /\ UNCHANGED <<dispatchMu, testHostPtr, hMeta, rMeta, job, workers, call, written>>

\* The first locked section of Request.with.
OpenScope(t) ==
  LET r == job[t]
      h == HarnessOf[r]
  IN /\ Go(t, "installed", "running")
     /\ saved' = [saved EXCEPT ![t].meta = hMeta[h], ![t].active = active[h]]
     /\ hMeta' = [hMeta EXCEPT ![h] = rMeta[r]]
     /\ active' = [active EXCEPT ![h] = r]
     /\ UNCHANGED <<dispatchMu, testHostPtr, rMeta, job, workers, call, written>>

\* The function returns or unwinds: never in the middle of its own host call,
\* but perhaps before the goroutines it started.
Returns(t) ==
  LET left == {w \in Worker : starter[w].thread = t}
  IN /\ call[t].stage = "none"
     /\ left # {} => job[t] \in Loose
     /\ leaked' = IF left = {} THEN leaked ELSE leaked \cup {job[t]}
     /\ starter' = [w \in Worker |-> IF w \in left THEN [starter[w] EXCEPT !.thread = None] ELSE starter[w]]

\* Slip: the section waits for a goroutine that the hook need not start.
CloseScopeAwaitingWorker(t) ==
  LET r == job[t]
      h == HarnessOf[r]
  IN /\ job[t] \in Request
     /\ Returns(t) /\ \E w \in Worker : starter[w].scope = r
     /\ Go(t, "running", "restored")
     /\ rMeta' = [rMeta EXCEPT ![r] = hMeta[h]]
     /\ hMeta' = [hMeta EXCEPT ![h] = saved[t].meta]
     /\ active' = [active EXCEPT ![h] = saved[t].active]
     /\ UNCHANGED <<dispatchMu, testHostPtr, job, saved, call, written>>

\* The deferred section of Request.with; in Harness.Run there is none.
CloseScope(t) ==
  LET r == job[t]
      h == HarnessOf[r]
  IN /\ job[t] \in Request
     /\ Returns(t)
     /\ Go(t, "running", "restored")
     /\ rMeta' = [rMeta EXCEPT ![r] = hMeta[h]]
     /\ hMeta' = [hMeta EXCEPT ![h] = saved[t].meta]
     /\ active' = [active EXCEPT ![h] = saved[t].active]
     /\ UNCHANGED <<dispatchMu, testHostPtr, job, saved, call, written>>

CloseRun(t) ==
  /\ job[t] \in Harness
  /\ Returns(t)
  /\ Go(t, "running", "restored")
  /\ UNCHANGED <<host, job, saved, call, written>>

\* Slip: the pointer stays.
UninstallNothing(t) ==
  /\ Go(t, "restored", "uninstalled")
  /\ UNCHANGED <<host, job, saved, workers, call, written>>

Uninstall(t) ==
  /\ Go(t, "restored", "uninstalled")
  /\ testHostPtr' = saved[t].ptr
  /\ UNCHANGED <<dispatchMu, hMeta, active, rMeta, job, saved, workers, call, written>>

Unlock(t) ==
  /\ Go(t, "uninstalled", "idle")
  /\ dispatchMu' = None
  /\ job' = [job EXCEPT ![t] = None]
  /\ UNCHANGED <<testHostPtr, hMeta, active, rMeta, saved, workers, call, written>>

-----------------------------------------------------------------------------
(* Goroutines of a hook, and host calls *)

Spawn(t, w) ==
  /\ at[t] = "running" /\ call[t].stage = "none"
  /\ starter[w] = NoStart
  /\ starter' = [starter EXCEPT ![w] = [thread |-> t, scope |-> job[t]]]
  /\ UNCHANGED <<host, threads, leaked, call, written>>

End(w) ==
  /\ starter[w] # NoStart /\ call[w].stage = "none"
  /\ starter' = [starter EXCEPT ![w] = NoStart]
  /\ UNCHANGED <<host, threads, leaked, call, written>>

Runs(c) == IF c \in Thread THEN at[c] = "running" ELSE starter[c] # NoStart
ScopeOf(c) == IF c \in Thread THEN job[c] ELSE starter[c].scope

\* hostCallRawImpl: whatever is installed now; no host, no call.
Load(c) ==
  /\ Runs(c) /\ call[c].stage = "none"
  /\ testHostPtr # None
  /\ call' = [call EXCEPT ![c] = [stage |-> "loaded", host |-> testHostPtr]]
  /\ UNCHANGED <<host, threads, workers, written>>

RecordIn(c, h) ==
  /\ recorded' = IF active[h] = None THEN recorded
                 ELSE [recorded EXCEPT ![active[h]] = @ \cup ({ScopeOf(c)} \ {active[h]})]
  /\ call' = [call EXCEPT ![c] = NoCall]

\* First locked section of hostCallBytes: a denied call is recorded there.
Denied(c) ==
  /\ call[c].stage = "loaded"
  /\ RecordIn(c, call[c].host)
  /\ UNCHANGED <<host, threads, workers, contents>>

\* builtinTyped: a call that writes metadata, or one that does not.
Effect(c) ==
  LET m == hMeta[call[c].host]
  IN /\ call[c].stage = "loaded"
     /\ call' = [call EXCEPT ![c].stage = "done"]
     /\ \/ contents' = [contents EXCEPT ![m] = @ \cup ({ScopeOf(c)} \ {m})]
        \/ UNCHANGED contents
     /\ UNCHANGED <<host, threads, workers, recorded>>

\* The last locked section records the answer.
Record(c) ==
  /\ call[c].stage = "done"
  /\ RecordIn(c, call[c].host)
  /\ UNCHANGED <<host, threads, workers, contents>>

Calls(c) == Load(c) \/ Denied(c) \/ Effect(c) \/ Record(c)

Proceed(t) ==
  \/ Lock(t) \/ Install(t) \/ OpenScope(t)
  \/ CloseScope(t) \/ CloseRun(t) \/ Uninstall(t) \/ Unlock(t)

Next ==
  \/ \E t \in Thread : Proceed(t) \/ \E s \in Scope : Begin(t, s)
  \/ \E t \in Thread, w \in Worker : Spawn(t, w)
  \/ \E w \in Worker : End(w)
  \/ \E c \in Caller : Calls(c)

Spec == Init /\ [][Next]_vars

\* Hook functions and their goroutines come to an end, and sync.Mutex hands the
\* lock to a goroutine that waits for long (starvation mode): a thread that can
\* go on again and again goes on.
Fairness ==
  /\ \A t \in Thread : SF_vars(Proceed(t))
  /\ \A w \in Worker : SF_vars(End(w))
  /\ \A c \in Caller : WF_vars(Denied(c) \/ Effect(c) \/ Record(c))

FairSpec == Spec /\ Fairness

-----------------------------------------------------------------------------
(* Properties *)

\* Whatever runs in parallel, metadata written in one request is found in no
\* other request, on the same harness or another, and Harness.Run keeps its own
\* ("separate Requests do not" share metadata, Request in sdktest/dispatch.go).
\* The one thing that carries it across is a goroutine that outlives the
\* function that started it.
MetaStaysInScope ==
  /\ \A m \in Scope : contents[m] \subseteq leaked
  /\ \A r \in Request : rMeta[r] = r

\* A request's list of observed calls names only calls made in that request
\* (Request.Calls), although a call is recorded two critical sections after its
\* goroutine looked the host up; a goroutine that outlives its function is
\* again the exception.
CallsStayInScope == \A r \in Request : recorded[r] \subseteq leaked

\* When no dispatch is under way nothing of one is left behind: no host is
\* installed and every harness has its own metadata map and no active request
\* again, after errors and panics too (TestRequestRunPanicRestoresHarnessScope).
NothingLeftBehind ==
  dispatchMu = None =>
    /\ testHostPtr = None
    /\ \A h \in Harness : hMeta[h] = h /\ active[h] = None

\* Every dispatch gets its turn and ends: no goroutine waits for dispatchMu for
\* ever, as long as nobody dispatches from inside a dispatch.
DispatchEnds == \A t \in Thread : at[t] = "waiting" ~> at[t] = "idle"
=============================================================================
