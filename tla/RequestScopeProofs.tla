------------------------- MODULE RequestScopeProofs -------------------------
(***************************************************************************)
(* No metadata and no call crosses from one scope to another, except by a  *)
(* goroutine that outlived its function, and nothing of a dispatch is left *)
(* behind: for any number of test goroutines, hook goroutines, harnesses   *)
(* and requests.                                                           *)
(*                                                                         *)
(* The invariant says that the lock, the host pointer and the harness      *)
(* always tell of one and the same dispatch, that of the lock's holder,    *)
(* and that whoever makes a call holds the host of that dispatch.          *)
(***************************************************************************)
EXTENDS RequestScope, TLAPS

Where == {"idle", "waiting", "locked", "installed", "running", "restored", "uninstalled"}

Saving == [ptr : Harness \cup {None}, meta : Scope \cup {None}, active : Request \cup {None}]
Calling == [stage : {"none", "loaded", "done"}, host : Harness \cup {None}]

TypeInv ==
  /\ dispatchMu \in Thread \cup {None}
  /\ testHostPtr \in Harness \cup {None}
  /\ hMeta \in [Harness -> Scope]
  /\ active \in [Harness -> Request \cup {None}]
  /\ rMeta \in [Request -> Scope]
  /\ at \in [Thread -> Where]
  /\ job \in [Thread -> Scope \cup {None}]
  /\ saved \in [Thread -> Saving]
  /\ call \in [Caller -> Calling]
  /\ starter \in [Worker -> [thread : Thread \cup {None}, scope : Scope \cup {None}]]
  /\ leaked \in SUBSET Scope
  /\ contents \in [Scope -> SUBSET Scope]
  /\ recorded \in [Request -> SUBSET Scope]

\* No scope is open on any harness.
Closed == \A h \in Harness : hMeta[h] = h /\ active[h] = None

\* Scope s is open on its harness and no other is on any; Harness.Run opens none.
Open(s) ==
  \A h \in Harness :
    /\ hMeta[h] = IF s \in Request /\ h = HarnessOf[s] THEN s ELSE h
    /\ active[h] = IF s \in Request /\ h = HarnessOf[s] THEN s ELSE None

Installed(t) == testHostPtr = HarnessOf[job[t]] /\ saved[t].ptr = None

\* What the holder of the lock finds at each point of its dispatch.
HolderInv(t) ==
  /\ at[t] \in {"locked", "uninstalled"} => testHostPtr = None /\ Closed
  /\ at[t] = "installed" => job[t] \in Request /\ Installed(t) /\ Closed
  /\ at[t] = "running" =>
       /\ Installed(t) /\ Open(job[t])
       /\ job[t] \in Request => saved[t].meta = HarnessOf[job[t]] /\ saved[t].active = None
  /\ at[t] = "restored" => Installed(t) /\ Closed

HostInv ==
  /\ \A t \in Thread : at[t] \notin {"idle", "waiting"} <=> dispatchMu = t
  /\ \A t \in Thread : at[t] # "idle" => job[t] \in Scope
  /\ dispatchMu = None => testHostPtr = None /\ Closed
  /\ \A t \in Thread : HolderInv(t)
  /\ \A r \in Request : rMeta[r] = r

\* A call is under way only in the hook that makes it, or in a goroutine of it.
CallInv ==
  /\ \A c \in Caller : call[c].stage # "none" => call[c].host \in Harness
  /\ \A t \in Thread : call[t].stage # "none" => at[t] = "running" /\ call[t].host = HarnessOf[job[t]]
  /\ \A w \in Worker : starter[w].thread \in Thread =>
       LET t == starter[w].thread
       IN /\ at[t] = "running" /\ starter[w].scope = job[t]
          /\ call[w].stage # "none" => call[w].host = HarnessOf[job[t]]
  /\ \A w \in Worker : starter[w].thread = None /\ starter[w] # NoStart => starter[w].scope \in leaked
  /\ \A w \in Worker : starter[w] = NoStart => call[w].stage = "none"

WrittenInv ==
  /\ \A m \in Scope : contents[m] \subseteq leaked
  /\ \A r \in Request : recorded[r] \subseteq leaked

ScopeInv == TypeInv /\ HostInv /\ CallInv /\ WrittenInv

-----------------------------------------------------------------------------
\* A scope has a harness, a harness is its own, and nil is none of them.
LEMMA HarnessOfScope ==
  /\ \A s \in Scope : HarnessOf[s] \in Harness
  /\ \A h \in Harness : HarnessOf[h] = h /\ h \in Scope /\ h # None /\ h \notin Request
  /\ \A r \in Request : r \in Scope /\ r # None
  /\ \A t \in Thread : t # None /\ t \notin Worker
BY ScopeAssumption DEF Scope

\* Before the first dispatch nothing is installed, open or written.
LEMMA InitInv == Init => ScopeInv
<1> SUFFICES ASSUME Init PROVE ScopeInv
  OBVIOUS
<1>1. TypeInv
  BY HarnessOfScope DEF Init, TypeInv, Saving, Calling, Where, NoCall, NoStart, Caller, Scope
<1>2. HostInv
  BY HarnessOfScope DEF Init, HostInv, HolderInv, Closed
<1>3. CallInv
  BY HarnessOfScope DEF Init, CallInv, NoCall, NoStart, Caller
<1>4. WrittenInv
  BY DEF Init, WrittenInv
<1> QED
  BY <1>1, <1>2, <1>3, <1>4 DEF ScopeInv

-----------------------------------------------------------------------------
\* A call under way belongs to the scope whose map and request the harness
\* holds, or to a goroutine that outlived its function.
LEMMA CallInScope ==
  ASSUME ScopeInv, NEW c \in Caller, call[c].stage # "none"
  PROVE  /\ ScopeOf(c) \in Scope /\ call[c].host \in Harness
         /\ \/ ScopeOf(c) \in leaked
            \/ /\ hMeta[call[c].host] = ScopeOf(c)
               /\ active[call[c].host] = IF ScopeOf(c) \in Request THEN ScopeOf(c) ELSE None
<1> USE HarnessOfScope DEF ScopeInv
<1>1. call[c].host \in Harness
  BY DEF CallInv
<1>2. ASSUME NEW t \in Thread, at[t] = "running", call[c].host = HarnessOf[job[t]]
      PROVE  /\ job[t] \in Scope
             /\ hMeta[call[c].host] = job[t]
             /\ active[call[c].host] = IF job[t] \in Request THEN job[t] ELSE None
  <2>1. job[t] \in Scope /\ Open(job[t])
    BY <1>2 DEF HostInv, HolderInv
  <2> QED
    BY <1>1, <1>2, <2>1 DEF Open, Scope
<1>3. CASE c \in Thread
  BY <1>1, <1>2, <1>3 DEF CallInv, ScopeOf
<1>4. CASE c \in Worker /\ starter[c].thread \in Thread
  BY <1>1, <1>2, <1>4 DEF CallInv, ScopeOf
<1>5. CASE c \in Worker /\ starter[c].thread = None
  BY <1>1, <1>5 DEF CallInv, ScopeOf, TypeInv
<1> QED
  BY <1>3, <1>4, <1>5 DEF Caller, TypeInv

-----------------------------------------------------------------------------
(* The steps of a dispatch *)

\* Coming to WithTestHost touches nothing but the thread itself.
LEMMA BeginKeeps ==
  ASSUME ScopeInv, NEW t \in Thread, NEW s \in Scope, Begin(t, s)
  PROVE  ScopeInv'
<1> USE HarnessOfScope DEF Begin, Go, host, threads, workers, written
<1>1. TypeInv'
  BY DEF ScopeInv, TypeInv, Where
<1>2. HostInv'
  BY DEF ScopeInv, TypeInv, HostInv, HolderInv, Installed, Open, Closed
<1>3. CallInv'
  BY DEF ScopeInv, TypeInv, HostInv, CallInv
<1>4. WrittenInv'
  BY DEF ScopeInv, TypeInv, WrittenInv
<1> QED
  BY <1>1, <1>2, <1>3, <1>4 DEF ScopeInv

\* The thread that takes dispatchMu finds nothing installed and nothing open.
LEMMA LockKeeps ==
  ASSUME ScopeInv, NEW t \in Thread, Lock(t)
  PROVE  ScopeInv'
<1> USE HarnessOfScope DEF Lock, Go, host, threads, workers, written
<1>1. TypeInv'
  BY DEF ScopeInv, TypeInv, Where
<1>2. HostInv'
  BY DEF ScopeInv, TypeInv, HostInv, HolderInv, Installed, Open, Closed
<1>3. CallInv'
  BY DEF ScopeInv, TypeInv, HostInv, CallInv
<1>4. WrittenInv'
  BY DEF ScopeInv, TypeInv, WrittenInv
<1> QED
  BY <1>1, <1>2, <1>3, <1>4 DEF ScopeInv

\* WithTestHost saves nil and installs the harness of the scope.
LEMMA InstallKeeps ==
  ASSUME ScopeInv, NEW t \in Thread, Install(t)
  PROVE  ScopeInv'
<1> USE HarnessOfScope DEF Install, Go, host, threads, workers, written
<1>0. job[t] \in Scope
  BY DEF ScopeInv, TypeInv, HostInv, HolderInv
<1>1. TypeInv'
  <2>1. saved' \in [Thread -> Saving]
    <3>1. testHostPtr \in Harness \cup {None} /\ saved[t] \in Saving
      BY DEF ScopeInv, TypeInv
    <3>2. [saved[t] EXCEPT !.ptr = testHostPtr] \in Saving
      BY <3>1 DEF Saving
    <3>3. saved' = [saved EXCEPT ![t] = [saved[t] EXCEPT !.ptr = testHostPtr]]
      BY DEF ScopeInv, TypeInv
    <3>4. saved \in [Thread -> Saving]
      BY DEF ScopeInv, TypeInv
    <3> QED
      BY <3>2, <3>3, <3>4
  <2>2. testHostPtr' \in Harness \cup {None} /\ at' \in [Thread -> Where]
    BY <1>0 DEF ScopeInv, TypeInv, Where
  <2> QED
    BY <2>1, <2>2 DEF ScopeInv, TypeInv
<1>2. HostInv'
  BY DEF ScopeInv, TypeInv, HostInv, HolderInv, Installed, Open, Closed
<1>3. CallInv'
  BY DEF ScopeInv, TypeInv, HostInv, CallInv
<1>4. WrittenInv'
  BY DEF ScopeInv, TypeInv, WrittenInv
<1> QED
  BY <1>1, <1>2, <1>3, <1>4 DEF ScopeInv

\* Request.with opens the request on a harness where none is open.
LEMMA OpenScopeKeeps ==
  ASSUME ScopeInv, NEW t \in Thread, OpenScope(t)
  PROVE  ScopeInv'
<1> USE HarnessOfScope DEF OpenScope, Go, host, threads, workers, written
<1>0. job[t] \in Scope /\ job[t] \in Request
  BY DEF ScopeInv, TypeInv, HostInv, HolderInv
<1>1. TypeInv'
  <2>1. HarnessOf[job[t]] \in Harness /\ rMeta[job[t]] \in Scope
    BY <1>0 DEF ScopeInv, TypeInv
  <2>2. saved' \in [Thread -> Saving]
    <3>1. hMeta[HarnessOf[job[t]]] \in Scope /\ active[HarnessOf[job[t]]] \in Request \cup {None}
      BY <2>1 DEF ScopeInv, TypeInv
    <3>2. saved[t] \in Saving /\ saved \in [Thread -> Saving]
      BY DEF ScopeInv, TypeInv
    <3>3. [saved[t] EXCEPT !.meta = hMeta[HarnessOf[job[t]]], !.active = active[HarnessOf[job[t]]]] \in Saving
      BY <3>1, <3>2 DEF Saving
    <3>4. saved' = [saved EXCEPT ![t] = [saved[t] EXCEPT !.meta = hMeta[HarnessOf[job[t]]],
                                                        !.active = active[HarnessOf[job[t]]]]]
      BY <3>2
    <3> QED
      BY <3>2, <3>3, <3>4
  <2>3. hMeta' \in [Harness -> Scope] /\ active' \in [Harness -> Request \cup {None}] /\ at' \in [Thread -> Where]
    BY <1>0, <2>1 DEF ScopeInv, TypeInv, Where
  <2> QED
    BY <2>2, <2>3 DEF ScopeInv, TypeInv
<1>2. HostInv'
  BY DEF ScopeInv, TypeInv, HostInv, HolderInv, Installed, Open, Closed
<1>3. CallInv'
  BY DEF ScopeInv, TypeInv, HostInv, CallInv
<1>4. WrittenInv'
  BY DEF ScopeInv, TypeInv, WrittenInv
<1> QED
  BY <1>1, <1>2, <1>3, <1>4 DEF ScopeInv

\* The deferred section of Request.with closes the scope; goroutines still
\* running become ones that outlived it.
LEMMA CloseScopeKeeps ==
  ASSUME ScopeInv, NEW t \in Thread, CloseScope(t)
  PROVE  ScopeInv'
<1> USE HarnessOfScope DEF CloseScope, Returns, Go, host, threads, workers, written
<1>0. job[t] \in Scope /\ saved[t].meta = HarnessOf[job[t]]
  BY DEF ScopeInv, TypeInv, HostInv, HolderInv
<1>1. TypeInv'
  BY <1>0 DEF ScopeInv, TypeInv, Saving, Calling, Where
<1>2. HostInv'
  BY DEF ScopeInv, TypeInv, HostInv, HolderInv, Installed, Open, Closed
<1>3. CallInv'
  <2>1. \A c \in Caller : call'[c].stage # "none" => call'[c].host \in Harness
    BY DEF ScopeInv, CallInv
  <2>2. \A u \in Thread : call'[u].stage # "none" => at'[u] = "running" /\ call'[u].host = HarnessOf[job'[u]]
    BY DEF ScopeInv, TypeInv, CallInv
  <2>3. ASSUME NEW w \in Worker, starter[w].thread = t
        PROVE  starter'[w] = [thread |-> None, scope |-> job[t]] /\ job[t] \in leaked' /\ starter[w] # NoStart
    BY <2>3 DEF ScopeInv, TypeInv, CallInv, NoStart
  <2>4. ASSUME NEW w \in Worker, starter[w].thread # t
        PROVE  starter'[w] = starter[w]
    BY <2>4 DEF ScopeInv, TypeInv
  <2>5. leaked \subseteq leaked'
    OBVIOUS
  <2>6. \A w \in Worker : starter'[w].thread \in Thread =>
          /\ at'[starter'[w].thread] = "running" /\ starter'[w].scope = job'[starter'[w].thread]
          /\ call'[w].stage # "none" => call'[w].host = HarnessOf[job'[starter'[w].thread]]
    BY <2>3, <2>4 DEF ScopeInv, TypeInv, CallInv
  <2>7. \A w \in Worker : starter'[w].thread = None /\ starter'[w] # NoStart => starter'[w].scope \in leaked'
    BY <2>3, <2>4, <2>5 DEF ScopeInv, TypeInv, CallInv
  <2>8. \A w \in Worker : starter'[w] = NoStart => call'[w].stage = "none"
    BY <1>0, <2>3, <2>4 DEF ScopeInv, TypeInv, CallInv, NoStart
  <2> QED
    BY <2>1, <2>2, <2>6, <2>7, <2>8 DEF CallInv
<1>4. WrittenInv'
  BY DEF ScopeInv, TypeInv, WrittenInv
<1> QED
  BY <1>1, <1>2, <1>3, <1>4 DEF ScopeInv

\* The end of a Harness.Run function, with the goroutines still running.
LEMMA CloseRunKeeps ==
  ASSUME ScopeInv, NEW t \in Thread, CloseRun(t)
  PROVE  ScopeInv'
<1> USE HarnessOfScope DEF CloseRun, Returns, Go, host, threads, workers, written
<1>0. job[t] \in Scope
  BY DEF ScopeInv, TypeInv, HostInv, HolderInv
<1>1. TypeInv'
  <2>1. leaked' \in SUBSET Scope
    BY <1>0 DEF ScopeInv, TypeInv
  <2>2. starter' \in [Worker -> [thread : Thread \cup {None}, scope : Scope \cup {None}]]
    BY DEF ScopeInv, TypeInv
  <2>3. at' \in [Thread -> Where]
    BY DEF ScopeInv, TypeInv, Where
  <2> QED
    BY <2>1, <2>2, <2>3 DEF ScopeInv, TypeInv
<1>2. HostInv'
  BY DEF ScopeInv, TypeInv, HostInv, HolderInv, Installed, Open, Closed
<1>3. CallInv'
  <2>1. \A c \in Caller : call'[c].stage # "none" => call'[c].host \in Harness
    BY DEF ScopeInv, CallInv
  <2>2. \A u \in Thread : call'[u].stage # "none" => at'[u] = "running" /\ call'[u].host = HarnessOf[job'[u]]
    BY DEF ScopeInv, TypeInv, CallInv
  <2>3. ASSUME NEW w \in Worker, starter[w].thread = t
        PROVE  starter'[w] = [thread |-> None, scope |-> job[t]] /\ job[t] \in leaked' /\ starter[w] # NoStart
    BY <2>3 DEF ScopeInv, TypeInv, CallInv, NoStart
  <2>4. ASSUME NEW w \in Worker, starter[w].thread # t
        PROVE  starter'[w] = starter[w]
    BY <2>4 DEF ScopeInv, TypeInv
  <2>5. leaked \subseteq leaked'
    OBVIOUS
  <2>6. \A w \in Worker : starter'[w].thread \in Thread =>
          /\ at'[starter'[w].thread] = "running" /\ starter'[w].scope = job'[starter'[w].thread]
          /\ call'[w].stage # "none" => call'[w].host = HarnessOf[job'[starter'[w].thread]]
    BY <2>3, <2>4 DEF ScopeInv, TypeInv, CallInv
  <2>7. \A w \in Worker : starter'[w].thread = None /\ starter'[w] # NoStart => starter'[w].scope \in leaked'
    BY <2>3, <2>4, <2>5 DEF ScopeInv, TypeInv, CallInv
  <2>8. \A w \in Worker : starter'[w] = NoStart => call'[w].stage = "none"
    BY <1>0, <2>3, <2>4 DEF ScopeInv, TypeInv, CallInv, NoStart
  <2> QED
    BY <2>1, <2>2, <2>6, <2>7, <2>8 DEF CallInv
<1>4. WrittenInv'
  BY DEF ScopeInv, TypeInv, WrittenInv
<1> QED
  BY <1>1, <1>2, <1>3, <1>4 DEF ScopeInv

\* Putting back the saved pointer leaves no host installed.
LEMMA UninstallKeeps ==
  ASSUME ScopeInv, NEW t \in Thread, Uninstall(t)
  PROVE  ScopeInv'
<1> USE HarnessOfScope DEF Uninstall, Go, host, threads, workers, written
<1>1. TypeInv'
  BY DEF ScopeInv, TypeInv, Saving, Calling, Where
<1>2. HostInv'
  BY DEF ScopeInv, TypeInv, HostInv, HolderInv, Installed, Open, Closed
<1>3. CallInv'
  BY DEF ScopeInv, TypeInv, HostInv, CallInv
<1>4. WrittenInv'
  BY DEF ScopeInv, TypeInv, WrittenInv
<1> QED
  BY <1>1, <1>2, <1>3, <1>4 DEF ScopeInv

\* dispatchMu is released with nothing installed and nothing open.
LEMMA UnlockKeeps ==
  ASSUME ScopeInv, NEW t \in Thread, Unlock(t)
  PROVE  ScopeInv'
<1> USE HarnessOfScope DEF Unlock, Go, host, threads, workers, written
<1>1. TypeInv'
  BY DEF ScopeInv, TypeInv, Where
<1>2. HostInv'
  BY DEF ScopeInv, TypeInv, HostInv, HolderInv, Installed, Open, Closed
<1>3. CallInv'
  BY DEF ScopeInv, TypeInv, HostInv, CallInv
<1>4. WrittenInv'
  BY DEF ScopeInv, TypeInv, WrittenInv
<1> QED
  BY <1>1, <1>2, <1>3, <1>4 DEF ScopeInv

-----------------------------------------------------------------------------
(* The steps of goroutines and of host calls *)

\* A goroutine starts in the scope of the thread that starts it.
LEMMA SpawnKeeps ==
  ASSUME ScopeInv, NEW t \in Thread, NEW w \in Worker, Spawn(t, w)
  PROVE  ScopeInv'
<1> USE HarnessOfScope DEF Spawn, NoStart, Go, host, threads, workers, written
<1>1. TypeInv'
  BY DEF ScopeInv, TypeInv, Where
<1>2. HostInv'
  BY DEF ScopeInv, TypeInv, HostInv, HolderInv, Installed, Open, Closed
<1>3. CallInv'
  BY DEF ScopeInv, TypeInv, HostInv, CallInv
<1>4. WrittenInv'
  BY DEF ScopeInv, TypeInv, WrittenInv
<1> QED
  BY <1>1, <1>2, <1>3, <1>4 DEF ScopeInv

\* A goroutine ends with no call under way.
LEMMA EndKeeps ==
  ASSUME ScopeInv, NEW w \in Worker, End(w)
  PROVE  ScopeInv'
<1> USE HarnessOfScope DEF End, NoStart, Go, host, threads, workers, written
<1>1. TypeInv'
  BY DEF ScopeInv, TypeInv, Where
<1>2. HostInv'
  BY DEF ScopeInv, TypeInv, HostInv, HolderInv, Installed, Open, Closed
<1>3. CallInv'
  BY DEF ScopeInv, TypeInv, HostInv, CallInv
<1>4. WrittenInv'
  BY DEF ScopeInv, TypeInv, WrittenInv
<1> QED
  BY <1>1, <1>2, <1>3, <1>4 DEF ScopeInv

\* A call gets the host of the one dispatch under way.
LEMMA LoadKeeps ==
  ASSUME ScopeInv, NEW c \in Caller, Load(c)
  PROVE  ScopeInv'
<1> USE HarnessOfScope DEF Load, Runs, Caller, NoStart, Go, host, threads, workers, written
<1>1. TypeInv'
  BY DEF ScopeInv, TypeInv, Saving, Calling, Where
<1>2. HostInv'
  BY DEF ScopeInv, TypeInv, HostInv, HolderInv, Installed, Open, Closed
<1>3. CallInv'
  BY DEF ScopeInv, TypeInv, HostInv, HolderInv, Installed, CallInv
<1>4. WrittenInv'
  BY DEF ScopeInv, TypeInv, WrittenInv
<1> QED
  BY <1>1, <1>2, <1>3, <1>4 DEF ScopeInv

\* A denied call is recorded in its own request, or by a goroutine that outlived
\* its function.
LEMMA DeniedKeeps ==
  ASSUME ScopeInv, NEW c \in Caller, Denied(c)
  PROVE  ScopeInv'
<1> USE HarnessOfScope DEF Denied, RecordIn, NoCall, Caller, Go, host, threads, workers, written
<1>0. /\ ScopeOf(c) \in Scope /\ call[c].host \in Harness
      /\ \/ ScopeOf(c) \in leaked
         \/ /\ hMeta[call[c].host] = ScopeOf(c)
            /\ active[call[c].host] = IF ScopeOf(c) \in Request THEN ScopeOf(c) ELSE None
  BY CallInScope
<1>1. TypeInv'
  BY <1>0 DEF ScopeInv, TypeInv, Saving, Calling, Where
<1>2. HostInv'
  BY DEF ScopeInv, TypeInv, HostInv, HolderInv, Installed, Open, Closed
<1>3. CallInv'
  BY DEF ScopeInv, TypeInv, HostInv, CallInv
<1>4. WrittenInv'
  BY <1>0 DEF ScopeInv, TypeInv, WrittenInv, Scope
<1> QED
  BY <1>1, <1>2, <1>3, <1>4 DEF ScopeInv

\* A call writes to the map of its own scope, or is one of such a goroutine.
LEMMA EffectKeeps ==
  ASSUME ScopeInv, NEW c \in Caller, Effect(c)
  PROVE  ScopeInv'
<1> USE HarnessOfScope DEF Effect, Caller, Go, host, threads, workers, written
<1>0. /\ ScopeOf(c) \in Scope /\ call[c].host \in Harness
      /\ \/ ScopeOf(c) \in leaked
         \/ /\ hMeta[call[c].host] = ScopeOf(c)
            /\ active[call[c].host] = IF ScopeOf(c) \in Request THEN ScopeOf(c) ELSE None
  BY CallInScope
<1>1. TypeInv'
  <2>1. call' \in [Caller -> Calling]
    <3>1. call[c] \in Calling /\ call \in [Caller -> Calling]
      BY DEF ScopeInv, TypeInv
    <3>2. [call[c] EXCEPT !.stage = "done"] \in Calling
      BY <3>1 DEF Calling
    <3>3. call' = [call EXCEPT ![c] = [call[c] EXCEPT !.stage = "done"]]
      BY <3>1
    <3> QED
      BY <3>1, <3>2, <3>3
  <2>2. contents' \in [Scope -> SUBSET Scope]
    <3>1. hMeta[call[c].host] \in Scope
      BY <1>0 DEF ScopeInv, TypeInv
    <3> QED
      BY <1>0, <3>1 DEF ScopeInv, TypeInv
  <2> QED
    BY <2>1, <2>2 DEF ScopeInv, TypeInv
<1>2. HostInv'
  BY DEF ScopeInv, TypeInv, HostInv, HolderInv, Installed, Open, Closed
<1>3. CallInv'
  BY DEF ScopeInv, TypeInv, HostInv, CallInv
<1>4. WrittenInv'
  BY <1>0 DEF ScopeInv, TypeInv, WrittenInv, Scope
<1> QED
  BY <1>1, <1>2, <1>3, <1>4 DEF ScopeInv

\* An answered call is recorded where a denied one is.
LEMMA RecordKeeps ==
  ASSUME ScopeInv, NEW c \in Caller, Record(c)
  PROVE  ScopeInv'
<1> USE HarnessOfScope DEF Record, RecordIn, NoCall, Caller, Go, host, threads, workers, written
<1>0. /\ ScopeOf(c) \in Scope /\ call[c].host \in Harness
      /\ \/ ScopeOf(c) \in leaked
         \/ /\ hMeta[call[c].host] = ScopeOf(c)
            /\ active[call[c].host] = IF ScopeOf(c) \in Request THEN ScopeOf(c) ELSE None
  BY CallInScope
<1>1. TypeInv'
  BY <1>0 DEF ScopeInv, TypeInv, Saving, Calling, Where
<1>2. HostInv'
  BY DEF ScopeInv, TypeInv, HostInv, HolderInv, Installed, Open, Closed
<1>3. CallInv'
  BY DEF ScopeInv, TypeInv, HostInv, CallInv
<1>4. WrittenInv'
  BY <1>0 DEF ScopeInv, TypeInv, WrittenInv, Scope
<1> QED
  BY <1>1, <1>2, <1>3, <1>4 DEF ScopeInv

-----------------------------------------------------------------------------
\* Every step keeps the invariant.
LEMMA StepKeeps == ScopeInv /\ [Next]_vars => ScopeInv'
<1> SUFFICES ASSUME ScopeInv, [Next]_vars PROVE ScopeInv'
  OBVIOUS
<1>1. ASSUME NEW t \in Thread, Proceed(t) PROVE ScopeInv'
  BY <1>1, LockKeeps, InstallKeeps, OpenScopeKeeps, CloseScopeKeeps, CloseRunKeeps, UninstallKeeps, UnlockKeeps
     DEF Proceed
<1>2. ASSUME NEW t \in Thread, NEW s \in Scope, Begin(t, s) PROVE ScopeInv'
  BY <1>2, BeginKeeps
<1>3. ASSUME NEW t \in Thread, NEW w \in Worker, Spawn(t, w) PROVE ScopeInv'
  BY <1>3, SpawnKeeps
<1>4. ASSUME NEW w \in Worker, End(w) PROVE ScopeInv'
  BY <1>4, EndKeeps
<1>5. ASSUME NEW c \in Caller, Calls(c) PROVE ScopeInv'
  BY <1>5, LoadKeeps, DeniedKeeps, EffectKeeps, RecordKeeps DEF Calls
<1>6. CASE UNCHANGED vars
  BY <1>6 DEF vars, host, threads, workers, written, ScopeInv, TypeInv, HostInv, HolderInv, Installed, Open,
              Closed, CallInv, WrittenInv
<1> QED
  BY <1>1, <1>2, <1>3, <1>4, <1>5, <1>6 DEF Next

\* The invariant holds for any number of goroutines, harnesses and requests.
THEOREM ScopesHold == Spec => []ScopeInv
BY InitInv, StepKeeps, PTL DEF Spec

\* Metadata written in one request is found in no other, except what a
\* goroutine wrote that outlived its function: Request.with and the lock hold
\* for any number of goroutines, requests and harnesses.
THEOREM MetaNeverCrosses == Spec => []MetaStaysInScope
<1>1. ScopeInv => MetaStaysInScope
  BY DEF ScopeInv, HostInv, WrittenInv, MetaStaysInScope
<1> QED
  BY <1>1, ScopesHold, PTL

\* Request.Calls names only calls made in that request, with the same exception.
THEOREM CallsNeverCross == Spec => []CallsStayInScope
<1>1. ScopeInv => CallsStayInScope
  BY DEF ScopeInv, WrittenInv, CallsStayInScope
<1> QED
  BY <1>1, ScopesHold, PTL

\* Between dispatches no host is installed and every harness is as it was made,
\* however the dispatches ended.
THEOREM NothingIsLeftBehind == Spec => []NothingLeftBehind
<1>1. ScopeInv => NothingLeftBehind
  BY DEF ScopeInv, HostInv, Closed, NothingLeftBehind
<1> QED
  BY <1>1, ScopesHold, PTL

=============================================================================
