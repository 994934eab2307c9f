------------------------- MODULE HostCommandsProofs -------------------------
(***************************************************************************)
(* Proofs about the test host's commands, for any goroutines, calls, keys, *)
(* paths, stubs and permission sets: exactly what was acknowledged can be  *)
(* found, a refusal touches nothing, and the caches implement              *)
(* CacheService.                                                           *)
(***************************************************************************)
EXTENDS HostCommands, SequenceTheorems, TLAPS

-----------------------------------------------------------------------------
(* The inductive invariant *)

CallInv ==
  /\ asked \in [Caller -> Call \cup {NoCall}]
  /\ at \in [Caller -> {"idle", "admitted", "done"}]
  /\ \A c \in Caller : at[c] = "admitted" => asked[c] \in Call
  /\ reply = [c \in Caller |-> reply[c]]

\* An absent entry has no deadline: what a seed would inherit.
CacheInv ==
  /\ now \in Nat
  /\ cache \in [Store -> [CacheKey -> Content \cup {Absent}]]
  /\ expiry \in [Store -> [CacheKey -> Nat]]
  /\ \A s \in Store, k \in CacheKey : cache[s][k] = Absent => expiry[s][k] = 0

MapInv ==
  /\ meta \in [MetaKey -> Content \cup {Absent}]
  /\ files \in [Path -> Content \cup {Absent}]

HostInv == CallInv /\ CacheInv /\ MapInv /\ AcknowledgedIsThere

-----------------------------------------------------------------------------
(* Steps of a call *)

\* What the end of a call does to the calls.
LEMMA Finished ==
  ASSUME CallInv, NEW c \in Caller, NEW r, Finish(c, r)
  PROVE  /\ CallInv'
         /\ asked' = asked /\ now' = now /\ UNCHANGED fixtures
         /\ at'[c] = "done" /\ reply'[c] = r
         /\ \A d \in Caller \ {c} : at'[d] = at[d] /\ reply'[d] = reply[d]
BY DEF CallInv, Finish

\* Answers that are of no cache, and leave caches, metadata and files alone.
Quiet(c) ==
  RunStub(c) \/ Reject(c) \/ MetaGet(c) \/ FileRead(c) \/ FileList(c) \/ CredentialGet(c) \/ Tell(c)

CacheStep(c) == CacheGet(c) \/ CacheSet(c) \/ CacheDelete(c)

MapStep(c) == MetaSet(c) \/ MetaAppend(c) \/ FileWrite(c) \/ FileDelete(c)

\* Commands that are no cache's and write nothing.
QuietCommands == {"env.meta_get", "env.file_read", "env.file_list", "env.credential_get",
                  "env.now", "env.plugin_config", "env.http_request"} \cup Originals \cup Verdicts \cup ExtensionCommands

\* Answered from nothing an answer depends on: by a stub, by a refusal that is
\* not an absence, or for a command that is no cache's and writes nothing.
Harmless(c, r) ==
  \/ r.by = "stub"
  \/ r.status = "INVALID_ARGUMENT"
  \/ asked[c].cmd \in QuietCommands
  \/ asked[c].cmd \notin Builtin \cup ExtensionCommands

\* A quiet answer ends the call harmlessly and moves no store,
LEMMA QuietSteps ==
  ASSUME NEW c \in Caller, Quiet(c)
  PROVE  /\ at[c] = "admitted" /\ UNCHANGED <<caches, meta, files>>
         /\ \E r : Finish(c, r) /\ Harmless(c, r)
<1>1. CASE RunStub(c)
  BY <1>1 DEF RunStub, Harmless, Answered
<1>2. CASE Reject(c)
  BY <1>2 DEF Reject, Refuses, Harmless, Answered
<1>3. CASE MetaGet(c) \/ FileRead(c) \/ FileList(c) \/ CredentialGet(c)
  BY <1>3 DEF MetaGet, FileRead, FileList, CredentialGet, Serving, Look, Returns, Refuses, Harmless, QuietCommands
<1>4. CASE Tell(c)
  BY <1>4 DEF Tell, Serving, Look, Returns, Refuses, Harmless, QuietCommands
<1> QED
  BY <1>1, <1>2, <1>3, <1>4 DEF Quiet

\* acknowledges no write,
LEMMA QuietAcknowledges ==
  ASSUME NEW c \in Caller, Quiet(c)
  PROVE  acked' = acked
<1>1. PICK r : Finish(c, r) /\ Harmless(c, r)
  BY QuietSteps
<1>2. Acknowledge(asked[c], r)
  BY <1>1 DEF Finish
<1>3. CASE r.by = "stub" \/ r.status = "INVALID_ARGUMENT"
  BY <1>2, <1>3 DEF Acknowledge
<1>4. CASE asked[c].cmd \in QuietCommands \/ asked[c].cmd \notin Builtin \cup ExtensionCommands
  <2>1. asked[c].cmd \notin {"env.meta_set", "env.meta_append", "env.file_append", "env.file_write", "env.file_delete"}
    BY <1>4 DEF QuietCommands, Originals, Verdicts, ExtensionCommands, Builtin, Validated, KeyCommands, MetaCommands, PathCommands
  <2> QED
    BY <1>2, <2>1 DEF Acknowledge
<1> QED
  BY <1>1, <1>3, <1>4 DEF Harmless

\* and is no cache's.
LEMMA QuietIsElsewhere ==
  ASSUME NEW c \in Caller, Quiet(c), CallInv
  PROVE  ~FromCache(c)'
<1>1. PICK r : Finish(c, r) /\ Harmless(c, r)
  BY QuietSteps
<1>2. reply'[c] = r /\ asked' = asked
  BY <1>1, Finished
<1>3. CASE r.by = "stub" \/ r.status = "INVALID_ARGUMENT"
  BY <1>2, <1>3 DEF FromCache
<1>4. CASE asked[c].cmd \in QuietCommands \/ asked[c].cmd \notin Builtin \cup ExtensionCommands
  <2>1. asked[c].cmd \notin CacheCommands
    BY <1>4 DEF QuietCommands, Originals, Verdicts, ExtensionCommands, Builtin, Validated, KeyCommands, CacheCommands, SetCommands
  <2>2. CacheOp(asked[c].cmd) = "other"
    BY <2>1 DEF CacheOp, CacheCommands, SetCommands
  <2> QED
    BY <1>2, <2>2 DEF FromCache
<1> QED
  BY <1>1, <1>3, <1>4 DEF Harmless

-----------------------------------------------------------------------------
(* Cache steps *)

\* A cache command reaches an entry, and only a positive lifetime is let by.
LEMMA CacheCall ==
  ASSUME CallInv, NEW c \in Caller, NEW commands \in SUBSET CacheCommands, Serving(c, commands)
  PROVE  /\ at[c] = "admitted" /\ asked[c].cmd \in commands
         /\ StoreOf(asked[c].cmd) \in Store
         /\ asked[c].key \in CacheKey /\ asked[c].value \in Content
         /\ asked[c].ttl \in Nat \cup {Never}
         /\ asked[c].cmd \in SetCommands => asked[c].ttl # 0
<1>1. /\ at[c] = "admitted" /\ asked[c].cmd \in commands /\ Acceptable(asked[c]) /\ asked[c] \in Call
  BY DEF Serving, CallInv
<1>2. asked[c].cmd \in KeyCommands \cup SetCommands
  BY <1>1 DEF CacheCommands, KeyCommands, SetCommands
<1>3. asked[c].key # <<>> /\ (asked[c].cmd \in SetCommands => asked[c].ttl # 0)
  BY <1>1, <1>2 DEF Acceptable, CacheCommands, KeyCommands, MetaCommands, SetCommands, PathCommands, Verdicts
<1>4. /\ asked[c].key \in CacheKey /\ asked[c].value \in Content
      /\ asked[c].ttl \in Nat \cup {Never}
  BY <1>1, <1>3, CallAssumption
<1> QED
  BY <1>1, <1>3, <1>4 DEF StoreOf, Store

\* Writing an entry keeps the caches typed and absence without a deadline.
LEMMA PutEntryKeeps ==
  ASSUME CacheInv, now' = now,
         NEW s \in Store, NEW k \in CacheKey, NEW value \in Content \cup {Absent}, NEW due \in Nat,
         value = Absent => due = 0,
         PutEntry(s, k, value, due)
  PROVE  CacheInv'
BY DEF CacheInv, PutEntry

\* Names of the instance, said in this module's terms.
ServiceEntry == [s \in Store |-> [k \in CacheKey |-> Entry(s, k)]]
ServiceAnswer == [c \in Caller |-> CacheAnswer(c)]
ServiceCall(c) == [op |-> CacheOp(asked[c].cmd), store |-> StoreOf(asked[c].cmd),
                   key |-> asked[c].key, value |-> asked[c].value, ttl |-> asked[c].ttl]

\* What an entry shows as.
Shown(value, due) == IF value = Absent THEN Absent
                     ELSE [value |-> value, due |-> IF due > 0 THEN due ELSE Never]

\* An entry shows as what is stored of it.
LEMMA EntryShows ==
  ASSUME NEW s \in Store, NEW k \in CacheKey
  PROVE  /\ Entry(s, k) = Shown(cache[s][k], expiry[s][k])
         /\ Entry(s, k)' = Shown(cache'[s][k], expiry'[s][k])
BY DEF Entry, Shown

\* An entry changes only with the stores.
LEMMA EntriesStay ==
  ASSUME UNCHANGED caches
  PROVE  ServiceEntry' = ServiceEntry
BY DEF ServiceEntry, Entry, caches

\* The service finds the entry that is stored and has not expired.
LEMMA EntryLives ==
  ASSUME CacheInv, NEW s \in Store, NEW k \in CacheKey
  PROVE  Service!Lives(Entry(s, k)) <=> cache[s][k] # Absent /\ ~Expired(s, k)
<1>1. expiry[s][k] \in Nat /\ cache[s][k] \in Content \cup {Absent} /\ now \in Nat
  BY DEF CacheInv
<1>2. CASE cache[s][k] = Absent
  BY <1>2 DEF Entry, Service!Lives
<1>3. CASE cache[s][k] # Absent
  <2> DEFINE due == IF expiry[s][k] > 0 THEN expiry[s][k] ELSE Never
             shown == [value |-> cache[s][k], due |-> due]
  <2>1. Entry(s, k) = shown
    BY <1>3 DEF Entry
  <2>2. shown # Absent /\ shown.due = due
    <3>1. shown \in [value : Content, due : Nat \cup {Never}]
      BY <1>1, <1>3
    <3> QED
      BY <3>1, AbsentAssumption
  <2>3. (due = Never \/ now < due) <=> ~(expiry[s][k] > 0 /\ now >= expiry[s][k])
    BY <1>1, AbsentAssumption
  <2> QED
    BY <1>3, <2>1, <2>2, <2>3 DEF Service!Lives, Expired
<1> QED
  BY <1>2, <1>3

\* A written entry shows, the others keep showing what they did.
LEMMA PutEntryShows ==
  ASSUME CacheInv, NEW s \in Store, NEW k \in CacheKey, NEW value, NEW due,
         PutEntry(s, k, value, due)
  PROVE  ServiceEntry' = [ServiceEntry EXCEPT ![s][k] = Shown(value, due)]
<1>1. cache'[s][k] = value /\ expiry'[s][k] = due
  BY DEF CacheInv, PutEntry
<1>2. \A t \in Store, l \in CacheKey : t # s \/ l # k => cache'[t][l] = cache[t][l] /\ expiry'[t][l] = expiry[t][l]
  BY DEF CacheInv, PutEntry
<1>3. Entry(s, k)' = Shown(value, due)
  BY <1>1, EntryShows
<1>4. \A t \in Store, l \in CacheKey : t # s \/ l # k => Entry(t, l)' = Entry(t, l)
  BY <1>2, EntryShows
<1>5. ServiceEntry' = [t \in Store |-> [l \in CacheKey |-> Entry(t, l)']]
  BY DEF ServiceEntry
<1> QED
  BY <1>3, <1>4, <1>5 DEF ServiceEntry

\* What an answered cache call shows as, and that no other call changes.
LEMMA AnswerShows ==
  ASSUME CallInv, NEW c \in Caller, NEW r, Finish(c, r), at[c] = "admitted",
         NEW shown,
         CacheAnswer(c)' = shown
  PROVE  /\ ServiceAnswer[c].kind = "pending"
         /\ ServiceAnswer' = [ServiceAnswer EXCEPT ![c] = shown]
<1>1. CacheAnswer(c) = [kind |-> "pending"]
  BY DEF CacheAnswer
<1>2. \A d \in Caller \ {c} : at'[d] = at[d] /\ reply'[d] = reply[d] /\ asked' = asked
  BY Finished
<1>3. \A d \in Caller \ {c} : CacheAnswer(d)' = CacheAnswer(d)
  BY <1>2 DEF CacheAnswer, FromCache
<1>4. ServiceAnswer' = [d \in Caller |-> CacheAnswer(d)']
  BY DEF ServiceAnswer
<1>5. ServiceAnswer[c] = [kind |-> "pending"]
  BY <1>1 DEF ServiceAnswer
<1>6. ServiceAnswer' = [ServiceAnswer EXCEPT ![c] = shown]
  BY <1>3, <1>4 DEF ServiceAnswer
<1> QED
  BY <1>5, <1>6

-----------------------------------------------------------------------------
(* Each cache command against CacheService *)

GetCommands == {"env.cache_get", "env.shared_cache_get"}
DeleteCommands == {"env.cache_delete", "env.shared_cache_delete"}

\* What CacheService calls each command.
LEMMA CacheOps ==
  ASSUME NEW cmd
  PROVE  /\ cmd \in GetCommands => CacheOp(cmd) = "get"
         /\ cmd \in SetCommands => CacheOp(cmd) = "set"
         /\ cmd \in DeleteCommands => CacheOp(cmd) = "delete"
         /\ GetCommands \cup SetCommands \cup DeleteCommands \subseteq CacheCommands
BY DEF CacheOp, GetCommands, SetCommands, DeleteCommands, CacheCommands

\* The instance's actions, said in this module's terms.
LEMMA ServiceActions ==
  ASSUME NEW c \in Caller, ServiceAnswer[c].kind = "pending", now' = now, asked' = asked
  PROVE  LET s == StoreOf(asked[c].cmd)
             k == asked[c].key
             e == ServiceEntry[s][k]
             due == IF asked[c].ttl = Never THEN Never ELSE now + asked[c].ttl
         IN /\ CacheOp(asked[c].cmd) = "get"
               /\ \/ ServiceEntry' = ServiceEntry
                  \/ ~Service!Lives(e) /\ ServiceEntry' = [ServiceEntry EXCEPT ![s][k] = Absent]
               /\ ServiceAnswer' = [ServiceAnswer EXCEPT ![c] =
                    IF Service!Lives(e) THEN [kind |-> "found", value |-> e.value] ELSE [kind |-> "absent"]]
               => Service!Get(c)
            /\ CacheOp(asked[c].cmd) = "set"
               /\ ServiceAnswer' = [ServiceAnswer EXCEPT ![c] = [kind |-> "done"]]
               /\ ServiceEntry' = [ServiceEntry EXCEPT ![s][k] = [value |-> asked[c].value, due |-> due]]
               => Service!Set(c)
            /\ CacheOp(asked[c].cmd) = "delete"
               /\ ServiceAnswer' = [ServiceAnswer EXCEPT ![c] = [kind |-> "done"]]
               /\ ServiceEntry' = [ServiceEntry EXCEPT ![s][k] = Absent]
               => Service!Delete(c)
            /\ ServiceAnswer' = [ServiceAnswer EXCEPT ![c] = [kind |-> "elsewhere"]]
               /\ ServiceEntry' = ServiceEntry
               => Service!Elsewhere(c)
BY DEF Service!Get, Service!Set, Service!Delete, Service!Elsewhere, Service!Answer, Service!Put,
       ServiceAnswer, ServiceEntry

\* What an end of a cache call shows as.
LEMMA CacheReplies ==
  ASSUME CallInv, NEW c \in Caller, NEW r, Finish(c, r), asked[c].cmd \in CacheCommands
  PROVE  /\ r = Answered("host", "NOT_FOUND", <<>>) => CacheAnswer(c)' = [kind |-> "absent"]
         /\ \A value : r = Answered("host", "value", value) =>
              CacheAnswer(c)' = IF asked[c].cmd \in GetCommands THEN [kind |-> "found", value |-> value] ELSE [kind |-> "done"]
         /\ acked' = acked
<1>1. at'[c] = "done" /\ reply'[c] = r /\ asked' = asked /\ Acknowledge(asked[c], r)
  BY Finished DEF Finish
<1>2. CacheOp(asked[c].cmd) # "other" /\ (CacheOp(asked[c].cmd) = "get" <=> asked[c].cmd \in GetCommands)
  BY DEF CacheOp, CacheCommands, GetCommands, SetCommands
<1>3. ASSUME r = Answered("host", "NOT_FOUND", <<>>) PROVE CacheAnswer(c)' = [kind |-> "absent"]
  BY <1>1, <1>2, <1>3 DEF CacheAnswer, FromCache, Answered
<1>4. ASSUME NEW value, r = Answered("host", "value", value)
      PROVE  CacheAnswer(c)' = IF asked[c].cmd \in GetCommands THEN [kind |-> "found", value |-> value] ELSE [kind |-> "done"]
  <2>1. r.by = "host" /\ r.status = "value" /\ r.value = value
    BY <1>4 DEF Answered
  <2> QED
    BY <1>1, <1>2, <2>1 DEF CacheAnswer, FromCache
<1>5. acked' = acked
  BY <1>1 DEF Acknowledge, CacheCommands
<1> QED
  BY <1>3, <1>4, <1>5

\* A write to a cache: what it stores is what CacheService says, and
\* nothing else moves.
LEMMA SetStep ==
  ASSUME CallInv, CacheInv, NEW c \in Caller, CacheSet(c)
  PROVE  CallInv' /\ CacheInv' /\ UNCHANGED <<meta, files>> /\ acked' = acked /\ Service!Set(c)
<1> DEFINE s == StoreOf(asked[c].cmd)
           k == asked[c].key
           due == IF asked[c].ttl = Never THEN 0 ELSE now + asked[c].ttl
           r == Answered("host", "value", <<>>)
<1>1. /\ Serving(c, SetCommands) /\ PutEntry(s, k, asked[c].value, due)
      /\ Finish(c, r) /\ UNCHANGED <<meta, files>>
  BY DEF CacheSet, Returns
<1>2. /\ at[c] = "admitted" /\ asked[c].cmd \in SetCommands
      /\ s \in Store /\ k \in CacheKey /\ asked[c].value \in Content
      /\ asked[c].ttl \in Nat \cup {Never} /\ asked[c].ttl # 0
  BY <1>1, CacheCall, CacheOps
<1>3. CallInv' /\ now' = now /\ asked' = asked
  BY <1>1, Finished
<1>4. due \in Nat /\ asked[c].value # Absent
  BY <1>2, AbsentAssumption DEF CacheInv
<1>5. CacheInv'
  <2> HIDE DEF due, s, k
  <2> QED
    BY <1>1, <1>2, <1>3, <1>4, PutEntryKeeps
<1>6. Shown(asked[c].value, due) =
        [value |-> asked[c].value, due |-> IF asked[c].ttl = Never THEN Never ELSE now + asked[c].ttl]
  BY <1>2, <1>4 DEF Shown, CacheInv
<1>7. ServiceEntry' = [ServiceEntry EXCEPT ![s][k] = Shown(asked[c].value, due)]
  <2> HIDE DEF due, s, k
  <2> QED
    BY <1>1, <1>2, <1>3, PutEntryShows
<1>8. CacheAnswer(c)' = [kind |-> "done"] /\ acked' = acked
  <2>1. asked[c].cmd \in CacheCommands /\ asked[c].cmd \notin GetCommands
    BY <1>2, CacheOps DEF GetCommands, SetCommands
  <2> QED
    BY <1>1, <2>1, CacheReplies
<1>9. ServiceAnswer[c].kind = "pending" /\ ServiceAnswer' = [ServiceAnswer EXCEPT ![c] = [kind |-> "done"]]
  BY <1>1, <1>2, <1>8, AnswerShows
<1>10. CacheOp(asked[c].cmd) = "set"
  BY <1>2, CacheOps
<1>11. Service!Set(c)
  BY <1>3, <1>6, <1>7, <1>9, <1>10, ServiceActions
<1> QED
  BY <1>1, <1>3, <1>5, <1>8, <1>11

\* The same for a delete,
LEMMA DeleteStep ==
  ASSUME CallInv, CacheInv, NEW c \in Caller, CacheDelete(c)
  PROVE  CallInv' /\ CacheInv' /\ UNCHANGED <<meta, files>> /\ acked' = acked /\ Service!Delete(c)
<1> DEFINE s == StoreOf(asked[c].cmd)
           k == asked[c].key
           r == Answered("host", "value", <<>>)
<1>1. /\ Serving(c, DeleteCommands) /\ PutEntry(s, k, Absent, 0)
      /\ Finish(c, r) /\ UNCHANGED <<meta, files>>
  BY DEF CacheDelete, Returns, DeleteCommands
<1>2. at[c] = "admitted" /\ asked[c].cmd \in DeleteCommands /\ s \in Store /\ k \in CacheKey
  BY <1>1, CacheCall, CacheOps
<1>3. CallInv' /\ now' = now /\ asked' = asked
  BY <1>1, Finished
<1>4. CacheInv' /\ ServiceEntry' = [ServiceEntry EXCEPT ![s][k] = Shown(Absent, 0)]
  <2> HIDE DEF s, k
  <2>1. CacheInv'
    BY <1>1, <1>2, <1>3, PutEntryKeeps
  <2>2. ServiceEntry' = [ServiceEntry EXCEPT ![s][k] = Shown(Absent, 0)]
    BY <1>1, <1>2, <1>3, PutEntryShows
  <2> QED
    BY <2>1, <2>2
<1>5. Shown(Absent, 0) = Absent
  BY DEF Shown
<1>6. CacheAnswer(c)' = [kind |-> "done"] /\ acked' = acked
  <2>1. asked[c].cmd \in CacheCommands /\ asked[c].cmd \notin GetCommands
    BY <1>2, CacheOps DEF GetCommands, DeleteCommands
  <2> QED
    BY <1>1, <2>1, CacheReplies
<1>7. ServiceAnswer[c].kind = "pending" /\ ServiceAnswer' = [ServiceAnswer EXCEPT ![c] = [kind |-> "done"]]
  BY <1>1, <1>2, <1>6, AnswerShows
<1>8. CacheOp(asked[c].cmd) = "delete"
  BY <1>2, CacheOps
<1>9. Service!Delete(c)
  BY <1>3, <1>4, <1>5, <1>7, <1>8, ServiceActions
<1> QED
  BY <1>1, <1>3, <1>4, <1>6, <1>9

\* and for a read, that finds the entry, none, or one that expired.
LEMMA GetStep ==
  ASSUME CallInv, CacheInv, NEW c \in Caller, CacheGet(c)
  PROVE  CallInv' /\ CacheInv' /\ UNCHANGED <<meta, files>> /\ acked' = acked /\ Service!Get(c)
<1> DEFINE s == StoreOf(asked[c].cmd)
           k == asked[c].key
           e == ServiceEntry[s][k]
           absent == Answered("host", "NOT_FOUND", <<>>)
           found == Answered("host", "value", cache[s][k])
<1>1. Serving(c, GetCommands) /\ UNCHANGED <<meta, files>>
  BY DEF CacheGet, GetCommands
<1>2. at[c] = "admitted" /\ asked[c].cmd \in GetCommands /\ s \in Store /\ k \in CacheKey
  BY <1>1, CacheCall, CacheOps
<1>3. \/ Expired(s, k) /\ PutEntry(s, k, Absent, 0) /\ Finish(c, absent)
      \/ ~Expired(s, k) /\ UNCHANGED caches /\ cache[s][k] = Absent /\ Finish(c, absent)
      \/ ~Expired(s, k) /\ UNCHANGED caches /\ cache[s][k] # Absent /\ Finish(c, found)
  BY DEF CacheGet, Look, Returns, Refuses
<1>4. CallInv' /\ now' = now /\ asked' = asked
  BY <1>3, Finished
<1>5. CacheOp(asked[c].cmd) = "get" /\ asked[c].cmd \in CacheCommands
  BY <1>2, CacheOps
<1>6. e = Entry(s, k)
  BY <1>2 DEF ServiceEntry
<1>7. CASE Expired(s, k) /\ PutEntry(s, k, Absent, 0) /\ Finish(c, absent)
  <2>1. CacheInv'
    <3> HIDE DEF s, k
    <3> QED
      BY <1>2, <1>4, <1>7, PutEntryKeeps
  <2>2. ServiceEntry' = [ServiceEntry EXCEPT ![s][k] = Shown(Absent, 0)]
    <3> HIDE DEF s, k
    <3> QED
      BY <1>2, <1>4, <1>7, PutEntryShows
  <2>3. ~Service!Lives(e)
    BY <1>2, <1>6, <1>7, EntryLives
  <2>4. ServiceEntry' = [ServiceEntry EXCEPT ![s][k] = Absent]
    BY <2>2 DEF Shown
  <2>5. CacheAnswer(c)' = [kind |-> "absent"] /\ acked' = acked
    BY <1>5, <1>7, CacheReplies
  <2>6. ServiceAnswer[c].kind = "pending" /\ ServiceAnswer' = [ServiceAnswer EXCEPT ![c] = [kind |-> "absent"]]
    BY <1>2, <1>7, <2>5, AnswerShows
  <2>7. Service!Get(c)
    BY <1>4, <1>5, <2>3, <2>4, <2>6, ServiceActions
  <2> QED
    BY <1>1, <1>4, <2>1, <2>5, <2>7
<1>8. CASE ~Expired(s, k) /\ UNCHANGED caches /\ cache[s][k] = Absent /\ Finish(c, absent)
  <2>1. CacheInv' /\ ServiceEntry' = ServiceEntry
    BY <1>4, <1>8, EntriesStay DEF CacheInv, caches
  <2>2. ~Service!Lives(e)
    BY <1>6, <1>8 DEF Entry, Service!Lives
  <2>3. CacheAnswer(c)' = [kind |-> "absent"] /\ acked' = acked
    BY <1>5, <1>8, CacheReplies
  <2>4. ServiceAnswer[c].kind = "pending" /\ ServiceAnswer' = [ServiceAnswer EXCEPT ![c] = [kind |-> "absent"]]
    BY <1>2, <1>8, <2>3, AnswerShows
  <2>5. Service!Get(c)
    BY <1>4, <1>5, <2>1, <2>2, <2>4, ServiceActions
  <2> QED
    BY <1>1, <1>4, <2>1, <2>3, <2>5
<1>9. CASE ~Expired(s, k) /\ UNCHANGED caches /\ cache[s][k] # Absent /\ Finish(c, found)
  <2>1. CacheInv' /\ ServiceEntry' = ServiceEntry
    BY <1>4, <1>9, EntriesStay DEF CacheInv, caches
  <2>2. e = [value |-> cache[s][k], due |-> IF expiry[s][k] > 0 THEN expiry[s][k] ELSE Never]
    BY <1>6, <1>9 DEF Entry
  <2>3. e.value = cache[s][k] /\ Service!Lives(e)
    <3>1. Service!Lives(Entry(s, k))
      BY <1>2, <1>9, EntryLives
    <3> QED
      BY <1>6, <2>2, <3>1
  <2>4. CacheAnswer(c)' = [kind |-> "found", value |-> cache[s][k]] /\ acked' = acked
    BY <1>2, <1>5, <1>9, CacheReplies
  <2>5. /\ ServiceAnswer[c].kind = "pending"
        /\ ServiceAnswer' = [ServiceAnswer EXCEPT ![c] = [kind |-> "found", value |-> cache[s][k]]]
    BY <1>2, <1>9, <2>4, AnswerShows
  <2>6. Service!Get(c)
    BY <1>4, <1>5, <2>1, <2>3, <2>5, ServiceActions
  <2> QED
    BY <1>1, <1>4, <2>1, <2>4, <2>6
<1> QED
  BY <1>3, <1>7, <1>8, <1>9

\* The three together.
LEMMA CacheSteps ==
  ASSUME CallInv, CacheInv, NEW c \in Caller, CacheStep(c)
  PROVE  /\ CallInv' /\ CacheInv' /\ UNCHANGED <<meta, files>> /\ acked' = acked
         /\ Service!Get(c) \/ Service!Set(c) \/ Service!Delete(c)
BY GetStep, SetStep, DeleteStep DEF CacheStep

-----------------------------------------------------------------------------
(* Metadata and files *)

\* What is there, as acked writes it.
Present(m, f) == {<<"meta", k>> : k \in {k \in MetaKey : m[k] # Absent}}
                   \cup {<<"file", p>> : p \in {p \in Path : f[p] # Absent}}

\* A text, the empty one too, is not absence.
LEMMA ContentIsThere == \A v \in Content : v # Absent
  BY AbsentAssumption

\* Texts join to texts.
LEMMA Joined == <<>> \in Content /\ \A v, w \in Content : v \o w \in Content
  BY DEF Content

\* A metadata key written is there and all else is as it was,
LEMMA MetaWritten ==
  ASSUME MapInv, NEW k \in MetaKey, NEW v \in Content, meta' = [meta EXCEPT ![k] = v], files' = files
  PROVE  MapInv' /\ Present(meta', files') = Present(meta, files) \cup {<<"meta", k>>}
<1>1. MapInv' /\ meta'[k] # Absent /\ \A l \in MetaKey \ {k} : meta'[l] = meta[l]
  BY ContentIsThere DEF MapInv
<1> QED
  BY <1>1 DEF Present

\* so is a file,
LEMMA FileWritten ==
  ASSUME MapInv, NEW p \in Path, NEW v \in Content, files' = [files EXCEPT ![p] = v], meta' = meta
  PROVE  MapInv' /\ Present(meta', files') = Present(meta, files) \cup {<<"file", p>>}
<1>1. MapInv' /\ files'[p] # Absent /\ \A q \in Path \ {p} : files'[q] = files[q]
  BY ContentIsThere DEF MapInv
<1> QED
  BY <1>1 DEF Present

\* and a file deleted is the only thing gone.
LEMMA FileGone ==
  ASSUME MapInv, NEW p \in Path, files' = [files EXCEPT ![p] = Absent], meta' = meta
  PROVE  MapInv' /\ Present(meta', files') = Present(meta, files) \ {<<"file", p>>}
<1>1. MapInv' /\ files'[p] = Absent /\ \A q \in Path \ {p} : files'[q] = files[q]
  BY DEF MapInv
<1> QED
  BY <1>1 DEF Present

\* What each command writes is what its acknowledgement says.
LEMMA MapSteps ==
  ASSUME CallInv, MapInv, NEW c \in Caller, MapStep(c), AcknowledgedIsThere
  PROVE  /\ CallInv' /\ MapInv' /\ AcknowledgedIsThere' /\ UNCHANGED caches /\ now' = now
         /\ at[c] = "admitted" /\ ~FromCache(c)'
         /\ \E value : Finish(c, Answered("host", "value", value))
<1> DEFINE call == asked[c]
           r(value) == Answered("host", "value", value)
<1>1. /\ at[c] = "admitted" /\ UNCHANGED caches
      /\ call.cmd \in {"env.meta_set", "env.meta_append", "env.file_append", "env.file_write", "env.file_delete"}
      /\ Acceptable(call) /\ call \in Call
  BY DEF MapStep, MetaSet, MetaAppend, FileWrite, FileDelete, Serving, CallInv
<1>2. call.value \in Content
  BY <1>1, CallAssumption
<1>3. PICK value : Finish(c, r(value))
  BY DEF MapStep, MetaSet, MetaAppend, FileWrite, FileDelete, Returns
<1>4. CallInv' /\ now' = now /\ asked' = asked
  BY <1>3, Finished
<1>5. CacheOp(call.cmd) = "other"
  BY <1>1 DEF CacheOp, SetCommands
<1>6. ~FromCache(c)'
  BY <1>4, <1>5 DEF FromCache
<1>7. acked = Present(meta, files)
  BY DEF AcknowledgedIsThere, Present
<1>8. acked' = IF call.cmd = "env.meta_set" THEN acked \cup {<<"meta", call.key>>}
               ELSE IF call.cmd = "env.meta_append"
               THEN IF call.value # <<>> THEN acked \cup {<<"meta", BlockKey(call.index)>>} ELSE acked
               ELSE IF call.cmd = "env.file_delete" THEN acked \ {<<"file", call.key>>}
               ELSE acked \cup {<<"file", call.key>>}
  BY <1>1, <1>3 DEF Finish, Acknowledge, Answered
<1>9. acked' = Present(meta', files') => AcknowledgedIsThere'
  BY DEF AcknowledgedIsThere, Present
<1>10. CASE MetaSet(c)
  <2>1. call.cmd = "env.meta_set" /\ files' = files /\ meta' = [meta EXCEPT ![call.key] = call.value]
    BY <1>10 DEF MetaSet, Serving
  <2>2. call.key \in MetaKey
    <3>1. call.key # <<>>
      BY <1>1, <2>1 DEF Acceptable, KeyCommands, MetaCommands, CacheCommands, SetCommands, PathCommands, Verdicts
    <3> QED
      BY <1>1, <2>1, <3>1, CallAssumption DEF MetaCommands
  <2>3. MapInv' /\ Present(meta', files') = Present(meta, files) \cup {<<"meta", call.key>>}
    BY <1>2, <2>1, <2>2, MetaWritten
  <2> QED
    BY <1>1, <1>3, <1>4, <1>6, <1>7, <1>8, <1>9, <2>1, <2>3
<1>11. CASE MetaAppend(c)
  <2> DEFINE k == BlockKey(call.index)
             journal == IF meta[k] = Absent THEN <<>> ELSE meta[k]
  <2>1. /\ call.cmd = "env.meta_append" /\ files' = files
        /\ \/ call.value # <<>> /\ meta' = [meta EXCEPT ![k] = journal \o call.value]
           \/ call.value = <<>> /\ meta' = meta
    BY <1>11 DEF MetaAppend, Serving
  <2>2. k \in MetaKey
    <3>1. call.index >= 0
      BY <1>1, <2>1 DEF Acceptable, KeyCommands, MetaCommands, CacheCommands, SetCommands, PathCommands, Verdicts
    <3> QED
      BY <1>1, <2>1, <3>1, CallAssumption
  <2>3. journal \in Content /\ journal \o call.value \in Content
    <3>1. journal \in Content
      BY <2>2, Joined DEF MapInv
    <3> QED
      BY <1>2, <3>1, Joined
  <2>4. CASE call.value # <<>> /\ meta' = [meta EXCEPT ![k] = journal \o call.value]
    <3>1. MapInv' /\ Present(meta', files') = Present(meta, files) \cup {<<"meta", k>>}
      <4> HIDE DEF k, journal
      <4> QED
        BY <2>1, <2>2, <2>3, <2>4, MetaWritten
    <3> QED
      BY <1>1, <1>3, <1>4, <1>6, <1>7, <1>8, <1>9, <2>1, <2>4, <3>1
  <2>5. CASE call.value = <<>> /\ meta' = meta
    BY <1>1, <1>3, <1>4, <1>6, <1>7, <1>8, <1>9, <2>1, <2>5 DEF MapInv
  <2> QED
    BY <1>1, <1>3, <1>4, <1>6, <2>1, <2>4, <2>5
<1>12. ASSUME FileWrite(c) \/ FileDelete(c) PROVE call.key \in Path
  <2>1. call.cmd \in PathCommands
    BY <1>12 DEF FileWrite, FileDelete, Serving, PathCommands
  <2>2. LogicalPath(call.key)
    BY <1>1, <2>1 DEF Acceptable, PathCommands, KeyCommands, MetaCommands, CacheCommands, SetCommands, Verdicts
  <2> QED
    BY <1>1, <2>1, <2>2, CallAssumption
<1>13. CASE FileWrite(c)
  <2> DEFINE p == call.key
             before == IF call.cmd = "env.file_write" \/ files[p] = Absent THEN <<>> ELSE files[p]
  <2>1. /\ call.cmd \in {"env.file_append", "env.file_write"} /\ meta' = meta
        /\ files' = [files EXCEPT ![p] = before \o call.value]
    BY <1>13 DEF FileWrite, Serving
  <2>2. before \o call.value \in Content
    <3>1. before \in Content
      BY <1>12, <1>13, Joined DEF MapInv
    <3> QED
      BY <1>2, <3>1, Joined
  <2>3. MapInv' /\ Present(meta', files') = Present(meta, files) \cup {<<"file", p>>}
    <3>1. p \in Path
      BY <1>12, <1>13
    <3> HIDE DEF p, before
    <3> QED
      BY <2>1, <2>2, <3>1, FileWritten
  <2> QED
    BY <1>1, <1>3, <1>4, <1>6, <1>7, <1>8, <1>9, <2>1, <2>3
<1>14. CASE FileDelete(c)
  <2>1. call.cmd = "env.file_delete" /\ meta' = meta /\ files' = [files EXCEPT ![call.key] = Absent]
    BY <1>14 DEF FileDelete, Serving
  <2>2. MapInv' /\ Present(meta', files') = Present(meta, files) \ {<<"file", call.key>>}
    BY <1>12, <1>14, <2>1, FileGone
  <2> QED
    BY <1>1, <1>3, <1>4, <1>6, <1>7, <1>8, <1>9, <2>1, <2>2
<1> QED
  BY <1>1, <1>3, <1>4, <1>6, <1>10, <1>11, <1>13, <1>14 DEF MapStep

-----------------------------------------------------------------------------
(* Steps of the test, and of a call that is turned away or admitted *)

\* Steps that move neither the stores nor the calls.
Aside ==
  \/ \E p \in {"env.log", "env.emit_metric"} : Emit(p)
  \/ \E text \in Text : Provide(text)
  \/ \E cmd \in Stubbed, does \in Behaviour : StubHostCall(cmd, does)
  \/ WithManifest
  \/ \E h \in Dispatched : Dispatch(h)
  \/ Settle

\* They move none of what the results are about.
LEMMA AsideSteps ==
  ASSUME Aside
  PROVE  UNCHANGED <<caches, meta, files, now, callVars, acked>>
BY DEF Aside, Emit, Provide, StubHostCall, WithManifest, Dispatch, Settle

\* The gate answers or admits, and moves no store.
LEMMA IssueStep ==
  ASSUME CallInv, NEW c \in Caller, NEW call \in Call, Issue(c, call)
  PROVE  /\ CallInv' /\ UNCHANGED <<caches, meta, files, fixtures, now, acked>>
         /\ at[c] # "admitted"
         /\ \/ at'[c] = "admitted"
            \/ at'[c] = "done" /\ ~FromCache(c)'
         /\ \A d \in Caller \ {c} : at'[d] = at[d] /\ reply'[d] = reply[d] /\ asked'[d] = asked[d]
BY DEF CallInv, Issue, FromCache, Answered, NoReply

\* A seeded file is there, and known to be.
LEMMA SeedFileStep ==
  ASSUME MapInv, AcknowledgedIsThere, NEW p \in Path, NEW text \in Text, SeedFile(p, text)
  PROVE  MapInv' /\ AcknowledgedIsThere' /\ UNCHANGED <<caches, now, callVars, fixtures>>
<1>1. text \in Content /\ files' = [files EXCEPT ![p] = text] /\ acked' = acked \cup {<<"file", p>>}
  BY AbsentAssumption DEF SeedFile
<1>2. UNCHANGED <<meta, caches, now, callVars, fixtures>>
  BY DEF SeedFile
<1>3. MapInv' /\ Present(meta', files') = Present(meta, files) \cup {<<"file", p>>}
  BY <1>1, <1>2, FileWritten
<1>4. acked = Present(meta, files) /\ (acked' = Present(meta', files') => AcknowledgedIsThere')
  BY DEF AcknowledgedIsThere, Present
<1> QED
  BY <1>1, <1>2, <1>3, <1>4

\* A seed never makes an absent entry with a deadline: a text is there.
LEMMA SeedCacheStep ==
  ASSUME CacheInv, NEW s \in Store, NEW k \in CacheKey, NEW text \in Text, SeedCache(s, k, text)
  PROVE  CacheInv' /\ UNCHANGED <<meta, files, now, callVars, acked, fixtures>>
<1>1. text \in Content /\ text # Absent
  BY AbsentAssumption
<1> QED
  BY <1>1 DEF CacheInv, SeedCache

\* The clock moves nothing but itself.
LEMMA ClockStep ==
  ASSUME CacheInv, NEW t \in Time, SetNow(t)
  PROVE  CacheInv' /\ UNCHANGED <<caches, meta, files, callVars, acked, fixtures>>
BY TimeAssumption DEF CacheInv, SetNow, caches

-----------------------------------------------------------------------------
(* What was acknowledged is there *)

\* Every step is one of these.
LEMMA NextCases ==
  ASSUME Next
  PROVE  \/ Aside
         \/ \E c \in Caller, call \in Call : Issue(c, call)
         \/ \E c \in Caller : Quiet(c) \/ CacheStep(c) \/ MapStep(c)
         \/ \E t \in Time : SetNow(t)
         \/ \E s \in Store, k \in CacheKey, text \in Text : SeedCache(s, k, text)
         \/ \E p \in Path, text \in Text : SeedFile(p, text)
BY DEF Next, Aside, Serve, Quiet, CacheStep, MapStep

\* A quiet answer keeps the invariant.
LEMMA QuietStep ==
  ASSUME HostInv, NEW c \in Caller, Quiet(c)
  PROVE  HostInv'
<1>1. PICK r : Finish(c, r)
  BY QuietSteps
<1>2. CallInv' /\ now' = now
  BY <1>1, Finished DEF HostInv
<1>3. UNCHANGED <<caches, meta, files>> /\ acked' = acked
  BY QuietSteps, QuietAcknowledges
<1> QED
  BY <1>2, <1>3 DEF HostInv, CacheInv, MapInv, AcknowledgedIsThere, caches

\* The invariant holds at the start,
LEMMA HostInit == Init => HostInv
<1> SUFFICES ASSUME Init PROVE HostInv
  OBVIOUS
<1>1. CallInv
  BY DEF Init, CallInv
<1>2. CacheInv
  BY TimeAssumption DEF Init, CacheInv
<1>3. MapInv
  BY DEF Init, MapInv
<1>4. AcknowledgedIsThere
  BY DEF Init, AcknowledgedIsThere
<1> QED
  BY <1>1, <1>2, <1>3, <1>4 DEF HostInv

\* and every step keeps it.
LEMMA HostStep == HostInv /\ [Next]_vars => HostInv'
<1> SUFFICES ASSUME HostInv, [Next]_vars PROVE HostInv'
  OBVIOUS
<1>1. CASE Aside
  BY <1>1, AsideSteps DEF HostInv, CallInv, CacheInv, MapInv, AcknowledgedIsThere, caches, callVars
<1>2. ASSUME NEW c \in Caller, NEW call \in Call, Issue(c, call) PROVE HostInv'
  BY <1>2, IssueStep DEF HostInv, CacheInv, MapInv, AcknowledgedIsThere, caches
<1>3. ASSUME NEW c \in Caller, Quiet(c) PROVE HostInv'
  BY <1>3, QuietStep
<1>4. ASSUME NEW c \in Caller, CacheStep(c) PROVE HostInv'
  BY <1>4, CacheSteps DEF HostInv, MapInv, AcknowledgedIsThere
<1>5. ASSUME NEW c \in Caller, MapStep(c) PROVE HostInv'
  BY <1>5, MapSteps DEF HostInv, CacheInv, caches
<1>6. ASSUME NEW t \in Time, SetNow(t) PROVE HostInv'
  BY <1>6, ClockStep DEF HostInv, CallInv, MapInv, AcknowledgedIsThere, callVars
<1>7. ASSUME NEW s \in Store, NEW k \in CacheKey, NEW text \in Text, SeedCache(s, k, text) PROVE HostInv'
  BY <1>7, SeedCacheStep DEF HostInv, CallInv, MapInv, AcknowledgedIsThere, callVars
<1>8. ASSUME NEW p \in Path, NEW text \in Text, SeedFile(p, text) PROVE HostInv'
  BY <1>8, SeedFileStep DEF HostInv, CallInv, CacheInv, caches, callVars
<1>9. CASE UNCHANGED vars
  BY <1>9 DEF HostInv, CallInv, CacheInv, MapInv, AcknowledgedIsThere, vars, caches, callVars
<1> QED
  BY <1>1, <1>2, <1>3, <1>4, <1>5, <1>6, <1>7, <1>8, <1>9, NextCases

\* The invariant the results rest on.
THEOREM HostHolds == Spec => []HostInv
  BY HostInit, HostStep, PTL DEF Spec

\* What a plugin was told is written can be found until it is told it is
\* deleted, and nothing else can: for any goroutines, calls, stubs, gates and
\* seeds of a test.
THEOREM HostKeepsAcknowledged == Spec => []AcknowledgedIsThere
<1>1. HostInv => AcknowledgedIsThere
  BY DEF HostInv
<1> QED
  BY <1>1, HostHolds, PTL

-----------------------------------------------------------------------------
(* Refusals *)

\* What a step may do that answers c with a refusal.
TouchesNothing ==
  /\ UNCHANGED <<meta, files, fixtures>>
  /\ \A s \in Store, k \in CacheKey : cache'[s][k] = cache[s][k] \/ (cache'[s][k] = Absent /\ Expired(s, k))

\* A step that tells no call anything but a value is not a refusal.
LEMMA NotRefused ==
  ASSUME CallInv, NEW c \in Caller, NEW value, Finish(c, Answered("host", "value", value)),
         NEW d \in Caller, reply'[d] # reply[d]
  PROVE  reply'[d].status = "value"
<1>1. reply'[c] = Answered("host", "value", value) /\ \A e \in Caller \ {c} : reply'[e] = reply[e]
  BY Finished
<1>2. d = c
  BY <1>1
<1> QED
  BY <1>1, <1>2 DEF Answered

\* A cache refuses only a read, which may drop the expired entry it found.
LEMMA CacheRefusals ==
  ASSUME HostInv, NEW c \in Caller, CacheStep(c),
         NEW d \in Caller, reply'[d] # reply[d], reply'[d].status # "value"
  PROVE  TouchesNothing
<1>1. CallInv /\ CacheInv
  BY DEF HostInv
<1>2. CASE CacheSet(c) \/ CacheDelete(c)
  <2>1. Finish(c, Answered("host", "value", <<>>))
    BY <1>2 DEF CacheSet, CacheDelete, Returns
  <2> QED
    BY <1>1, <2>1, NotRefused
<1>3. CASE CacheGet(c)
  <2> DEFINE s == StoreOf(asked[c].cmd)
             k == asked[c].key
  <2>1. UNCHANGED <<meta, files>>
    BY <1>3 DEF CacheGet
  <2>2. \/ Expired(s, k) /\ PutEntry(s, k, Absent, 0)
        \/ UNCHANGED caches
    BY <1>3 DEF CacheGet
  <2>3. \E r : Finish(c, r)
    BY <1>3 DEF CacheGet, Look, Returns, Refuses
  <2>4. UNCHANGED fixtures
    BY <1>1, <2>3, Finished
  <2>5. \A t \in Store, l \in CacheKey : cache'[t][l] = cache[t][l] \/ (cache'[t][l] = Absent /\ Expired(t, l))
    <3>1. CASE UNCHANGED caches
      BY <3>1 DEF caches
    <3>2. CASE Expired(s, k) /\ PutEntry(s, k, Absent, 0)
      <4> HIDE DEF s, k
      <4> QED
        BY <1>1, <3>2 DEF PutEntry, CacheInv
    <3> QED
      BY <2>2, <3>1, <3>2
  <2> QED
    BY <2>1, <2>4, <2>5 DEF TouchesNothing
<1> QED
  BY <1>2, <1>3 DEF CacheStep

\* No step that refuses touches anything else.
LEMMA StepRefusals ==
  ASSUME HostInv, [Next]_vars, NEW d \in Caller, reply'[d] # reply[d], reply'[d].status # "value"
  PROVE  TouchesNothing
<1>1. CallInv /\ CacheInv /\ MapInv /\ AcknowledgedIsThere
  BY DEF HostInv
<1>2. CASE Aside
  BY <1>2, AsideSteps DEF callVars
<1>3. ASSUME NEW c \in Caller, NEW call \in Call, Issue(c, call) PROVE TouchesNothing
  BY <1>1, <1>3, IssueStep DEF TouchesNothing, caches
<1>4. ASSUME NEW c \in Caller, Quiet(c) PROVE TouchesNothing
  BY <1>1, <1>4, QuietSteps, Finished DEF TouchesNothing, caches
<1>5. ASSUME NEW c \in Caller, CacheStep(c) PROVE TouchesNothing
  BY <1>5, CacheRefusals
<1>6. ASSUME NEW c \in Caller, MapStep(c) PROVE TouchesNothing
  <2>1. \E value : Finish(c, Answered("host", "value", value))
    BY <1>1, <1>6, MapSteps
  <2> QED
    BY <1>1, <2>1, NotRefused
<1>7. ASSUME NEW t \in Time, SetNow(t) PROVE TouchesNothing
  BY <1>1, <1>7, ClockStep DEF callVars
<1>8. ASSUME NEW s \in Store, NEW k \in CacheKey, NEW text \in Text, SeedCache(s, k, text) PROVE TouchesNothing
  BY <1>1, <1>8, SeedCacheStep DEF callVars
<1>9. ASSUME NEW p \in Path, NEW text \in Text, SeedFile(p, text) PROVE TouchesNothing
  BY <1>1, <1>9, SeedFileStep DEF callVars
<1>10. CASE UNCHANGED vars
  BY <1>10 DEF vars, callVars
<1> QED
  BY <1>2, <1>3, <1>4, <1>5, <1>6, <1>7, <1>8, <1>9, <1>10, NextCases

\* A call that is refused, by the gate, a stub, its validation or a missing
\* key, changes nothing of the plugin's data but to drop an expired entry.
THEOREM HostRefusals == Spec => RefusalsTouchNothing
<1> DEFINE Refusals == \A c \in Caller : reply'[c] # reply[c] /\ reply'[c].status # "value" =>
              /\ UNCHANGED <<meta, files, fixtures>>
              /\ \A s \in Store, k \in CacheKey :
                   cache'[s][k] = cache[s][k] \/ (cache'[s][k] = Absent /\ Expired(s, k))
<1>1. HostInv /\ [Next]_vars => Refusals
  BY StepRefusals DEF TouchesNothing
<1>2. Spec => [][Refusals]_vars
  BY <1>1, HostHolds, PTL DEF Spec
<1> QED
  BY <1>2 DEF RefusalsTouchNothing

-----------------------------------------------------------------------------
(* The caches implement CacheService *)

\* A step that moves no cache and no call is no step of the service.
LEMMA ServiceStutters ==
  ASSUME UNCHANGED <<caches, now, callVars>>
  PROVE  UNCHANGED Service!cacheVars
BY DEF Service!cacheVars, caches, callVars, Entry, CacheAnswer, FromCache

\* A call issued is asked, and turned away at once or pending.
LEMMA IssueServes ==
  ASSUME HostInv, NEW c \in Caller, NEW call \in Call, Issue(c, call)
  PROVE  Service!Ask(c)
<1>1. /\ UNCHANGED <<caches, now>> /\ at[c] # "admitted"
      /\ at'[c] = "admitted" \/ (at'[c] = "done" /\ ~FromCache(c)')
      /\ \A d \in Caller \ {c} : at'[d] = at[d] /\ reply'[d] = reply[d] /\ asked'[d] = asked[d]
  BY IssueStep DEF HostInv
<1>2. ServiceEntry' = ServiceEntry
  BY <1>1, EntriesStay
<1>3. ServiceAnswer[c].kind # "pending"
  <2>1. CASE at[c] = "idle"
    BY <2>1 DEF ServiceAnswer, CacheAnswer
  <2>2. CASE at[c] = "done"
    BY <2>2 DEF ServiceAnswer, CacheAnswer, FromCache
  <2> QED
    BY <1>1, <2>1, <2>2 DEF HostInv, CallInv
<1>4. \E kind \in {"pending", "elsewhere"} : CacheAnswer(c)' = [kind |-> kind]
  BY <1>1 DEF CacheAnswer
<1>5. \A d \in Caller \ {c} : CacheAnswer(d)' = CacheAnswer(d)
  BY <1>1 DEF CacheAnswer, FromCache
<1>6. \E kind \in {"pending", "elsewhere"} : ServiceAnswer' = [ServiceAnswer EXCEPT ![c] = [kind |-> kind]]
  <2>1. ServiceAnswer' = [d \in Caller |-> CacheAnswer(d)']
    BY DEF ServiceAnswer
  <2> QED
    BY <1>4, <1>5, <2>1 DEF ServiceAnswer
<1>7. \A d \in Caller \ {c} : ServiceCall(d)' = ServiceCall(d)
  BY <1>1 DEF ServiceCall
<1>8. \A d \in Caller \ {c} : [e \in Caller |-> ServiceCall(e)]'[d] = [e \in Caller |-> ServiceCall(e)][d]
  BY <1>7
<1> QED
  BY <1>1, <1>2, <1>3, <1>6, <1>8 DEF Service!Ask, ServiceAnswer, ServiceEntry, ServiceCall

\* A call no cache answered shows in no cache.
LEMMA ElsewhereServes ==
  ASSUME HostInv, NEW c \in Caller, Quiet(c) \/ MapStep(c)
  PROVE  Service!Elsewhere(c)
<1>1. CallInv /\ CacheInv /\ MapInv /\ AcknowledgedIsThere
  BY DEF HostInv
<1>2. at[c] = "admitted" /\ UNCHANGED caches /\ ~FromCache(c)' /\ \E r : Finish(c, r)
  BY <1>1, QuietSteps, QuietIsElsewhere, MapSteps
<1>3. PICK r : Finish(c, r)
  BY <1>2
<1>4. at'[c] = "done" /\ now' = now /\ asked' = asked
  BY <1>1, <1>3, Finished
<1>5. CacheAnswer(c)' = [kind |-> "elsewhere"]
  BY <1>2, <1>4 DEF CacheAnswer
<1>6. ServiceAnswer[c].kind = "pending" /\ ServiceAnswer' = [ServiceAnswer EXCEPT ![c] = [kind |-> "elsewhere"]]
  BY <1>1, <1>2, <1>3, <1>5, AnswerShows
<1>7. ServiceEntry' = ServiceEntry
  BY <1>2, <1>4, EntriesStay
<1> QED
  BY <1>4, <1>6, <1>7, ServiceActions

\* The clock moves no entry, whichever way it is set.
LEMMA ClockServes ==
  ASSUME HostInv, NEW t \in Time, SetNow(t)
  PROVE  Service!SetClock
<1>1. UNCHANGED <<caches, callVars>>
  BY ClockStep DEF HostInv
<1>2. ServiceEntry' = ServiceEntry
  BY <1>1, EntriesStay
<1>3. ServiceAnswer' = ServiceAnswer /\ [c \in Caller |-> ServiceCall(c)]' = [c \in Caller |-> ServiceCall(c)]
  BY <1>1 DEF ServiceAnswer, CacheAnswer, FromCache, ServiceCall, callVars
<1> QED
  BY <1>2, <1>3 DEF Service!SetClock, ServiceEntry, ServiceAnswer, ServiceCall

\* A seed keeps the deadline of the entry it overwrites, and an entry that is
\* not there has none to leave it.
LEMMA SeedServes ==
  ASSUME HostInv, NEW s \in Store, NEW k \in CacheKey, NEW text \in Text, SeedCache(s, k, text)
  PROVE  Service!Seed(s, k)
<1>1. CacheInv /\ now' = now /\ UNCHANGED callVars /\ text \in Content /\ text # Absent
  BY SeedCacheStep, AbsentAssumption DEF HostInv
<1>2. PutEntry(s, k, text, expiry[s][k])
  BY <1>1 DEF SeedCache, PutEntry, CacheInv
<1>3. ServiceEntry' = [ServiceEntry EXCEPT ![s][k] = Shown(text, expiry[s][k])]
  BY <1>1, <1>2, PutEntryShows
<1>4. ServiceEntry'[s][k] = Shown(text, expiry[s][k]) /\ ServiceEntry[s][k] = Shown(cache[s][k], expiry[s][k])
  BY <1>3, EntryShows DEF ServiceEntry
<1>5. ServiceAnswer' = ServiceAnswer /\ [c \in Caller |-> ServiceCall(c)]' = [c \in Caller |-> ServiceCall(c)]
  BY <1>1 DEF ServiceAnswer, CacheAnswer, FromCache, ServiceCall, callVars
<1>6. /\ ServiceEntry'[s][k] # Absent
      /\ ServiceEntry'[s][k].due = IF ServiceEntry[s][k] = Absent THEN Never ELSE ServiceEntry[s][k].due
  <2> DEFINE due == IF expiry[s][k] > 0 THEN expiry[s][k] ELSE Never
  <2>1. expiry[s][k] \in Nat /\ cache[s][k] \in Content \cup {Absent}
    BY <1>1 DEF CacheInv
  <2>2. \A v \in Content : [value |-> v, due |-> due] # Absent
    <3>1. \A v \in Content : [value |-> v, due |-> due] \in [value : Content, due : Nat \cup {Never}]
      BY <2>1
    <3> QED
      BY <3>1, AbsentAssumption
  <2>3. ServiceEntry'[s][k] = [value |-> text, due |-> due]
    BY <1>1, <1>4 DEF Shown
  <2>4. CASE cache[s][k] = Absent
    <3>1. due = Never
      BY <1>1, <2>4 DEF CacheInv
    <3>2. ServiceEntry[s][k] = Absent
      BY <1>4, <2>4 DEF Shown
    <3> QED
      BY <1>1, <2>2, <2>3, <3>1, <3>2
  <2>5. CASE cache[s][k] # Absent
    <3>1. ServiceEntry[s][k] = [value |-> cache[s][k], due |-> due]
      BY <1>4, <2>5 DEF Shown
    <3> QED
      BY <1>1, <2>1, <2>2, <2>3, <2>5, <3>1
  <2> QED
    BY <2>4, <2>5
<1>7. ServiceEntry' = [ServiceEntry EXCEPT ![s][k] = ServiceEntry'[s][k]]
  BY <1>3, <1>4
<1> QED
  BY <1>1, <1>5, <1>6, <1>7 DEF Service!Seed, Service!Put, ServiceEntry, ServiceAnswer, ServiceCall

\* The caches start empty and nobody waits,
LEMMA ServiceInit == Init => Service!CacheInit
<1> SUFFICES ASSUME Init PROVE Service!CacheInit
  OBVIOUS
<1>1. \A s \in Store, k \in CacheKey : Entry(s, k) = Absent
  BY DEF Init, Entry
<1>2. \A c \in Caller : CacheAnswer(c) = [kind |-> "done"]
  BY DEF Init, CacheAnswer
<1> QED
  BY <1>1, <1>2 DEF Service!CacheInit

\* and every step is one of the service or shows in none of it.
LEMMA ServiceStep == HostInv /\ [Next]_vars => [Service!CacheNext]_Service!cacheVars
<1> SUFFICES ASSUME HostInv, [Next]_vars PROVE [Service!CacheNext]_Service!cacheVars
  OBVIOUS
<1>1. CallInv /\ CacheInv /\ MapInv /\ AcknowledgedIsThere
  BY DEF HostInv
<1>2. CASE Aside \/ UNCHANGED vars
  BY <1>2, AsideSteps, ServiceStutters DEF vars, caches, callVars
<1>3. ASSUME NEW c \in Caller, NEW call \in Call, Issue(c, call) PROVE Service!CacheNext
  BY <1>3, IssueServes DEF Service!CacheNext
<1>4. ASSUME NEW c \in Caller, Quiet(c) \/ MapStep(c) PROVE Service!CacheNext
  BY <1>4, ElsewhereServes DEF Service!CacheNext
<1>5. ASSUME NEW c \in Caller, CacheStep(c) PROVE Service!CacheNext
  BY <1>1, <1>5, CacheSteps DEF Service!CacheNext
<1>6. ASSUME NEW t \in Time, SetNow(t) PROVE Service!CacheNext
  BY <1>6, ClockServes DEF Service!CacheNext
<1>7. ASSUME NEW s \in Store, NEW k \in CacheKey, NEW text \in Text, SeedCache(s, k, text) PROVE Service!CacheNext
  BY <1>7, SeedServes DEF Service!CacheNext
<1>8. ASSUME NEW p \in Path, NEW text \in Text, SeedFile(p, text) PROVE UNCHANGED Service!cacheVars
  BY <1>1, <1>8, SeedFileStep, ServiceStutters
<1> QED
  BY <1>2, <1>3, <1>4, <1>5, <1>6, <1>7, <1>8, NextCases

\* Both caches keep CacheService's promise for every order of calls, stubs,
\* seeds and clock changes, although expiry is only noticed by a read.
THEOREM HostServesCaches == Spec => ServesCaches
<1>1. Init => Service!CacheInit
  BY ServiceInit
<1>2. HostInv /\ [Next]_vars => [Service!CacheNext]_Service!cacheVars
  BY ServiceStep
<1> QED
  BY <1>1, <1>2, HostHolds, PTL DEF Spec, ServesCaches, Service!CacheSpec
=============================================================================
