------------------------ MODULE SnapshotStore_proofs ------------------------
(***************************************************************************)
(* Proofs about SnapshotStore, for every number of writers and readers,    *)
(* every set of documents and any amount of memory: reference counts are   *)
(* exact, readers see what was published, reports form a chain.            *)
(***************************************************************************)
EXTENDS SnapshotStore, FiniteSetTheorems, SequenceTheorems, TLAPS

(* Who refers to handle h, and who is about to free it. *)
Users(hd, cur, h) == {r \in Readers : hd[r] = h} \union {o \in {Nobody} : cur = h}
Freeing(g, h) == {t \in Threads : g[t] = h}

(* RefcountExact for one handle. *)
Exact(hd, cur, g, rc, pl, h) ==
    /\ rc[h] = Cardinality(Users(hd, cur, h))
    /\ pl[h] # Nobody <=> (Users(hd, cur, h) # {} \/ Freeing(g, h) # {})
    /\ Freeing(g, h) # {} => Users(hd, cur, h) = {} /\ Cardinality(Freeing(g, h)) = 1

JobType == [path : {"load", "runtime"}, raw : Docs \union {NoCache}, value : [Fields -> Nat]]

(* A writer is inside the store only with the lock, and only one that has  *)
(* published, or a reader that has released, has something to free.        *)
Writing ==
    /\ job \in [Writers -> JobType \union {Nobody}] /\ DOMAIN result = Writers
    /\ \A w \in Writers : pc[w] # "idle" => /\ write_lock = w /\ job[w] \in JobType
                                            /\ pc[w] = "publish" => version < MaxVersion
    /\ \A w \in Writers : pc[w] # "commit" => garbage[w] = Nobody
    /\ \A r \in Readers : held[r] # Nobody => garbage[r] = Nobody

(* The current handle has the last payload, each held one that of its version. *)
Published ==
    /\ log \in Seq(Payloads) /\ payload \in [Handles -> Payloads \union {Nobody}]
    /\ current # Nobody => version >= 1 /\ payload[current] = log[version]
    /\ \A r \in Readers : held[r] # Nobody => /\ seen[r] \in 1..version
                                              /\ payload[held[r]] = log[seen[r]]

ValueAt(n) == IF n = 0 THEN Default ELSE log[n].value

(* working follows the log, one step late while a writer has yet to commit. *)
Following ==
    /\ (\A w \in Writers : pc[w] # "commit") => working = ValueAt(version)
    /\ \A w \in Writers : pc[w] = "commit" =>
         version >= 1 /\ log[version].value = job[w].value /\ working = ValueAt(version - 1)

(* Of what was reported, too, the version is in the log. *)
Reported == /\ \A w \in Writers : made[w] <= version
            /\ ReportIsDiff

(* ReportIsDiff for one writer. *)
Chained(k, m, res, lg, w) ==
    m[w] # 0 =>
      LET old == IF m[w] = 1 THEN Default ELSE lg[m[w] - 1].value
          new == lg[m[w]].value
      IN  res[w] = IF k = "config" THEN config_result(old, new) ELSE device_result(old, new)

(* The inductive invariant. *)
IInv == TypeOK /\ RefcountExact /\ Writing /\ Published /\ Following /\ Reported

LEMMA ExactDef ==
    RefcountExact <=> \A h \in Handles : Exact(held, current, garbage, refcount, payload, h)
BY Zenon DEF RefcountExact, Exact, Users, Freeing

LEMMA ExactAfter ==
    RefcountExact' <=> \A h \in Handles : Exact(held', current', garbage', refcount', payload', h)
BY Zenon DEF RefcountExact, Exact, Users, Freeing

LEMMA ReportDef ==
    ReportIsDiff <=> \A w \in Writers : Chained(kind, made, result, log, w)
BY Zenon DEF ReportIsDiff, Chained, apply_result

LEMMA ReportAfter ==
    ReportIsDiff' <=> \A w \in Writers : Chained(kind', made', result', log', w)
BY Zenon DEF ReportIsDiff, Chained, apply_result, config_result, device_result, Default

LEMMA ThreadsFinite ==
    ASSUME NEW hd, NEW cur, NEW g, NEW h
    PROVE  /\ IsFiniteSet(Users(hd, cur, h)) /\ Cardinality(Users(hd, cur, h)) \in Nat
           /\ Cardinality(Users(hd, cur, h)) = 0 <=> Users(hd, cur, h) = {}
           /\ IsFiniteSet(Freeing(g, h))
<1>1. IsFiniteSet(Readers \union {Nobody}) /\ IsFiniteSet(Threads)
  BY Zenon, ThreadsAssumption, FS_AddElement, FS_Union DEF Threads
<1>2. Users(hd, cur, h) \in SUBSET (Readers \union {Nobody}) /\ Freeing(g, h) \in SUBSET Threads
  BY Zenon DEF Users, Freeing
<1>3. IsFiniteSet(Users(hd, cur, h)) /\ IsFiniteSet(Freeing(g, h))
  BY Zenon, <1>1, <1>2, FS_Subset
<1> QED
  BY Zenon, <1>3, FS_CardinalityType, FS_EmptySet

(* A document is parsed into a value. *)
LEMMA Parses ==
    ASSUME NEW doc \in Docs \union {NoCache}
    PROVE  /\ Parse(doc, Default) \in [Fields -> Nat]
           /\ reset_stateful_fields(Parse(doc, Default)) \in [Fields -> Nat]
<1>1. \A f \in DOMAIN doc : doc[f] \in Nat
  BY Zenon, DocsAssumption DEF NoCache
<1>2. Parse(doc, Default) \in [Fields -> Nat]
  BY Zenon, <1>1 DEF Parse, Default
<1> QED
  BY Zenon, <1>2 DEF reset_stateful_fields, Fields

LEMMA InitInv == Init => IInv
<1> SUFFICES ASSUME Init PROVE IInv
  BY Zenon
<1>1. TypeOK
  <2>1. destroyed \in BOOLEAN
    BY Zenon DEF Init
  <2>2. /\ refcount \in [Handles -> Nat] /\ pc \in [Writers -> {"idle", "publish", "commit"}]
        /\ held \in [Readers -> Handles \union {Nobody}] /\ seen \in [Readers -> 0..MaxVersion]
        /\ garbage \in [Threads -> Handles \union {Nobody}] /\ made \in [Writers -> 0..MaxVersion]
        /\ working \in [Fields -> Nat] /\ version \in 0..MaxVersion
    BY VersionAssumption DEF Init, Default
  <2>3. Len(log) = version
    BY Zenon DEF Init
  <2> QED
    BY Zenon, <2>1, <2>2, <2>3 DEF Init, TypeOK
<1>2. RefcountExact
  <2> SUFFICES ASSUME NEW h \in Handles PROVE Exact(held, current, garbage, refcount, payload, h)
    BY Zenon, ExactDef
  <2>1. Users(held, current, h) = {} /\ Freeing(garbage, h) = {}
    BY Zenon, NobodyAssumption DEF Init, Users, Freeing
  <2> QED
    BY Zenon, <2>1, FS_EmptySet DEF Init, Exact
<1>3. Writing /\ Following
  BY Zenon DEF Init, Writing, Following, ValueAt, Threads
<1>4. Published
  BY DEF Init, Published
<1>5. Reported
  BY DEF Init, Reported, ReportIsDiff
<1> QED
  BY Zenon, <1>1, <1>2, <1>3, <1>4, <1>5 DEF IInv
-----------------------------------------------------------------------------
(* One lemma per action. *)

LEMMA LockStep ==
    ASSUME IInv, NEW w \in Writers, NEW path \in {"load", "runtime"},
           NEW raw \in Docs \union {NoCache}, NEW value \in [Fields -> Nat],
           lock_and_parse(w, path, raw, value)
    PROVE  IInv'
<1>0. /\ TypeOK /\ Writing /\ Published /\ Following /\ Reported /\ RefcountExact
      /\ UNCHANGED <<kind, working, made, result, owner_vars, reader_vars, log, destroyed>>
      /\ pc' = [pc EXCEPT ![w] = "publish"] /\ write_lock' = w /\ write_lock = Nobody
      /\ job' = [job EXCEPT ![w] = [path |-> path, raw |-> raw, value |-> value]]
      /\ version < MaxVersion /\ pc[w] = "idle"
  BY Zenon DEF IInv, lock_and_parse
<1>1. UNCHANGED <<current, version, refcount, payload, garbage, held, seen>>
  BY Zenon, <1>0 DEF owner_vars, reader_vars
<1>2. \A v \in Writers : pc[v] = "idle"
  BY Zenon, <1>0, NobodyAssumption DEF Writing
<1>3. TypeOK'
  BY Zenon, <1>0, <1>1 DEF TypeOK
<1>4. RefcountExact'
  BY Zenon, <1>0, <1>1, ExactDef, ExactAfter
<1>5. Writing'
  <2>1. pc'[w] = "publish" /\ \A v \in Writers \ {w} : pc'[v] = "idle"
    BY Zenon, <1>0, <1>2 DEF TypeOK
  <2>2. job' \in [Writers -> JobType \union {Nobody}] /\ job'[w] \in JobType
    <3>1. [path |-> path, raw |-> raw, value |-> value] \in JobType
      BY Zenon DEF JobType
    <3> QED
      BY Zenon, <1>0, <3>1 DEF Writing
  <2> QED
    BY Zenon, <1>0, <1>1, <1>2, <2>1, <2>2 DEF Writing
<1>6. Published' /\ Reported'
  BY <1>0, <1>1 DEF Published, Reported, ReportIsDiff, apply_result, config_result, device_result
<1>7. Following'
  BY Zenon, <1>0, <1>1, <1>2 DEF Following, ValueAt, TypeOK
<1> QED
  BY Zenon, <1>3, <1>4, <1>5, <1>6, <1>7 DEF IInv

(* publish: h is new, and the one that was current loses a reference. *)
LEMMA PublishCounts ==
    ASSUME TypeOK, RefcountExact, payload \in [Handles -> Payloads \union {Nobody}], NEW w \in Writers, garbage[w] = Nobody,
           NEW h \in Handles, NEW p \in Payloads, publish(w, h, p), held' = held
    PROVE  /\ RefcountExact'
           /\ refcount' \in [Handles -> Nat] /\ garbage' \in [Threads -> Handles \union {Nobody}]
           /\ \A t \in Threads \ {w} : garbage'[t] = garbage[t]
           /\ current # h /\ \A r \in Readers : held[r] # h
<1>0. /\ current \in Handles \union {Nobody} /\ refcount \in [Handles -> Nat]
      /\ held \in [Readers -> Handles \union {Nobody}]
      /\ garbage \in [Threads -> Handles \union {Nobody}]
      /\ Nobody \notin Handles /\ Nobody \notin Readers /\ Nobody # p /\ w \in Threads
      /\ payload[h] = Nobody /\ current' = h
      /\ payload' = [payload EXCEPT ![h] = p]
  BY Zenon, NobodyAssumption, PayloadsAssumption DEF TypeOK, publish, Threads
<1>1. \A x \in Handles : Exact(held, current, garbage, refcount, payload, x)
  BY Zenon, ExactDef
<1>2. Users(held, current, h) = {} /\ Freeing(garbage, h) = {}
  BY Zenon, <1>0, <1>1 DEF Exact
<1>3. current # h /\ \A r \in Readers : held[r] # h
  BY Zenon, <1>2 DEF Users
<1>4. Users(held, h, h) = {Nobody} /\ Cardinality({Nobody}) = 1
  BY Zenon, <1>3, FS_Singleton DEF Users
<1>5. CASE current = Nobody
  <2>1. refcount' = [refcount EXCEPT ![h] = 1] /\ garbage' = garbage
    BY Zenon, <1>5 DEF publish
  <2>2. ASSUME NEW x \in Handles PROVE Exact(held, h, garbage, refcount', payload', x)
    <3>1. CASE x = h
      BY Zenon, <1>0, <1>2, <1>4, <2>1, <3>1 DEF Exact, publish
    <3>2. CASE x # h
      <4>1. Users(held, h, x) = Users(held, current, x) /\ refcount'[x] = refcount[x]
        BY Zenon, <1>0, <1>5, <2>1, <3>2 DEF Users
      <4>2. payload'[x] # Nobody <=> payload[x] # Nobody
        BY Zenon, <3>2 DEF publish
      <4> QED
        BY Zenon, <1>1, <4>1, <4>2 DEF Exact
    <3> QED
      BY Zenon, <3>1, <3>2
  <2> QED
    BY Zenon, <1>0, <1>3, <2>1, <2>2, ExactAfter
<1>6. CASE current # Nobody
  <2> DEFINE last == IF refcount[current] = 1 THEN current ELSE Nobody
  <2>0. current \in Handles
    BY Zenon, <1>0, <1>6
  <2>1. /\ refcount' = [refcount EXCEPT ![h] = 1, ![current] = refcount[current] - 1]
        /\ garbage' = [garbage EXCEPT ![w] = last]
    BY Zenon, <1>0, <1>3, <1>6, <2>0 DEF publish, unref_locked
  <2>2. /\ Nobody \in Users(held, current, current)
        /\ Users(held, h, current) = Users(held, current, current) \ {Nobody}
    BY Zenon, <1>0, <1>3 DEF Users
  <2>3. /\ Cardinality(Users(held, h, current)) = Cardinality(Users(held, current, current)) - 1
        /\ refcount[current] = Cardinality(Users(held, current, current))
        /\ refcount[current] \in Nat
        /\ Cardinality(Users(held, h, current)) \in Nat
        /\ (Cardinality(Users(held, h, current)) = 0 <=> Users(held, h, current) = {})
    <3>1. refcount[current] = Cardinality(Users(held, current, current)) /\ refcount[current] \in Nat
      BY Zenon, <1>0, <1>1, <2>0 DEF Exact
    <3>2. IsFiniteSet(Users(held, current, current))
      BY Zenon, ThreadsFinite
    <3>3. Cardinality(Users(held, current, current) \ {Nobody}) = Cardinality(Users(held, current, current)) - 1
      BY Zenon, <2>2, <3>2, FS_RemoveElement
    <3> QED
      BY Zenon, <2>2, <3>1, <3>3, ThreadsFinite
  <2>4. Freeing(garbage, current) = {} /\ payload[current] # Nobody
    BY Zenon, <1>1, <2>0, <2>2 DEF Exact
  <2>5. refcount' \in [Handles -> Nat] /\ garbage' \in [Threads -> Handles \union {Nobody}]
    BY Zenon, <1>0, <2>0, <2>1, <2>3
  <2>6. ASSUME NEW x \in Handles PROVE Exact(held, h, garbage', refcount', payload', x)
    <3>1. CASE x = h
      <4>1. Freeing(garbage', h) = {}
        BY Zenon, <1>0, <1>2, <1>3, <2>1 DEF Freeing
      <4> QED
        BY Zenon, <1>0, <1>3, <1>4, <2>1, <3>1, <4>1 DEF Exact, publish
    <3>2. CASE x = current
      <4>1. refcount'[x] = Cardinality(Users(held, h, x))
        BY Zenon, <1>0, <1>3, <2>1, <2>3, <3>2
      <4>2. payload'[x] # Nobody
        BY Zenon, <1>3, <2>4, <3>2 DEF publish
      <4>3. CASE refcount[current] = 1
        <5>1. Freeing(garbage', x) = {w}
          BY <1>0, <2>1, <2>4, <3>2, <4>3 DEF Freeing
        <5>2. Users(held, h, x) = {}
          BY <2>3, <3>2, <4>3
        <5> QED
          BY Zenon, <4>1, <4>2, <5>1, <5>2, FS_Singleton DEF Exact
      <4>4. CASE refcount[current] # 1
        <5>1. Freeing(garbage', x) = {}
          BY Zenon, <1>0, <2>1, <2>4, <3>2, <4>4 DEF Freeing
        <5>2. Users(held, h, x) # {}
          BY <2>3, <3>2, <4>4
        <5> QED
          BY Zenon, <4>1, <4>2, <5>1, <5>2 DEF Exact
      <4> QED
        BY Zenon, <4>3, <4>4
    <3>3. CASE x # h /\ x # current
      <4>1. Users(held, h, x) = Users(held, current, x) /\ refcount'[x] = refcount[x]
        BY Zenon, <1>0, <2>1, <3>3 DEF Users
      <4>2. payload'[x] # Nobody <=> payload[x] # Nobody
        BY Zenon, <3>3 DEF publish
      <4>3. Freeing(garbage', x) = Freeing(garbage, x)
        BY Zenon, <1>0, <2>1, <3>3 DEF Freeing
      <4> QED
        BY Zenon, <1>1, <4>1, <4>2, <4>3 DEF Exact
    <3> QED
      BY Zenon, <3>1, <3>2, <3>3
  <2> QED
    BY Zenon, <1>0, <1>3, <2>1, <2>5, <2>6, ExactAfter
<1> QED
  BY Zenon, <1>5, <1>6

LEMMA PublishStep == ASSUME IInv, NEW w \in Writers, store_publish(w) PROVE IInv'
<1> DEFINE p == payload_create(job[w])
<1>0. /\ TypeOK /\ Writing /\ Published /\ Following /\ Reported /\ RefcountExact
      /\ UNCHANGED <<kind, write_lock, working, job, made, result, reader_vars, destroyed>>
      /\ pc[w] = "publish" /\ pc' = [pc EXCEPT ![w] = "commit"] /\ log' = Append(log, p)
      /\ payload \in [Handles -> Payloads \union {Nobody}] /\ log \in Seq(Payloads)
  BY Zenon DEF IInv, store_publish, Published
<1>1. /\ UNCHANGED <<held, seen>> /\ garbage[w] = Nobody /\ write_lock = w /\ job[w] \in JobType
      /\ version < MaxVersion /\ version \in Nat /\ Len(log) = version /\ Nobody \notin Handles
      /\ current \in Handles \union {Nobody}
      /\ \A v \in Writers \ {w} : pc[v] = "idle"
  BY <1>0, NobodyAssumption, VersionAssumption DEF reader_vars, Writing, TypeOK
<1>2. p \in Payloads /\ p.value = job[w].value
  BY Zenon, <1>1 DEF payload_create, JobType, Payloads
<1> HIDE DEF p
<1>3. PICK h \in Handles : publish(w, h, p)
  BY Zenon DEF store_publish, p
<1>4. /\ RefcountExact'
      /\ refcount' \in [Handles -> Nat] /\ garbage' \in [Threads -> Handles \union {Nobody}]
      /\ \A t \in Threads \ {w} : garbage'[t] = garbage[t]
      /\ current # h /\ \A r \in Readers : held[r] # h
  BY Zenon, <1>0, <1>1, <1>2, <1>3, PublishCounts
<1>5. /\ current' = h /\ version' = version + 1 /\ payload' = [payload EXCEPT ![h] = p]
  BY Zenon, <1>3 DEF publish
<1>6. /\ log' \in Seq(Payloads) /\ Len(log') = version' /\ log'[version'] = p
      /\ \A i \in 1..version : log'[i] = log[i]
  BY <1>0, <1>1, <1>2, <1>5
<1>7. pc' \in [Writers -> {"idle", "publish", "commit"}] /\ pc'[w] = "commit"
      /\ \A v \in Writers \ {w} : pc'[v] = "idle"
  BY Zenon, <1>0, <1>1 DEF TypeOK
<1>8. TypeOK'
  BY <1>0, <1>1, <1>4, <1>5, <1>6, <1>7, VersionAssumption DEF TypeOK
<1>9. Writing'
  <2>1. \A t \in Threads \ {w} : garbage[t] = Nobody => garbage'[t] = Nobody
    BY Zenon, <1>4
  <2>2. w \notin Readers /\ Readers \subseteq Threads /\ Writers \subseteq Threads
    BY Zenon, ThreadsAssumption DEF Threads
  <2> QED
    BY Zenon, <1>0, <1>1, <1>7, <2>1, <2>2 DEF Writing
<1>10. Published'
  <2>1. payload' \in [Handles -> Payloads \union {Nobody}] /\ payload'[h] = p
        /\ \A x \in Handles \ {h} : payload'[x] = payload[x]
    BY Zenon, <1>0, <1>2, <1>5
  <2>2. ASSUME NEW r \in Readers, held[r] # Nobody
        PROVE  seen[r] \in 1..version' /\ payload'[held[r]] = log'[seen[r]]
    <3>1. seen[r] \in 1..version /\ payload[held[r]] = log[seen[r]]
      BY Zenon, <1>0, <2>2 DEF Published
    <3>2. held[r] \in Handles \ {h}
      BY Zenon, <1>0, <1>4, <2>2 DEF TypeOK
    <3> QED
      BY <1>1, <1>5, <1>6, <2>1, <3>1, <3>2
  <2> QED
    BY <1>1, <1>5, <1>6, <2>1, <2>2 DEF Published
<1>11. Following'
  <2>1. working = ValueAt(version)
    BY Zenon, <1>0, <1>1 DEF Following
  <2>2. (ValueAt(version - 1))' = ValueAt(version)
    BY <1>1, <1>5, <1>6 DEF ValueAt, Default
  <2> QED
    BY <1>0, <1>1, <1>2, <1>5, <1>6, <1>7, <2>1, <2>2 DEF Following
<1>12. Reported'
  <2>1. \A v \in Writers : made[v] \in Nat /\ made[v] <= version
    BY <1>0, VersionAssumption DEF Reported, TypeOK
  <2>2. ASSUME NEW v \in Writers PROVE Chained(kind, made, result, log', v)
    <3>1. made[v] # 0 => log'[made[v]] = log[made[v]] /\ (made[v] # 1 => log'[made[v] - 1] = log[made[v] - 1])
      BY <1>1, <1>6, <2>1
    <3>2. Chained(kind, made, result, log, v)
      BY Zenon, <1>0, ReportDef DEF Reported
    <3> QED
      BY <3>1, <3>2, Zenon DEF Chained
  <2>3. ReportIsDiff'
    BY Zenon, <1>0, <2>2, ReportAfter
  <2>4. \A v \in Writers : made[v] <= version'
    BY <1>1, <1>5, <2>1
  <2> QED
    BY Zenon, <1>0, <2>3, <2>4 DEF Reported
<1> QED
  BY Zenon, <1>4, <1>8, <1>9, <1>10, <1>11, <1>12 DEF IInv

LEMMA PublishFailsStep == ASSUME IInv, NEW w \in Writers, store_publish_fails(w) PROVE IInv'
<1>0. /\ TypeOK /\ Writing /\ Published /\ Following /\ Reported /\ RefcountExact
      /\ UNCHANGED <<kind, owner_vars, working, made, result, reader_vars, log, destroyed>>
      /\ pc[w] = "publish" /\ pc' = [pc EXCEPT ![w] = "idle"] /\ write_lock' = Nobody
      /\ job' = [job EXCEPT ![w] = Nobody]
  BY Zenon DEF IInv, store_publish_fails
<1>1. /\ UNCHANGED <<current, version, refcount, payload, garbage, held, seen>> /\ write_lock = w
      /\ \A v \in Writers \ {w} : pc[v] = "idle"
  BY Zenon, <1>0 DEF owner_vars, reader_vars, Writing, TypeOK
<1>2. pc' \in [Writers -> {"idle", "publish", "commit"}] /\ \A v \in Writers : pc'[v] = "idle"
  BY Zenon, <1>0, <1>1 DEF TypeOK
<1>3. TypeOK'
  BY Zenon, <1>0, <1>1, <1>2 DEF TypeOK
<1>4. RefcountExact'
  BY Zenon, <1>0, <1>1, ExactDef, ExactAfter
<1>5. Writing'
  BY Zenon, <1>0, <1>1, <1>2 DEF Writing
<1>6. Published' /\ Reported'
  BY Zenon, <1>0, <1>1 DEF Published, Reported, ReportIsDiff, apply_result, config_result, device_result
<1>7. Following'
  BY Zenon, <1>0, <1>1, <1>2 DEF Following, ValueAt
<1> QED
  BY Zenon, <1>3, <1>4, <1>5, <1>6, <1>7 DEF IInv

LEMMA CommitStep == ASSUME IInv, NEW w \in Writers, commit(w) PROVE IInv'
<1>0. /\ TypeOK /\ Writing /\ Published /\ Following /\ Reported /\ RefcountExact
      /\ UNCHANGED <<kind, owner_vars, reader_vars, log, destroyed>> /\ garbage[w] = Nobody
      /\ pc[w] = "commit" /\ pc' = [pc EXCEPT ![w] = "idle"] /\ write_lock' = Nobody
      /\ job' = [job EXCEPT ![w] = Nobody] /\ working' = job[w].value
      /\ \/ /\ result' = [result EXCEPT ![w] = apply_result(working, job[w].value)]
            /\ made' = [made EXCEPT ![w] = version]
         \/ UNCHANGED <<made, result>>
  BY Zenon DEF IInv, commit
<1>1. /\ UNCHANGED <<current, version, refcount, payload, garbage, held, seen>> /\ write_lock = w
      /\ \A v \in Writers \ {w} : pc[v] = "idle"
      /\ job[w].value \in [Fields -> Nat] /\ version \in 0..MaxVersion
  BY Zenon, <1>0 DEF owner_vars, reader_vars, Writing, TypeOK, JobType
<1>2. pc' \in [Writers -> {"idle", "publish", "commit"}] /\ \A v \in Writers : pc'[v] = "idle"
  BY Zenon, <1>0, <1>1 DEF TypeOK
<1>3. TypeOK'
  <2>1. made' \in [Writers -> 0..MaxVersion]
    BY Zenon, <1>0, <1>1 DEF TypeOK
  <2> QED
    BY Zenon, <1>0, <1>1, <1>2, <2>1 DEF TypeOK
<1>4. RefcountExact'
  BY Zenon, <1>0, <1>1, ExactDef, ExactAfter
<1>5. Writing'
  <2>1. DOMAIN result' = Writers
    BY Zenon, <1>0 DEF Writing
  <2> QED
    BY Zenon, <1>0, <1>1, <1>2, <2>1 DEF Writing
<1>6. Published'
  BY Zenon, <1>0, <1>1 DEF Published
<1>7. version >= 1 /\ log[version].value = job[w].value /\ working = ValueAt(version - 1)
  BY Zenon, <1>0 DEF Following
<1>8. Following'
  <2>1. ValueAt(version)' = job[w].value
    BY <1>0, <1>1, <1>7, VersionAssumption DEF ValueAt
  <2> QED
    BY Zenon, <1>0, <1>2, <2>1 DEF Following
<1>9. Reported'
  <2>1. ASSUME NEW v \in Writers
        PROVE  made'[v] <= version /\ Chained(kind, made', result', log, v)
    <3>1. CASE made'[v] = made[v] /\ result'[v] = result[v]
      BY Zenon, <1>0, <3>1, ReportDef DEF Reported, Chained
    <3>2. CASE made'[v] = version /\ result'[v] = apply_result(working, job[w].value)
      <4>1. working = IF version = 1 THEN Default ELSE log[version - 1].value
        BY <1>1, <1>7, VersionAssumption DEF ValueAt
      <4>2. Chained(kind, made', result', log, v)
        BY <1>7, <3>2, <4>1, Zenon DEF Chained, apply_result
      <4> QED
        BY <1>1, <3>2, <4>2, VersionAssumption
    <3> QED
      BY Zenon, <1>0, <3>1, <3>2 DEF TypeOK, Writing
  <2> QED
    BY Zenon, <1>0, <1>1, <2>1, ReportAfter DEF Reported
<1> QED
  BY Zenon, <1>3, <1>4, <1>5, <1>6, <1>8, <1>9 DEF IInv

(* What every step of a reader, and every free, leaves alone. *)
LEMMA StoreUnchanged ==
    ASSUME Following, Reported, UNCHANGED <<kind, version, writer_vars, log>>
    PROVE  Following' /\ Reported'
<1>1. UNCHANGED <<write_lock, working, pc, job, made, result>>
  BY Zenon DEF writer_vars
<1>2. Following'
  BY Zenon, <1>1 DEF Following, ValueAt
<1>3. Reported'
  BY Zenon, <1>1, ReportDef, ReportAfter DEF Reported
<1> QED
  BY Zenon, <1>2, <1>3

LEMMA AcquireStep == ASSUME IInv, NEW r \in Readers, acquire(r) PROVE IInv'
<1>0. /\ TypeOK /\ Writing /\ Published /\ Following /\ Reported /\ RefcountExact
      /\ UNCHANGED <<kind, current, version, payload, garbage, writer_vars, log, destroyed>>
      /\ held[r] = Nobody /\ garbage[r] = Nobody
      /\ held' = [held EXCEPT ![r] = current] /\ seen' = [seen EXCEPT ![r] = version]
      /\ refcount' = IF current = Nobody THEN refcount ELSE [refcount EXCEPT ![current] = @ + 1]
  BY Zenon DEF IInv, acquire
<1>1. /\ UNCHANGED <<write_lock, working, pc, job, made, result>>
      /\ current \in Handles \union {Nobody} /\ held \in [Readers -> Handles \union {Nobody}]
      /\ refcount \in [Handles -> Nat] /\ version \in 0..MaxVersion /\ version \in Nat
      /\ Nobody \notin Handles /\ Nobody \notin Readers
  BY <1>0, NobodyAssumption, VersionAssumption DEF writer_vars, TypeOK
<1>2. /\ held' \in [Readers -> Handles \union {Nobody}] /\ seen' \in [Readers -> 0..MaxVersion]
      /\ refcount' \in [Handles -> Nat] /\ held'[r] = current /\ seen'[r] = version
      /\ \A x \in Readers \ {r} : held'[x] = held[x] /\ seen'[x] = seen[x]
  BY <1>0, <1>1 DEF TypeOK
<1>3. TypeOK'
  BY Zenon, <1>0, <1>1, <1>2 DEF TypeOK
<1>4. RefcountExact'
  <2>0. \A h \in Handles : Exact(held, current, garbage, refcount, payload, h)
    BY Zenon, <1>0, ExactDef
  <2> SUFFICES ASSUME NEW h \in Handles
               PROVE  Exact(held', current, garbage, refcount', payload, h)
    BY ZenonT(30), <1>0, ExactAfter
  <2>1. CASE h # current
    <3>1. Users(held', current, h) = Users(held, current, h) /\ refcount'[h] = refcount[h]
      BY <1>0, <1>1, <1>2, <2>1 DEF Users
    <3> QED
      BY Zenon, <2>0, <3>1 DEF Exact
  <2>2. CASE h = current
    <3>1. /\ Users(held', current, h) = Users(held, current, h) \union {r}
          /\ r \notin Users(held, current, h) /\ Users(held, current, h) # {}
      BY <1>0, <1>1, <1>2, <2>2 DEF Users
    <3>2. refcount'[h] = refcount[h] + 1
      BY Zenon, <1>0, <1>1, <2>2
    <3>3. IsFiniteSet(Users(held, current, h))
      BY Zenon, ThreadsFinite
    <3>4. Cardinality(Users(held, current, h) \union {r}) = Cardinality(Users(held, current, h)) + 1
      BY Zenon, <3>1, <3>3, FS_AddElement
    <3> QED
      BY Zenon, <2>0, <3>1, <3>2, <3>4 DEF Exact
  <2> QED
    BY Zenon, <2>1, <2>2
<1>5. Writing'
  BY Zenon, <1>0, <1>1, <1>2 DEF Writing
<1>6. Published'
  BY <1>0, <1>1, <1>2 DEF Published
<1> QED
  BY Zenon, <1>0, <1>3, <1>4, <1>5, <1>6, StoreUnchanged DEF IInv

LEMMA ReleaseStep == ASSUME IInv, NEW r \in Readers, release(r) PROVE IInv'
<1> DEFINE g == held[r]
           last == IF refcount[g] = 1 THEN g ELSE Nobody
<1>0. /\ TypeOK /\ Writing /\ Published /\ Following /\ Reported /\ RefcountExact
      /\ UNCHANGED <<kind, current, version, payload, seen, writer_vars, log, destroyed>>
      /\ g # Nobody /\ held' = [held EXCEPT ![r] = Nobody]
      /\ refcount' = [refcount EXCEPT ![g] = refcount[g] - 1]
      /\ garbage' = [garbage EXCEPT ![r] = last]
  BY Zenon DEF IInv, release, unref_locked
<1>1. /\ UNCHANGED <<write_lock, working, pc, job, made, result>>
      /\ current \in Handles \union {Nobody} /\ held \in [Readers -> Handles \union {Nobody}]
      /\ refcount \in [Handles -> Nat] /\ garbage \in [Threads -> Handles \union {Nobody}]
      /\ g \in Handles /\ garbage[r] = Nobody /\ r \in Threads /\ r \notin Writers
      /\ Nobody \notin Handles /\ Nobody \notin Readers
  BY Zenon, <1>0, NobodyAssumption, ThreadsAssumption DEF writer_vars, TypeOK, Writing, Threads
<1>2. /\ held' \in [Readers -> Handles \union {Nobody}] /\ held'[r] = Nobody
      /\ \A x \in Readers \ {r} : held'[x] = held[x]
      /\ garbage' \in [Threads -> Handles \union {Nobody}] /\ garbage'[r] = last
      /\ \A t \in Threads \ {r} : garbage'[t] = garbage[t]
  BY Zenon, <1>0, <1>1
<1>3. \A h \in Handles : Exact(held, current, garbage, refcount, payload, h)
  BY Zenon, <1>0, ExactDef
<1>4. /\ r \in Users(held, current, g) /\ Users(held', current, g) = Users(held, current, g) \ {r}
      /\ Freeing(garbage, g) = {} /\ payload[g] # Nobody
      /\ refcount[g] = Cardinality(Users(held, current, g))
  <2>1. r \in Users(held, current, g) /\ Users(held', current, g) = Users(held, current, g) \ {r}
    BY SMTT(30), <1>1, <1>2 DEF Users
  <2> QED
    BY Zenon, <1>1, <1>3, <2>1 DEF Exact
<1>5. /\ Cardinality(Users(held', current, g)) = refcount[g] - 1 /\ refcount[g] \in Nat
      /\ Cardinality(Users(held', current, g)) \in Nat
      /\ (Cardinality(Users(held', current, g)) = 0 <=> Users(held', current, g) = {})
  <2>1. IsFiniteSet(Users(held, current, g))
    BY Zenon, ThreadsFinite
  <2>2. Cardinality(Users(held, current, g) \ {r}) = Cardinality(Users(held, current, g)) - 1
    BY Zenon, <1>4, <2>1, FS_RemoveElement
  <2> QED
    BY Zenon, <1>1, <1>4, <2>2, ThreadsFinite
<1>6. refcount' \in [Handles -> Nat] /\ refcount'[g] = refcount[g] - 1
      /\ \A h \in Handles \ {g} : refcount'[h] = refcount[h]
  BY Zenon, <1>0, <1>1, <1>5
<1>7. TypeOK'
  BY Zenon, <1>0, <1>1, <1>2, <1>6 DEF TypeOK
<1>8. RefcountExact'
  <2> SUFFICES ASSUME NEW h \in Handles
               PROVE  Exact(held', current, garbage', refcount', payload, h)
    BY Zenon, <1>0, ExactAfter
  <2>1. CASE h # g
    <3>1. Users(held', current, h) = Users(held, current, h) /\ Freeing(garbage', h) = Freeing(garbage, h)
      BY <1>1, <1>2, <2>1 DEF Users, Freeing
    <3> QED
      BY Zenon, <1>3, <1>6, <2>1, <3>1 DEF Exact
  <2>2. CASE h = g /\ refcount[g] = 1
    <3>1. Freeing(garbage', h) = {r} /\ Users(held', current, h) = {}
      BY <1>1, <1>2, <1>4, <1>5, <2>2 DEF Freeing
    <3> QED
      BY Zenon, <1>4, <1>5, <1>6, <2>2, <3>1, FS_Singleton DEF Exact
  <2>3. CASE h = g /\ refcount[g] # 1
    <3>1. Freeing(garbage', h) = {}
      BY <1>1, <1>2, <1>4, <2>3 DEF Freeing
    <3>2. Users(held', current, h) # {}
      BY <1>5, <2>3
    <3> QED
      BY Zenon, <1>4, <1>5, <1>6, <2>3, <3>1, <3>2 DEF Exact
  <2> QED
    BY Zenon, <2>1, <2>2, <2>3
<1>9. Writing'
  <2>1. \A w \in Writers : garbage'[w] = garbage[w]
    BY Zenon, <1>1, <1>2 DEF Threads
  <2>2. \A x \in Readers \ {r} : garbage'[x] = garbage[x]
    BY Zenon, <1>2 DEF Threads
  <2> QED
    BY <1>0, <1>1, <1>2, <2>1, <2>2 DEF Writing
<1>10. Published'
  BY <1>0, <1>1, <1>2 DEF Published
<1> QED
  BY Zenon, <1>0, <1>7, <1>8, <1>9, <1>10, StoreUnchanged DEF IInv

LEMMA FinalizeStep == ASSUME IInv, NEW t \in Threads, finalize_unlocked(t) PROVE IInv'
<1> DEFINE g == garbage[t]
<1>0. /\ TypeOK /\ Writing /\ Published /\ Following /\ Reported /\ RefcountExact
      /\ UNCHANGED <<kind, current, version, refcount, writer_vars, reader_vars, log, destroyed>>
      /\ g # Nobody /\ payload' = [payload EXCEPT ![g] = Nobody]
      /\ garbage' = [garbage EXCEPT ![t] = Nobody]
  BY Zenon DEF IInv, finalize_unlocked
<1>1. /\ UNCHANGED <<write_lock, working, pc, job, made, result, held, seen>>
      /\ held \in [Readers -> Handles \union {Nobody}] /\ current \in Handles \union {Nobody}
      /\ garbage \in [Threads -> Handles \union {Nobody}] /\ g \in Handles /\ Nobody \notin Handles
      /\ payload \in [Handles -> Payloads \union {Nobody}]
  BY Zenon, <1>0, NobodyAssumption DEF writer_vars, reader_vars, TypeOK, Published
<1>2. /\ garbage' \in [Threads -> Handles \union {Nobody}] /\ garbage'[t] = Nobody
      /\ \A s \in Threads \ {t} : garbage'[s] = garbage[s]
      /\ payload' \in [Handles -> Payloads \union {Nobody}] /\ payload'[g] = Nobody
      /\ \A h \in Handles \ {g} : payload'[h] = payload[h]
  BY Zenon, <1>0, <1>1
<1>3. \A h \in Handles : Exact(held, current, garbage, refcount, payload, h)
  BY Zenon, <1>0, ExactDef
<1>4. t \in Freeing(garbage, g) /\ Users(held, current, g) = {} /\ Cardinality(Freeing(garbage, g)) = 1
  <2>1. t \in Freeing(garbage, g)
    BY Zenon DEF Freeing
  <2> QED
    BY Zenon, <1>1, <1>3, <2>1 DEF Exact
<1>5. current # g /\ \A r \in Readers : held[r] # g
  BY Zenon, <1>4 DEF Users
<1>6. Freeing(garbage', g) = {}
  <2>1. IsFiniteSet(Freeing(garbage, g))
    BY Zenon, ThreadsFinite
  <2>2. Cardinality(Freeing(garbage, g) \ {t}) = 0
    <3>1. Cardinality(Freeing(garbage, g) \ {t}) = Cardinality(Freeing(garbage, g)) - 1
      BY Zenon, <1>4, <2>1, FS_RemoveElement
    <3> QED
      BY <1>4, <3>1
  <2>3. IsFiniteSet(Freeing(garbage, g) \ {t})
    BY Zenon, <2>1, FS_RemoveElement
  <2>4. Freeing(garbage, g) \ {t} = {}
    BY Zenon, <2>2, <2>3, FS_EmptySet
  <2> QED
    BY <1>1, <1>2, <2>4 DEF Freeing
<1>7. RefcountExact'
  <2> SUFFICES ASSUME NEW h \in Handles
               PROVE  Exact(held, current, garbage', refcount, payload', h)
    BY ZenonT(30), <1>0, <1>1, ExactAfter
  <2>1. CASE h = g
    BY Zenon, <1>2, <1>3, <1>4, <1>6, <2>1 DEF Exact
  <2>2. CASE h # g
    <3>1. Freeing(garbage', h) = Freeing(garbage, h)
      BY Zenon, <1>1, <1>2, <2>2 DEF Freeing
    <3> QED
      BY Zenon, <1>2, <1>3, <2>2, <3>1 DEF Exact
  <2> QED
    BY Zenon, <2>1, <2>2
<1>8. TypeOK'
  BY Zenon, <1>0, <1>1, <1>2 DEF TypeOK
<1>9. Writing'
  <2>1. \A s \in Threads : garbage[s] = Nobody => garbage'[s] = Nobody
    BY Zenon, <1>2
  <2> QED
    BY ZenonT(30), <1>0, <1>1, <2>1 DEF Writing, Threads
<1>10. Published'
  <2>1. \A r \in Readers : held[r] # Nobody => payload'[held[r]] = payload[held[r]]
    BY Zenon, <1>1, <1>2, <1>5
  <2>2. current # Nobody => payload'[current] = payload[current]
    BY Zenon, <1>1, <1>2, <1>5
  <2> QED
    BY <1>0, <1>1, <1>2, <2>1, <2>2 DEF Published
<1> QED
  BY Zenon, <1>0, <1>7, <1>8, <1>9, <1>10, StoreUnchanged DEF IInv

LEMMA DestroyStep == ASSUME IInv, owner_destroy PROVE IInv'
<1>0. /\ TypeOK /\ Writing /\ Published /\ Following /\ Reported /\ RefcountExact
      /\ UNCHANGED <<kind, version, garbage, writer_vars, reader_vars, log>>
      /\ current' = Nobody /\ \A r \in Readers : held[r] = Nobody
      /\ \A t \in Threads : garbage[t] = Nobody
  BY Zenon DEF IInv, owner_destroy
<1>1. /\ UNCHANGED <<write_lock, working, pc, job, made, result, held, seen>>
      /\ refcount \in [Handles -> Nat] /\ current \in Handles \union {Nobody} /\ Nobody \notin Handles
      /\ payload \in [Handles -> Payloads \union {Nobody}]
  BY Zenon, <1>0, NobodyAssumption DEF writer_vars, reader_vars, TypeOK, Published
<1>2. \A h \in Handles : Exact(held, current, garbage, refcount, payload, h)
  BY Zenon, <1>0, ExactDef
<1>3. \A h \in Handles : Users(held, Nobody, h) = {} /\ Freeing(garbage, h) = {}
  BY ZenonT(30), <1>0, <1>1 DEF Users, Freeing
<1>4. \A h \in Handles : h # current => refcount[h] = 0 /\ payload[h] = Nobody
  <2>1. \A h \in Handles : h # current => Users(held, current, h) = {}
    BY Zenon, <1>0, <1>1 DEF Users
  <2> QED
    BY ZenonT(30), <1>2, <1>3, <2>1, FS_EmptySet DEF Exact
<1>5. current # Nobody => refcount[current] = 1
  <2> SUFFICES ASSUME current # Nobody PROVE refcount[current] = 1
    BY Zenon
  <2>1. Users(held, current, current) = {Nobody}
    BY Zenon, <1>0, <1>1 DEF Users
  <2> QED
    BY Zenon, <1>1, <1>2, <2>1, FS_Singleton DEF Exact
<1>6. /\ refcount' \in [Handles -> Nat] /\ payload' \in [Handles -> Payloads \union {Nobody}]
      /\ \A h \in Handles : refcount'[h] = 0 /\ payload'[h] = Nobody
  <2>1. CASE current = Nobody
    BY Zenon, <1>1, <1>4, <2>1 DEF owner_destroy
  <2>2. CASE current # Nobody
    <3>1. refcount' = [refcount EXCEPT ![current] = 0] /\ payload' = [payload EXCEPT ![current] = Nobody]
      BY <1>1, <1>5, <2>2 DEF owner_destroy, unref_locked
    <3> QED
      BY Zenon, <1>1, <1>4, <2>2, <3>1
  <2> QED
    BY Zenon, <2>1, <2>2
<1>7. RefcountExact'
  <2>1. \A h \in Handles : Exact(held, Nobody, garbage, refcount', payload', h)
    BY Zenon, <1>3, <1>6, FS_EmptySet DEF Exact
  <2> QED
    BY Zenon, <1>0, <1>1, <2>1, ExactAfter
<1>8. TypeOK'
  <2>1. destroyed' \in BOOLEAN
    BY Zenon DEF owner_destroy
  <2> QED
    BY Zenon, <1>0, <1>1, <1>6, <2>1 DEF TypeOK
<1>9. Writing' /\ Published'
  BY Zenon, <1>0, <1>1, <1>6 DEF Writing, Published
<1> QED
  BY Zenon, <1>0, <1>7, <1>8, <1>9, StoreUnchanged DEF IInv

LEMMA NextInv == IInv /\ [Next]_vars => IInv'
<1> SUFFICES ASSUME IInv, [Next]_vars PROVE IInv'
  BY Zenon
<1>1. ASSUME NEW w \in Writers, NEW doc \in Docs \union {NoCache},
             config_load_cached(w, doc) \/ device_load_cached(w, doc)
      PROVE  IInv'
  BY ZenonT(30), <1>1, Parses, LockStep DEF config_load_cached, device_load_cached
<1>2. ASSUME NEW w \in Writers, NEW doc \in Docs,
             config_apply_runtime(w, doc) \/ device_apply_runtime(w, doc)
      PROVE  IInv'
  BY Zenon, <1>2, Parses, LockStep DEF config_apply_runtime, device_apply_runtime
<1>3. ASSUME NEW w \in Writers, store_publish_fails(w) \/ WriterStep(w) PROVE IInv'
  BY Zenon, <1>3, PublishStep, PublishFailsStep, CommitStep, FinalizeStep DEF WriterStep, Threads
<1>4. ASSUME NEW r \in Readers, acquire(r) \/ release(r) \/ finalize_unlocked(r) PROVE IInv'
  BY Zenon, <1>4, AcquireStep, ReleaseStep, FinalizeStep DEF Threads
<1>5. CASE UNCHANGED vars
  <2>1. /\ UNCHANGED <<kind, current, version, refcount, payload, garbage, held, seen, log, destroyed>>
        /\ UNCHANGED <<write_lock, working, pc, job, made, result, writer_vars>>
    BY Zenon, <1>5 DEF vars, owner_vars, writer_vars, reader_vars
  <2>2. TypeOK' /\ Writing' /\ Published'
    BY Zenon, <2>1 DEF IInv, TypeOK, Writing, Published
  <2>3. RefcountExact'
    BY Zenon, <2>1, ExactDef, ExactAfter DEF IInv
  <2> QED
    BY Zenon, <2>1, <2>2, <2>3, StoreUnchanged DEF IInv
<1> QED
  BY Zenon, <1>1, <1>2, <1>3, <1>4, <1>5, DestroyStep DEF Next
-----------------------------------------------------------------------------
(* The theorems. *)

(* Every reachable state satisfies the inductive invariant, types included. *)
THEOREM Invariance == SafeSpec => []IInv
BY InitInv, NextInv, PTL DEF SafeSpec

(* Every version has one entry in the log of what was published, counts     *)
(* never go below 0, and a handle is held by whom the code gives it to.     *)
THEOREM TypesKept == SafeSpec => []TypeOK
<1>1. IInv => TypeOK
  BY DEF IInv
<1> QED
  BY <1>1, Invariance, PTL

(* No payload is freed under a reader, none is freed twice, and none leaks: *)
(* the counts savvy_snapshot_acquire, release and publish keep are exact.   *)
THEOREM CountsAreExact == SafeSpec => []RefcountExact
<1>1. IInv => RefcountExact
  BY DEF IInv
<1> QED
  BY <1>1, Invariance, PTL

(* What a reader has acquired stays the value and the text that were        *)
(* published as the version it was given, whatever is published and freed.  *)
THEOREM SnapshotsAreImmutable == SafeSpec => []ReaderSeesPublished
<1>1. IInv => ReaderSeesPublished
  BY DEF IInv, Published, ReaderSeesPublished
<1> QED
  BY <1>1, Invariance, PTL

(* The *out_result of a runtime apply is the difference between the version *)
(* it published and the one before, however many writers there are.         *)
THEOREM ReportsFormAChain == SafeSpec => []ReportIsDiff
<1>1. IInv => ReportIsDiff
  BY DEF IInv, Reported
<1> QED
  BY <1>1, Invariance, PTL
=============================================================================
