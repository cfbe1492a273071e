--------------------------- MODULE SnapshotStore ---------------------------
(***************************************************************************)
(* src/core/snapshot.c with the two stores built on it,                    *)
(* src/features/config/config_store.c and device_store.c: writers parse a  *)
(* JSON document into a fresh value and publish it under write_lock;       *)
(* readers take reference-counted handles on what is published.            *)
(*                                                                         *)
(* A document says which fields it sets.  "watched" stands for the fields  *)
(* a runtime apply reports on, "stateful" for the nine fields of a device  *)
(* that start-up zeroes.  Handles are memory: a freed one is allocated     *)
(* again.                                                                  *)
(***************************************************************************)
EXTENDS Integers, Sequences, FiniteSets

CONSTANTS Writers, Readers, Handles, Nobody,
          Docs,       \* documents that parse: what they set, a partial function
          MaxVersion  \* bounds the number of publications

Fields == {"watched", "stateful"}

ASSUME NobodyAssumption == Nobody \notin Writers \union Readers \union Handles
ASSUME ThreadsAssumption == /\ IsFiniteSet(Writers) /\ IsFiniteSet(Readers)
                            /\ Writers \intersect Readers = {}
ASSUME DocsAssumption == \A d \in Docs : DOMAIN d \subseteq Fields /\ \A f \in DOMAIN d : d[f] \in Nat
ASSUME VersionAssumption == MaxVersion \in Nat

NoCache == [f \in {} |-> 0]  \* no cached document: defaults, with an empty text

(* What is published: the parsed value and the text it came from. *)
Payloads == [value : [Fields -> Nat], raw : Docs \union {NoCache}]

ASSUME PayloadsAssumption == Nobody \notin Payloads

VARIABLES
    kind,                 \* which store this is: "config" or "device"
    write_lock, working,  \* the fields of the store
    current, version,     \* the fields of savvy_snapshot_owner_t
    refcount, payload,    \* of each handle; payload[h] = Nobody: h is not allocated
    pc, job,              \* each writer: where it is, and the document in its hands
    made, result,         \* the version its last apply published, and *out_result
    held, seen,           \* each reader: its handle, and the version acquire returned
    garbage,              \* each thread: the handle it is about to finalize
    log,                  \* every payload ever published, by version
    destroyed

owner_vars == <<current, version, refcount, payload, garbage>>
writer_vars == <<write_lock, working, pc, job, made, result>>
reader_vars == <<held, seen>>
vars == <<kind, owner_vars, writer_vars, reader_vars, log, destroyed>>

Threads == Writers \union Readers

(* savvy_config_set_defaults, savvy_device_set_defaults *)
Default == [f \in Fields |-> 0]

(* savvy_config_parse and savvy_device_parse write the fields they find. *)
Parse(doc, base) == [f \in Fields |-> IF f \in DOMAIN doc THEN doc[f] ELSE base[f]]

(* sensor_config_store_init, sensor_device_store_init *)
Init == /\ kind \in {"config", "device"}
        /\ write_lock = Nobody /\ working = Default
        /\ current = Nobody /\ version = 0
        /\ refcount = [h \in Handles |-> 0] /\ payload = [h \in Handles |-> Nobody]
        /\ pc = [w \in Writers |-> "idle"] /\ job = [w \in Writers |-> Nobody]
        /\ made = [w \in Writers |-> 0] /\ result = [w \in Writers |-> Nobody]
        /\ held = [r \in Readers |-> Nobody] /\ seen = [r \in Readers |-> 0]
        /\ garbage = [t \in Threads |-> Nobody]
        /\ log = <<>> /\ destroyed = FALSE

-----------------------------------------------------------------------------
(* The snapshot owner. *)

(* What is left of the counts c when one reference to h goes away, and the *)
(* handle to finalize then.                                                *)
unref_locked(c, h) == [counts |-> [c EXCEPT ![h] = @ - 1],
                       last |-> IF c[h] = 1 THEN h ELSE Nobody]

(* Mutant: the version is not counted up. *)
publish_unversioned(t, h, p) ==
    /\ payload[h] = Nobody
    /\ current' = h /\ UNCHANGED version
    /\ payload' = [payload EXCEPT ![h] = p]
    /\ LET fresh == [refcount EXCEPT ![h] = 1]
           rest == unref_locked(fresh, current)
       IN  IF current = Nobody THEN refcount' = fresh /\ UNCHANGED garbage
           ELSE refcount' = rest.counts /\ garbage' = [garbage EXCEPT ![t] = rest.last]

(* Mutant: the new payload overwrites the one that readers hold. *)
publish_in_place(t, h, p) ==
    /\ payload[h] = Nobody
    /\ LET into == IF current = Nobody THEN h ELSE current
       IN  /\ current' = into /\ version' = version + 1
           /\ payload' = [payload EXCEPT ![into] = p]
           /\ refcount' = IF current = Nobody THEN [refcount EXCEPT ![h] = 1] ELSE refcount
    /\ garbage' = garbage

(* savvy_snapshot_publish by t, with h what malloc returns. *)
publish(t, h, p) ==
    /\ payload[h] = Nobody
    /\ current' = h /\ version' = version + 1
    /\ payload' = [payload EXCEPT ![h] = p]
    /\ LET fresh == [refcount EXCEPT ![h] = 1]
           rest == unref_locked(fresh, current)
       IN  IF current = Nobody THEN refcount' = fresh /\ UNCHANGED garbage
           ELSE refcount' = rest.counts /\ garbage' = [garbage EXCEPT ![t] = rest.last]

(* Mutant: acquire does not count the reader. *)
acquire_uncounted(r) ==
    /\ held[r] = Nobody /\ garbage[r] = Nobody /\ ~destroyed
    /\ held' = [held EXCEPT ![r] = current] /\ seen' = [seen EXCEPT ![r] = version]
    /\ UNCHANGED <<kind, current, version, refcount, payload, garbage, writer_vars, log, destroyed>>

(* savvy_snapshot_acquire, through the stores' acquire functions. *)
acquire(r) ==
    /\ held[r] = Nobody /\ garbage[r] = Nobody /\ ~destroyed
    /\ held' = [held EXCEPT ![r] = current] /\ seen' = [seen EXCEPT ![r] = version]
    /\ refcount' = IF current = Nobody THEN refcount ELSE [refcount EXCEPT ![current] = @ + 1]
    /\ UNCHANGED <<kind, current, version, payload, garbage, writer_vars, log, destroyed>>

(* savvy_snapshot_release, up to the unlock. *)
release(r) ==
    /\ held[r] # Nobody
    /\ LET rest == unref_locked(refcount, held[r])
       IN  refcount' = rest.counts /\ garbage' = [garbage EXCEPT ![r] = rest.last]
    /\ held' = [held EXCEPT ![r] = Nobody]
    /\ UNCHANGED <<kind, current, version, payload, seen, writer_vars, log, destroyed>>

(* finalize_unlocked: free_fn and free, with no lock held. *)
finalize_unlocked(t) ==
    /\ garbage[t] # Nobody
    /\ payload' = [payload EXCEPT ![garbage[t]] = Nobody]
    /\ garbage' = [garbage EXCEPT ![t] = Nobody]
    /\ UNCHANGED <<kind, current, version, refcount, writer_vars, reader_vars, log, destroyed>>

(* savvy_snapshot_owner_destroy, through the stores' destroy functions: the *)
(* caller has made sure that nobody uses the store.                        *)
owner_destroy ==
    /\ ~destroyed /\ destroyed' = TRUE
    /\ \A w \in Writers : pc[w] = "idle"
    /\ \A r \in Readers : held[r] = Nobody
    /\ \A t \in Threads : garbage[t] = Nobody
    /\ current' = Nobody
    /\ IF current = Nobody THEN UNCHANGED <<refcount, payload>>
       ELSE LET rest == unref_locked(refcount, current)
            IN  /\ refcount' = rest.counts
                /\ payload' = IF rest.last = Nobody THEN payload
                              ELSE [payload EXCEPT ![current] = Nobody]
    /\ UNCHANGED <<kind, version, garbage, writer_vars, reader_vars, log>>

-----------------------------------------------------------------------------
(* The stores.  From "publish" on, the writer holds write_lock. *)

(* Up to payload_create.  A document that does not parse, and a payload    *)
(* that cannot be allocated, end the call here, the lock released again    *)
(* and nothing changed.                                                    *)
lock_and_parse(w, path, raw, value) ==
    /\ ~destroyed /\ pc[w] = "idle" /\ version < MaxVersion
    /\ write_lock = Nobody /\ write_lock' = w
    /\ job' = [job EXCEPT ![w] = [path |-> path, raw |-> raw, value |-> value]]
    /\ pc' = [pc EXCEPT ![w] = "publish"]
    /\ UNCHANGED <<kind, working, made, result, owner_vars, reader_vars, log, destroyed>>

(* config_payload_create, device_payload_create: value and text together. *)
payload_create(j) == [value |-> j.value, raw |-> j.raw]

reset_stateful_fields(value) == [value EXCEPT !.stateful = 0]

config_load_cached(w, doc) ==
    kind = "config" /\ lock_and_parse(w, "load", doc, Parse(doc, Default))

device_load_cached(w, doc) ==
    kind = "device" /\ lock_and_parse(w, "load", doc, reset_stateful_fields(Parse(doc, Default)))

config_apply_runtime(w, doc) ==
    kind = "config" /\ lock_and_parse(w, "runtime", doc, Parse(doc, Default))

device_apply_runtime(w, doc) ==
    kind = "device" /\ lock_and_parse(w, "runtime", doc, Parse(doc, Default))

store_publish(w) ==
    /\ pc[w] = "publish"
    /\ \E h \in Handles : publish(w, h, payload_create(job[w]))
    /\ log' = Append(log, payload_create(job[w]))
    /\ pc' = [pc EXCEPT ![w] = "commit"]
    /\ UNCHANGED <<kind, write_lock, working, job, made, result, reader_vars, destroyed>>

(* publish has no memory for a handle: the payload is freed again. *)
store_publish_fails(w) ==
    /\ pc[w] = "publish"
    /\ pc' = [pc EXCEPT ![w] = "idle"] /\ job' = [job EXCEPT ![w] = Nobody]
    /\ write_lock' = Nobody
    /\ UNCHANGED <<kind, owner_vars, working, made, result, reader_vars, log, destroyed>>

(* sensor_config_apply_result_t and sensor_device_apply_result_t *)
config_result(old, new) == [changed |-> old.watched # new.watched, old |-> old.watched, new |-> new.watched]

device_result(old, new) == [old |-> old.watched, new |-> new.watched]

apply_result(old, new) == IF kind = "config" THEN config_result(old, new) ELSE device_result(old, new)

(* Mutant: working is replaced before the difference is taken. *)
commit_late_diff(w) ==
    /\ pc[w] = "commit" /\ garbage[w] = Nobody
    /\ working' = job[w].value
    /\ IF job[w].path = "runtime"
       THEN /\ result' = [result EXCEPT ![w] = apply_result(job[w].value, job[w].value)]
            /\ made' = [made EXCEPT ![w] = version]
       ELSE UNCHANGED <<made, result>>
    /\ pc' = [pc EXCEPT ![w] = "idle"] /\ job' = [job EXCEPT ![w] = Nobody]
    /\ write_lock' = Nobody
    /\ UNCHANGED <<kind, owner_vars, reader_vars, log, destroyed>>

(* After publish has returned: the reaction diff, and working. *)
commit(w) ==
    /\ pc[w] = "commit" /\ garbage[w] = Nobody
    /\ working' = job[w].value
    /\ IF job[w].path = "runtime"
       THEN /\ result' = [result EXCEPT ![w] = apply_result(working, job[w].value)]
            /\ made' = [made EXCEPT ![w] = version]
       ELSE UNCHANGED <<made, result>>
    /\ pc' = [pc EXCEPT ![w] = "idle"] /\ job' = [job EXCEPT ![w] = Nobody]
    /\ write_lock' = Nobody
    /\ UNCHANGED <<kind, owner_vars, reader_vars, log, destroyed>>

-----------------------------------------------------------------------------
WriterStep(w) == store_publish(w) \/ commit(w) \/ finalize_unlocked(w)

Next == \/ \E w \in Writers :
             \/ \E doc \in Docs \union {NoCache} : config_load_cached(w, doc) \/ device_load_cached(w, doc)
             \/ \E doc \in Docs : config_apply_runtime(w, doc) \/ device_apply_runtime(w, doc)
             \/ store_publish_fails(w) \/ WriterStep(w)
        \/ \E r \in Readers : acquire(r) \/ release(r) \/ finalize_unlocked(r)
        \/ owner_destroy

SafeSpec == Init /\ [][Next]_vars

-----------------------------------------------------------------------------
(* Types. *)
TypeOK ==
    /\ kind \in {"config", "device"} /\ destroyed \in BOOLEAN
    /\ write_lock \in Writers \union {Nobody} /\ working \in [Fields -> Nat]
    /\ current \in Handles \union {Nobody} /\ version \in 0..MaxVersion
    /\ refcount \in [Handles -> Nat]
    /\ pc \in [Writers -> {"idle", "publish", "commit"}]
    /\ held \in [Readers -> Handles \union {Nobody}] /\ seen \in [Readers -> 0..MaxVersion]
    /\ garbage \in [Threads -> Handles \union {Nobody}]
    /\ made \in [Writers -> 0..MaxVersion] /\ Len(log) = version

(* The owner frees a payload only after its last reader has released it:    *)
(* the count of a handle is the number of readers that hold it, plus one    *)
(* while it is the current one; a handle is allocated exactly as long as    *)
(* somebody refers to it, and only one thread is about to free it.          *)
RefcountExact ==
    \A h \in Handles :
      LET users == {r \in Readers : held[r] = h} \union {o \in {Nobody} : current = h}
          freeing == {t \in Threads : garbage[t] = h}
      IN  /\ refcount[h] = Cardinality(users)
          /\ payload[h] # Nobody <=> (users # {} \/ freeing # {})
          /\ freeing # {} => users = {} /\ Cardinality(freeing) = 1

(* "A publish() never mutates a snapshot a reader still holds": what a      *)
(* reader holds is, value and text, what was published as the version that  *)
(* acquire told it, however often the memory behind handles is reused.      *)
ReaderSeesPublished ==
    \A r \in Readers : held[r] # Nobody => payload[held[r]] = log[seen[r]]

(* "*out_result and the published snapshot can never disagree": the old and *)
(* new values a runtime apply reports are those of the version before its   *)
(* own and of its own, so that the reports of all writers form a chain.     *)
ReportIsDiff ==
    \A w \in Writers : made[w] # 0 =>
      result[w] = apply_result(IF made[w] = 1 THEN Default ELSE log[made[w] - 1].value, log[made[w]].value)
=============================================================================
