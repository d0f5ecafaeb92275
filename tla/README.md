# CMDBoss in TLA+

CMDBoss is a configuration management database: a FastAPI service, run as several
Gunicorn workers over one MongoDB, that stores configuration items (CIs) of
declaratively defined types, the relationships between them, an audit trail, and
the events it publishes about them. This directory models the parts of it whose
correctness depends on what happens between two awaits, two workers or two
failures, checks them with TLC and proves the most important results with TLAPS.

Paths below are relative to the repository's `cmdboss/`; line references of each
definition are in `PROJECT.json` under `map`.

## 1. Inventory

| Component | Code | State it keeps | Operations | What makes it correct |
|---|---|---|---|---|
| CI repository, write path | `repository.py`, `audit.py`, `db.py`, `routers/ci.py` | one collection per CI type, `_audit`, `_outbox` | create, update (PUT, PATCH), delete, apply_discovery, mark_missing | CI, audit record and event change together; a revision names one content; a write under If-Match replaces what its client saw |
| Idempotent creation | `idempotency.py`, `repository.py` | `_idempotency`: pending or done | get, claim, store_result, release, TTL | one CI per key; a replay is of something that exists; claims end |
| Listing | `repository.py` list, `cursor.py` | none (the cursor is the client's) | list | a walk returns every row once |
| Outbox and dispatcher | `outbox.py` | `_outbox` rows; a task per worker | add, dispatch_once, replay | no event is lost; dead means enough failures; no row stays pending |
| Event bus | `events.py` | a bounded queue per process | publish, `_run`, aclose | nothing accepted is forgotten while the process lives, or when it stops in time |
| Relationships, edges | `graph.py`, `graph_schema.py`, `routers/graph.py` | the relationships collection | create_edge, delete_edge, count_edges, detach_ci | no dangling edge, cardinality, no dependency cycle, no duplicate, a lineage per edge |
| Relationships, traversal | `graph.py` `_bfs` | none | neighbors, dependencies, impact | finds what is within the depth, says when it may have missed something, ends |
| Relationship types | `graph.py` RelationshipRegistry | `_relationship_types`, a TTL cache | create, get, deactivate | as the schema registry |
| Schema registry | `registry.py`, `invalidator.py`, `routers/types.py` | `_ci_types`; per worker a type cache (TTL), a model cache (version) and a watermark | create, update, deactivate, get_type, compile, poll_once | a version names one schema; a CI is stamped with the version it was validated under; staleness is bounded |
| Discovery | `discovery/*.py` | `_discovery_runs` | run, reconcile | the store converges to the snapshot; others' records stay; a repeated run is quiet; runs end |
| Webhooks | `webhooks.py` | `_webhooks` | register, handle, deliver with retries | each registered endpoint is tried, in order, a bounded number of times and not after its 2xx |
| Security | `security.py` | `_api_keys` | authenticate, create, rotate, revoke, bootstrap | a revoked, rotated or expired secret stops working for good |
| Rate limiter | `ratelimit.py` | a counter per client and process | check | a bound on what gets in per stretch of time; an honest Retry-After |
| Lifecycle | `app.py`, `deps.py`, `main.py` | the objects above | start, stop | order of teardown |
| Schema compilation | `schema.py`, and `_validate` in `repository.py` | none | compile_model, validation | a CI holds what the schema it is stamped with accepts; compatible changes leave every CI writable |
| Pure translation and I/O | `config.py`, `errors.py`, `observability.py`, `utils.py`, `routers/system.py` | metrics | formatting | – |

How they interact: a router calls a repository; a repository asks the schema
registry (through its caches) for the type, and then, inside `transaction(...)`,
writes the document, calls `AuditLog.record` and `Outbox.add` with the session. The
CI repository calls the relationship repository (`relationship_guard`) when it
deletes. The reconciler calls both. The dispatcher of every worker reads the outbox
and publishes on its own worker's bus, whose consumer calls the subscribers
(logging, webhooks). Nothing but MongoDB is shared between workers.

The behaviours that are hard: interleaving at every await; two modes,
`txn_enabled` on a replica set and sequential writes elsewhere, with different
guarantees; an exception, a lost acknowledgement or a dead process at any await;
retries of requests; several dispatchers over the same rows; a memory queue
between a durable table and its consumers; caches filled and invalidated
concurrently; and checks outside the transaction of the write they protect.
`PROJECT.json` lists these hazards one by one at their lines.

## 2. Modules

| Module | Models | Its variables stand for |
|---|---|---|
| `CIStore` | the write path of the CI repository | `doc`, `audit`, `outbox`: the collections; `pc`, `op`, `target`, `before`, `after`: a handler's place and locals; `pend`: what its session holds back; `stale`: its snapshot is outdated; `seen`, `resp`: the client |
| `CILedger` | what the write path promises: one atomic change at a time of version, log and feed | |
| `CIStoreProofs` | theorems about `CIStore` and `Paging` | |
| `CICreate` | POST with an Idempotency-Key | `idem`: the key records; `cis`, `audit`, `outbox`: what exists; `pend`: a session's writes |
| `CICreateProofs` | theorems about `CICreate` | |
| `OutboxDispatch` | dispatchers and buses of several workers over the outbox rows | `row`, `line`: the rows and their order of being due; `batch`: the fetched copies; `queue`: the buses; `delivered`, `failures`: history |
| `OutboxProofs` | theorems about `OutboxDispatch` | |
| `OutboxRow` | the life of a row and of the copies dispatchers hold of it, which `OutboxDispatch` implements | `status`, `holders` |
| `EventBus` | one worker from its dispatcher through the bus to the webhooks, and its teardown | `row`, `hooks`: the collections; `pc`, `batch`: the dispatcher; `queue`; `stage`, `current`, `todo`, `attempt`: the consumer; `app`: the aclose that lifespan awaits; `accepted`, `fate`, `calls`, `dropped`, `known`: history |
| `EventBusProofs` | theorems about `EventBus` | |
| `RelGraph` | create_edge, delete_edge and the delete guard, over CIs and edges | `stored`, `audit`, `outbox`; `search`: the cycle check; `snap`, `todo`, `pend`: a handler's session; `known`: history, what was stored when a request was sent |
| `RelGraphProofs` | theorems about `RelGraph` and `GraphSearch` | |
| `Bfs` | one level of `_bfs`; used by `RelGraph` and `GraphSearch` | |
| `GraphSearch` | dependencies and impact, on every graph over a set of CIs, while others change it | `graph`: the edges stored; `bfs`, `level`, `edges`: the locals of `_bfs`; `depth`: graph_max_depth; `always`, `ever`: history |
| `SchemaCache` | the registry of one type, on several workers, with admins and CI writes | `type`: the stored document; `tcache`, `mcache`, `mark`: a worker's caches and watermark; `named`, `age`: history, the schemas stored and for how long each has been out of use |
| `SchemaCacheProofs` | theorems about `SchemaCache` and `SchemaEvolution` | |
| `SchemaEvolution` | one CI under a schema that changes: compile_model, validation, and what every write stores of it | `fields`: the active schema; `ci`: the CI; `stamped`: the schema its schema_version names; `owned`: has it a discovery source; `compatible`: history |
| `ApiKeys` | authentication beside creation, rotation, revocation, expiry and bootstrap of keys | `keys`: `_api_keys`; `now`; `cred`, `doc`: what a request presents and has read; `aim`: the key an admin rotates; `buckets`: the limiter; `retired`, `dead`, `hits`: history |
| `RateLimit` | FixedWindowRateLimiter, as operators on its buckets; used by `ApiKeys` | |
| `ApiKeysProofs` | theorems about `ApiKeys` and the limiter in it | |
| `Reconcile` | discovery runs | `cis`, `edges`; `run`: locals and record of each run; `prior`: the last run of each source |
| `ReconcileProofs` | theorems about `Reconcile` | |
| `Paging` | a keyset walk beside writers | `value`, `cursor`, `got` |

`GraphSearch`, `SchemaEvolution` and `Paging` prefix `Init`, `Next` and `Spec` (`GSSpec`,
`SESpec`, `ListSpec`), so that their proofs can stand beside those of `RelGraph`,
`SchemaCache` and `CIStore`.

`MC*` modules give TLC its values. `MCReads` puts `Paging` beside `GraphSearch`, and
`MCSchemas` `SchemaCache` beside `SchemaEvolution`, for one run each: a behaviour is of
one of the two, and the other stays where it starts. `CIStore` abstracts the inside of the checks
that `RelGraph` models (the guard within a delete) and of the key that `CICreate`
models; `Reconcile` takes single repository calls as steps, whose inside is in
`CIStore` and `RelGraph`; `EventBus` keeps of the dispatcher what the bus sees of it,
and `OutboxDispatch` of the bus only its queue; `SchemaEvolution` takes requests as
steps and lets their values matter, which nothing else does. In each module a definition headed "Fault:" is a
plausible bug that stands beside the right definition; it is not part of the
specification, and is used to see that a property would notice it.

### Correspondence of actions

* Every await is a step. Code between two awaits of one coroutine is one step,
  since asyncio does not switch there; local computation is folded into the read
  or the write next to it.
* With transactions, `StoreDoc`, `StoreEntry`, `StoreEvent` (`Do` in `RelGraph`)
  hold the write back in `pend` until `Commit`; reads see the snapshot taken by
  the first read. A write to a document that another open session has written,
  or that has been written since the snapshot, does not happen: MongoDB raises,
  and `Fail` is what the handler does then. Without transactions each write takes
  effect at once.
* `Fail` (`Raise`, `Die`, `GiveUp`, `Abort`, `Crash`) may happen at any await: an
  exception, a cancellation or the end of the process. `Commit` may succeed and
  still be answered with an error: its acknowledgement was lost.
* Outside `SchemaEvolution`, validation, permissions of relationship types and refused items are
  nondeterministic refusals, or constants.
* Time is abstract: a TTL monitor or a backoff is an action that may happen;
  `SchemaCache` and `ApiKeys` count ticks, since properties are about durations.
  A secret is named after the request that minted it: it is never minted again.
* Ids are drawn from a finite set and never again: ObjectIds are not reused.

## 3. What the runs check

Runs named in **bold** must find a violation: the property is a sentence of the
repository's documentation, and the run shows an execution of the code that
contradicts it. Both sides are quoted in `PROJECT.json` under `findings`.

| Run | Instance | Shows |
|---|---|---|
| `CIStoreTxn` | transactions; two requests of any kind; three CI ids; two fields; If-Match fetched, guessed or `*` | `UnitOfWork`, `AuditChain`, `RevisionIdentifiesContent`, `AnswersAreTrue`, `NoLostUpdate`; `CIStore` implements `CILedger` |
| `CICreateTxn` | transactions; two attempts under a key that outlives them, two under a key that may expire at any time | `AtMostOneCi`, `ReplayIsFaithful`, `DoneIsDurable`, `ClaimsAreHeld`, `ClaimsEnd` |
| `OutboxTwo` | two workers with a queue of one, two events, one of which publish may refuse; two faults | `DeadAfterMaxAttempts`, `Settles`; `OutboxDispatch` implements `OutboxRow` (`RowLife`) |
| **`OutboxLost`** | one worker with a queue of one, two events due at once, no fault | the second event is dropped, and its row sent (`SentIsNotLost`) |
| `BusLife` | a worker with a queue of one; two events; two webhooks, one of which wants both; two attempts; one MongoDB error; shutdown or kill at any moment | `EveryEndpointIsTried`, `EndpointHistory`, `CleanStop`, `AcceptedIsHandled` |
| `Reads` | four CIs, three values (so ties), pages of two, two writes by others; and every graph over three CIs, every root, both directions, one to three levels, two edges created or deleted during the search | `EveryRowOnce`; `FindsWhatIsNear`, `UntruncatedIsComplete` |
| `RelGraphTxn` | transactions; three requests; three CIs; a dependency and a one_to_one type; two levels | `TypeOK`, `EdgeLineage`, `UniqueEdges`, `DanglesByOverlapOnly`, `CardinalityKept`, `NoCycleClosed` |
| **`RelGraphCycle`** | transactions; two links | two concurrent links close a cycle (`DependenciesAcyclic`) |
| `Schemas` | two workers with pollers, two changes, one at a time, two CI writes, entries that live two ticks; and two fields, eight field specifications, two numbers and a text, any sequence of schema changes and writes of one CI | `StampedAsValidated`, `BoundedStaleness`; `WrittenAsStamped`, `CompatibleStaysWritable` |
| **`SchemaOverlap`** | one worker; a creation and two updates that may overlap; two CI writes | two schemas are recorded under one version (`LineageIsPreserved`) |
| `ReconcileRuns` | two runs, of one source in turn or of two at once; two items of one type and a link between them; both policies; a user who links a CI of his own | `TypeOK`, `Converged`, `RerunIsQuiet`, `StaysInItsSource` |
| `KeysLife` | three requests by key, token or both; two key operations; one starting worker; a limit of one in a window of two ticks | `OnlyLiveSecrets`, `RetiredStaysRetired`, `RateBounded`, `RetryAfterIsHonest` |

### Bounds

* Write path: two requests are enough for every pair of handlers to meet, at every
  pair of steps. One CI is contended; the other ids are those
  that creations need. `Existing` CIs start as created by the API or by discovery.
* `CICreateTxn`: two attempts of one operation are one winner and one loser, or one
  dead attempt and its retry. A key that expires while retries are still coming
  breaks `AtMostOneCi` by design (`idempotency_ttl_seconds` is how long the promise is
  valid), so this property and the agreement of replays are claimed of the keys
  outside `Expiring`. `ClaimsEnd` is claimed of every key and does without the TTL: an
  attempt completes or releases its claim unless it died (`orphan`).
* `OutboxTwo`: `MaxFaults` = 2 bounds replays, MongoDB errors and crashes together;
  `MaxAttempts` = 2 makes both the retry and the giving up happen. With `QueueSize` = 1
  the second event of a batch meets a full queue unless the first has been taken.
  An update that raises has been applied or not (`MarkRaises`, `AbandonBatch`).
* `OutboxLost`: the dispatcher publishes a batch without waiting for the consumer, so
  that any `outbox_batch_size` above `event_bus_max_queue`, or a consumer that is held up by a
  slow endpoint, brings about in the large what two events and a queue of one do here.
* `BusLife`: two events, of which an error while marking publishes one again, fill the
  queue of one and the consumer's hand; each webhook may fail, fail and succeed, or
  use up both attempts, while the other waits.
* `RelGraphTxn`: three requests make two edges and one that conflicts with both, or an
  edge, a detach and a link between them; the cycle check is cut off by its depth
  when a third dependency is asked for.
* `Schemas`, its caches: a creation and then an update or a deactivation, or one of these
  on nothing. A coroutine that has been resumed runs before the next tick (`Tick`
  waits for it), as the answer of a query is put into the cache when the coroutine
  resumes, without a further await. `Polling` only ever empties caches: neither
  of the two properties relies on it. `Serial` is the condition of `BoundedStaleness`;
  `SchemaOverlap` is what happens without it.
* `Schemas`, its content: a required field, optional ones, defaults inside and outside of
  their own bounds, an enum beside a bound and an enum without members; `Value`
  holds one of the right type in and one out of each bound, and one of another type.
* `Reads`: four rows with three values make two pages with ties on and across their
  border; `Nullable` is false (see the hazard at `repository.py:283`). Three CIs make every cycle, chain and loop of three
  levels; two changes can take an edge away and bring it back, or cut off one branch
  and add another. What is found is compared with what was there throughout (`always`)
  and at some time (`ever`).
* `KeysLife`: `MaxTime` = 2 lets a key of lifetime 1 expire and a window of 2 end;
  `MaxKeys` = 1 makes the limiter evict as soon as a second principal comes.
  `RateBounded` says 2·Limit − 1, not Limit: windows begin with a client's first hit, and
  a burst at the end of one may be followed by one at the beginning of the next. With
  `Limit` = 1 the two numbers are equal, so that TLC sees evictions and other clients
  interfere but not that burst; `Limit` = 2 would need four or five requests, more than a
  run can hold. `RateBoundedHolds` is for every limit.
* `ReconcileRuns`: two runs let a CI be created, change, disappear and come back.

### Fairness

`CIStore`, `RelGraph`, `GraphSearch`, `SchemaCache`, `SchemaEvolution`, `Reconcile`,
`Paging` and `ApiKeys` claim no liveness: a client may never come back, and a worker
may die. `CICreateTxn` assumes that a handler that is not dead goes on (each of its
awaits ends with an answer or an exception; `Die` stays possible at any time), and
nothing of the TTL monitor. `OutboxTwo` assumes that a backoff ends and that `Dispatch` goes on:
the loop catches every `Exception` (`outbox.py` `_run`), and a process that stops is
replaced by Gunicorn. Nothing is assumed of `Add`, `Replay`, `Crash`, nor of `Deliver`: rows
settle whether or not the consumer of the bus moves. `BusLife` assumes that the
consumer goes on (`Consume`): every request ends with an answer or its timeout, and no
exception of a handler leaves the loop (`events.py` `_run` gathers them).

### Disagreements seen, without a run

Reading the code for these modules showed further places where it promises less
than its documentation, or where two parts disagree. The models contain the steps
that lead there; the properties above are stated so that they do not claim them.

* Without transactions: discovery gives one revision two contents beside a PUT
  (`repository.py:598`); DELETE erases an update made after its If-Match check
  (`:476`); a failure after the insert releases the key, and the retry creates a
  second CI (`:201`). A PUT whose client made up the next revision may match a document
  newer than the one the handler read, and write that revision a second time
  (`:366`, `:378`).
* `If-Match: *` is compared as a revision by PUT and PATCH, and refused (`repository.py:377`);
  two discovery runs may create two CIs for one external id (`:531`).
* With two dispatchers, or one whose update was applied without an acknowledgement, a
  row that is sent may become dead (`outbox.py:85`); the diagram of row states in
  `docs/ARCHITECTURE.md` has no such arrow. `RowLife` therefore says who may settle a row, and
  not that "sent" is final.
* A crash loses events that are marked sent and wait in the queue (`outbox.py:138`), where
  section 6 of `docs/ARCHITECTURE.md` says that "the outbox guarantees no event is lost on
  crash". `SentIsNotLost` fails in this way, too, if `OutboxLost` is given a fault and room in
  its queue; `SentIsNotLostHolds` shows that this and a full queue are the only ways.
* An error of the query for webhooks loses the event for all of them (`events.py:99`).
* A teardown that runs into its two seconds cancels what the bus still holds, though
  its rows are sent (`events.py:114`).
* Cardinality and the existence of the ends are checked before and outside the
  transaction (`graph.py:207`, `graph.py:212`), so that overlapping requests get
  past them; the cycle check takes a truncated search for a negative one (`graph.py:289`).
* Between the reads of `_type_doc` and `compile` a cache without
  lifetime (TTL 0) lets the version recorded and the version validated differ
  (`repository.py:150`). The absence of a type is cached like a type: a query sent before the
  creation may put it into the cache after the invalidation (`registry.py:89`).
* The cache of relationship types has no poller: another worker goes on creating
  edges of a type after its deactivation until the TTL (`graph.py:91`).
* CI types that are absent from a snapshot altogether are not swept
  (`discovery/reconciler.py:52`), where `docs/adr/0003` speaks of all source-owned records absent from
  the latest snapshot. A run whose process stops stays "running" (`discovery/service.py:80`).
* Policy mark raises the revision of a CI that is already missing, at every run
  (`repository.py:650`); deleting a CI with detach takes users' edges along
  (`reconciler.py:73`); an item that was refused is treated as unknown by its edges,
  which are then deleted (`reconciler.py:98`).
* A keyset walk over a field that is null in some rows skips rows (`repository.py:283`).
* A default is stored without being validated, so that a CI created with it may be
  refused by a later PATCH or discovery run; PUT replaces what is declared and leaves
  fields in place that the schema has dropped, and a CI that holds one can be
  neither patched nor discovered until its field is declared again
  (`repository.py:359`); a definition with an empty enum is accepted and cannot be
  compiled at the first write (`schema.py:241`).
* A bootstrap after every key was revoked installs the configured secret again, or,
  if a revoked record holds it, nothing at all; keys that have expired but are active
  keep it from doing so (`security.py`, `ensure_bootstrap_admin`). Rotating a key that has
  expired, or was revoked in between, returns a secret that does not work; of two
  rotations at once both return one and the later one works (`security.py:171`). Several
  authentications at once write last_used_at each, throttle or not.

## 4. What is proved

`CIStoreProofs`, for all constants that satisfy `ConstantsAssumption`:

* `TypeCorrect`: `Spec => []TypeOK`, in both modes. `TypeOK` is not inductive: what the
  locals of a request mean at each of its steps (`Locals`) is needed to see that a
  document written is a document.
* Under `TxnEnabled`: `UnitOfWorkHolds`, `AuditChainHolds`,
  `RevisionIdentifiesContentHolds`, `RevisionsOnlyGrowHolds`, `NoLostUpdateHolds`. The
  inductive invariant `Inv` adds to the type invariant what a session holds at each
  step (`Sessions`), that a request which has written excludes others from its CI
  and that a snapshot which is not stale equals the store (`Isolation`), that a new
  id belongs to one request (`Ids`), that an ETag is of the past and names one
  content (`Etags`), and that a write past the compare-and-swap had the revision
  asked for (`Matched`). The store changes in `Commit` only; the audit record it
  appends starts from what the snapshot saw, which `Isolation` says is what is
  stored.
* Under `TxnEnabled`, `ImplementsLedgerHolds`: `CIStore` implements `CILedger`. Only a
  `Commit` that holds back a record changes the ledger. That it is a creation, a revision
  or a removal, and that revisions go up by exactly one, is `Successions`; that the
  version it replaces is the current one is `Isolation`, that a creation finds an empty
  lineage is `Ids`, and that lineage and feed grow at their ends by what was appended is
  `LineageAppend` and `PublishedAppend`. A commit that only refreshes provenance is a
  stutter.
* Under `TxnEnabled`, `AnswersAreTrueHolds`, with `Deeds` beside `Inv`: a request has no
  record in any CI's lineage before its commit, and a client's commit always holds one
  back; other requests' commits leave the records of an answered one as they are
  (`OthersRecords`).

`CICreateProofs`, under `TxnEnabled`, for any sets of attempts and keys and whatever
keys expire: `AtMostOneCiHolds`, `ReplayIsFaithfulHolds`, `DoneIsDurableHolds`. The
strengthening is `Alone` (one attempt at a time holds a key that lasts), `Keyed` (a
CI's key says so), `Held` (what a session holds back follows from its step) and
`Answered`. `ClaimsAreHeldHolds` is for every key, expiring or not: a claim is in use, or
its attempt died. It is inductive beside the rest, because a commit completes the key
whose claim it held and every exception on the way leads to `release`. For a key that may expire only the parts that speak of complete creations
remain; they are enough for `DoneIsDurable` and for the CI of an answer to be complete.

`TypeCorrect` of this module is under `TxnEnabled`, too.

`OutboxProofs`, for any events, dispatchers, batch and queue sizes, attempts and faults:
`TypeCorrect`, `DeadAfterMaxAttemptsHolds`, the refinement `RowLifeHolds`
(`Spec => Life!Spec`) and `SentIsNotLostHolds`. The strengthening is about what dispatchers hold:
the line is of pending rows, each once (`LineOfPending`); a batch is of rows that have
been written, no two of one (`BatchOfRows`); the attempts in a row and in every copy of it are below
the limit and no more than the failures counted (`Counted`). For the refinement, a
step that settles a row is by a worker that holds a copy, and copies come from
pending rows only. `SentIsNotLostHolds` supposes `[][NothingDropped]_vars`: nothing is
published into a full queue, and no process stops with events in its queue. It is an
assumption about steps, and a strong one (`OutboxLost` shows that it fails); the theorem says
that there is no third way to lose an event, whatever dispatchers overlap, replay, raise or
leave half done. `NoneLost` adds to the property that what is being marked has been
queued or delivered; from there an event goes only to its consumer.

`EventBusProofs`, for any queue size, events, webhooks and attempts: `TypeCorrect`,
`EveryEndpointIsTriedHolds`, `EndpointHistoryHolds`, `CleanStopHolds`. Positions order
everything: they wait in the order they were accepted, the one in the consumer's hand
before all that wait (`InOrder`), each that is waiting is in the hand or in the queue
(`Accounted`), every request so far was for it or one before (`Called`), and for the
one in hand whoever is not yet served is still in `todo`, the first of them with
`attempt` failures (`Serving`). `Published` says that only what has been published is
marked, and that webhooks are never forgotten.

`SchemaCacheProofs`, for any workers, requests and time to live: `TypeCorrect` and
`StampedAsValidatedHolds`; with `Serial` also `BoundedStalenessHolds`. Whatever is read or cached was stored (`HeldWasStored`), and an
entry of the type cache has been out of date for no longer than it has lived
(`Fresh`). While changes come one at a time the version that is about to be written
is the next one (`OneAtATime`) and no version has two definitions (`OneDefinition`), so that a model found by its version is the one of the
entry that named it, and not older than that.

Of `SchemaEvolution`, in the same module and for any fields, values and specifications:
`WrittenAsStampedHolds`, `CompatibleStaysWritableHolds`. A CI holds accepted values, or defaults of
optional fields, of the schema it is stamped with (`Written`), and while schemas only grow
what any of them accepted the current one does (`Grown`).

`ApiKeysProofs`, for any requests, administrators and starts: `TypeCorrect`,
`RetiredStaysRetiredHolds`, `OnlyLiveSecretsHolds`. That a rotation cannot bring a secret
back rests on its being fresh (`Fresh`); that a request sent with a retired secret
stays out, on what it may have read of the key (`Remembered`, `Barred`). For any limit,
window and number of buckets: `RateBoundedHolds`, `RetryAfterIsHonestHolds`. The
invariant `Metered` says what a bucket knows of the history: the hits of a principal lie
in windows that do not overlap, each begun by a hit; a bucket counts those of the last
one, of which no more than `Limit` were admitted; and a principal without a bucket,
new or evicted, has only windows that are over. A stretch as long as a window meets two
windows at most and never holds all of both (`TwoWindows`), hence 2·Limit − 1.

`RelGraphProofs`, under `TxnEnabled`, for any number of requests and CIs, any
relationship types and any depth: `TypeCorrect`, `EdgeLineageHolds`, `UniqueEdgesHolds`,
`DanglesByOverlapOnlyHolds`, `CardinalityKeptHolds`, `NoCycleClosedHolds`. The inductive
invariant `IInv` has two parts. `Lifecycle` is inductive by itself: what a session holds
back follows from its step (`Sessions`), what it deletes is stored and changed by no
other session (`Isolated`), and what a snapshot or `known` holds has existed (`Past`);
so a commit moves a thing and its records together, and nothing comes back. `Checked`
rests on that: what was known when a request was sent can only vanish, so that what a
check of create_edge has seen to stays true of what is left of it until the insert and
ever after (`Claimed`, `EndsKnown`, `Uncrowded`, `Acyclic`), and a deletion takes along
the edges that were there when it was sent (`Swept`). `Searching` says of the cycle
check that the levels done have been visited and that what has been expanded leads to
what has been visited; that a search with nothing left has visited all that its target
leads to (`AllVisited`) is by the least node of a path that it has not (`LeastNat`).

Of `GraphSearch`, in the same module and for any finite set of CIs, any graph, depth and
changes in between: `FindsWhatIsNearHolds`, `UntruncatedIsCompleteHolds`. `GSInv` says that
what has been visited is at the end of a trail of edges that were there at some time
(`Reached`), that what a trail of edges that were there throughout leads to in as many
edges as there are levels done has been visited (`Covered`), and that from what is no
longer on the frontier such edges lead only to what has been visited, and are in the
answer (`LeftBehind`); that a search with no frontier left has followed every trail is
again by the least position that it has not.

Of `Paging`, in `CIStoreProofs` and for any number of rows and values, any page size and
any changes by others: `EveryRowOnceHolds`, for sort fields that always have a value (with
null it is false, as the hazard at `repository.py:283` says). Rows with values are strictly
ordered, and their places are the numbers from zero (`EveryPlaceIsTaken`, by counting); so
the last row of a full page divides what it and earlier pages returned from what is still
to come (`CursorDivides`), and a row that nobody writes has been returned once if it is not
past the cursor, and else not at all (`Walked`).

`ReconcileProofs`, for any sources, items, CIs and runs, and whatever calls are refused or
runs aborted: `TypeCorrect` and `StaysInItsSourceHolds`, whether or not runs of one source
overlap. Neither is inductive. `Base` adds that the store is sound (`Sound`: an edge of a
source joins CIs of the source, which has one CI for an external id) and that what a
run has still to do concerns its source and nothing it found (`Planned`). Where a source
has one run at a time (`OnePerSource`), `ConvergedHolds` and `RerunIsQuietHolds`. The
strengthening is what a run has found (`Found`) and already brought about unless it met an
error (`Done`), and that a run which repeats one finds everything in place (`InPlace`):
each action extends it for its own run, and the footprint of a step (`Moves`: the CIs and
edges of one source) leaves it alone for every other (`OtherSource`, `StillGoing`).
`OnePerSource` is a condition on whoever triggers runs, since the code has no lock; the
code does not promise the two without it. The first attempt at `RerunIsQuiet` failed: a run
under policy delete after one under policy mark deletes what the first had only marked,
so that "repeats" has to mean the policy, too.

Each theorem rests only on the named assumptions about the constants of its module and,
where it says so, on `TxnEnabled` or `Serial`. That MongoDB's transactions are atomic,
read from a snapshot and abort the second of two writers of a document is part of
the model (`Do`, `pend`, `stale`), not proved.

Only model-checked: liveness under fairness (`ClaimsEnd`, `Settles`, `AcceptedIsHandled`),
which is out of TLAPS's reach. Every other property of a passing run is stated by a
theorem. No module declares a RECURSIVE operator.

## 5. Not modelled

* Relationship types and their cache (`graph.py` RelationshipRegistry): constants of
  `RelGraph`. The cache is that of `SchemaCache` without versions and poller.
* Providers of discovery: a dictionary filled at startup, whose result is the snapshot
  over which `Reconcile` quantifies.
* Application wiring: construction of objects, which has no state of its own; its
  teardown is in `EventBus`.
* Operations endpoints, configuration, logging, metrics, errors: I/O and formatting.
* Within the modelled components: patterns and conversions of pydantic, hashing and
  signatures, scopes, filters and offset paging, index creation, event bodies; sort
  fields that hold arrays or values of several types, which `_parse_sort` lets through and
  which the sort and the cursor's filter compare differently; the rounding of the
  wait that the limiter tells (up to a second in the header, to hundredths in the body).

## 6. Plan

Done, in the order of importance: write path, idempotency, outbox and bus,
relationships and traversal, schema caches, reconciliation, paging; then bus and
webhooks with the teardown, keys and limiter, schema evolution; the proofs above. To
come:

1. Proofs: `DependenciesAcyclic` where links come one at a time.
2. `RelTypes`: the relationship type cache, which no poller invalidates.
3. Composition of `CIStore` and `OutboxDispatch`: from a committed write to its handler.

The runs and their properties are kept to what is worth their time: a new module
takes the place of a run or shares one, and properties that turn out shallow go.
