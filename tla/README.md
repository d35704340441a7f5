# Verification of the document query engine

TLA+ specifications of this repository, checked with TLC on small instances and
proved with TLAPS for every value of the constants. Paths below are relative to
the repository's root. Every definition is translated from the code; comments
above it say what part.

    tlc -workers 2 -config MCIngestionPipeline.cfg MCIngestionPipeline
    tlc -workers 2 -config MCUploadRace.cfg        MCIngestionPipeline
    tlc -workers 2 -config MCIngestionDepth.cfg    MCIngestionPipeline
    tlc -workers 2 -config MCIngestionRetry.cfg    MCIngestionPipeline
    tlc -workers 2 -config MCAuthSession.cfg       MCAuthSession
    tlc -workers 2 -config MCAuthLocks.cfg         MCAuthSession
    tlc -workers 2 -config MCSynchronousRun.cfg    MCSynchronousRun
    tlc -workers 2 -config MCModelProvenance.cfg   MCSynchronousRun     (finds a violation, section 7)
    tlc -workers 2 -config MCCachedQueries.cfg     MCCachedQueries
    tlc -workers 2 -config MCQuestionAnswering.cfg MCQuestionAnswering
    tlc -workers 2 -config MCUploadWorkflow.cfg    UploadWorkflow
    tlc -workers 2 -config MCSupervisor.cfg        MCSupervisor
    tlapm IngestionSafetyProofs.tla      (and the seven other *Proofs modules)

## 1. Inventory

| Component | State | Operations | Hard behaviour | What makes it correct |
|---|---|---|---|---|
| Document rows and chunks (`persistence/document_ingestion.py`, `persistence/models.py`) | `documents` row: status, owner, hash, request UUID, error; `chunks` | start, mark failed, mark queued for retry, persist atomically; each locks the row | several deliveries of one document interleave transaction by transaction | ready is final and complete; failure is never silently undone |
| Upload admission (`backend/app/services/document_upload.py`, `persistence/document_uploads.py`, `backend/app/documents/router.py`) | the frame of a request; row, object, message | recover by UUID, duplicate check, PUT, insert, compensating delete, load, publish | same-UUID races; a commit or a PUT whose outcome is unknown; the process ends between two steps; publication fails after the commit | one document per UUID, the row keeps its PDF, no orphan without a fault, a repeat repairs a missing message |
| Ingestion task (`backend/app/tasks/ingest_document.py`, `backend/app/services/document_ingestion.py`) | Python frame: document, retry counter, PDF bytes, pending failure | run, retry, exhaust | errors in every step, the error of an error handler, duplicate deliveries | an unfinished document always has a carrier; every chain of attempts ends |
| Task queue (`backend/app/celery_app.py`, `celery_config.py`, `services/document_ingestion_queue.py`) | RabbitMQ messages and unacknowledged deliveries | publish with confirms, deliver, ack late, requeue on loss | duplicates, lost workers, lost channels, unconfirmed publications | at-least-once, never a silent loss |
| Object storage (`backend/app/storage/`) | `documents/<id>/source.pdf` | put, get, delete | ambiguous outcomes | see upload admission |
| Refresh sessions (`backend/app/auth/`) | `refresh_sessions` rows: expiry, revocation, successor | register, login, refresh (rotate), logout | concurrent rotation of one credential, commit reported as failed | at most one live credential per login; a rotation never prolongs a login; a late refusal never clears the successor's cookie |
| Browser session (`frontend/src/auth/authSession.js`) | access token in memory, snapshot, shared refresh promise, Web Lock; the cookie jar | bootstrap, login, logout, authenticated fetch with one retry | several tabs, lost and late responses, browsers without Web Locks | refreshes of the tabs do not defeat each other; out means out |
| Synchronous upload-and-query (`main.py`, `persistence/upload_results.py`, `document_artifacts.py`) | same rows, chunks with their vectors, `queries` under a `request_id` | recover, look in RAM and MySQL, backfill vectors, persist the batch atomically, recover again | races with the asynchronous pipeline on one row, two runs with one `request_id`, commits whose outcome is unknown, a new embedding model | one batch per `request_id`; ready is never taken back; RAM never runs ahead of MySQL |
| Document lock (`persistence/db.py`, `mysql_document_lock`) | a named lock owned by a pooled connection | acquire, commit in the body, release | the connection changes between acquire and release | at most one session works under it |
| Document and BM25 caches, query routes (`main.py`, `persistence/ingestion.py`, `query_history.py`) | entries with created and accessed times; indexes by object id; frames of requests | get, set, evict by age and by use; load, index, store, ask, record | requests interleave at awaits; a URL changes its content; addresses are used again | bounded size, bounded age, positions inside the list, history of what was answered |
| Question answering (`main.py`) | the tasks of one request under one semaphore | retrieve, rerank, generate, extract and verify claims | any call of any question may fail while others wait; the model names what it likes | every request is answered; the model is asked with the best of what was found; citations stay in what it was shown |
| Browser upload workflow (`frontend/src/App.jsx`, `api/documentWorkflow.js`) | view state, generation counter, pending request UUID, polled document | submit, poll, reset, open existing, upload again, ask | answers that are late, overtaken or lost | an answer acts only on the generation that asked; retries store one document; nothing shown gives way to something older |
| Supervisor (`production_start.py`) | two child processes, requested signal | start, poll, forward signal, kill at the deadline | signals between any two steps | no child outlives it; the exit code says why |
| Parsing, embeddings, evaluation, migrations (`backend/app/rag/`, `eval/`, `migrations/`, `scripts/`) | none that two steps share | pure computation, scripts | none | numeric quality, out of scope |

Interactions. An upload request writes the object, then the row, then the
message, each in a system of its own with no common transaction. Workers learn
only a document id from the message and read everything else from the row and
the object. API and workers share the row under `SELECT ... FOR UPDATE`, one
transaction at a time. Queries read ready rows and their chunks. The browser
drives uploads and polls the row's status.

## 2. Plan

Most important first; each line is one component with its properties.

1. **Done.** `DocumentStore`, `IngestionQueue`, `IngestionWorker`,
   `DocumentUpload`, composed by `IngestionPipeline`; abstract specification
   `DocumentLifecycle`; proofs in `IngestionSafetyProofs` and
   `IngestionUploadProofs` (sections 3 to 5).
2. **Done.** `RefreshSessions` (rows, rotation, revocation) and `AuthSession`
   (tabs, cookie jar, Web Lock, requests in flight), which implements it;
   proofs in `AuthSessionProofs` (section 6). Left: the users table (duplicate emails, rehash) and the reload of a tab.
3. **Done.** `DocumentLock` (the named lock over a connection pool) and
   `SynchronousRun` (the synchronous path over `DocumentStore`'s rows, with the
   worker's transactions and redeployments), which uses the lock only through
   `LockSpec`; proofs in `SynchronousRunProofs` (section 7).
4. **Done.** `DocumentCache` and `CachedQueries` (the two query routes that go
   through it, with history and lexical indexes); proofs in
   `CachedQueriesProofs` (section 8).
5. **Done.** `QuestionAnswering`: semaphore, rank fusion, claims; proofs in
   `QuestionAnsweringProofs` (section 9).
6. **Done.** `UploadWorkflow`, with the server as far as it answers the
   browser; proofs in `UploadWorkflowProofs` (section 10).
7. **Done.** `Supervisor`; proofs in `SupervisorProofs` (section 11).
8. Left: `AuthSession`'s tab reload and the users table (duplicate emails,
   rehash), a composition of `UploadWorkflow` with `AuthSession` (sign-out
   during an upload), the citation rows of the history, and `eval/metrics.py`
   as pure operators.

## 3. Asynchronous ingestion: the model

| Module | Code | State | Actions |
|---|---|---|---|
| `DocumentStore` | `persistence/document_ingestion.py`, queries of `persistence/document_uploads.py`, `storage/local.py` and `s3.py` | `row[d]`, `object[d]` | row transactions as functions `StartIngestion`, `MarkFailed`, `MarkQueuedForRetry`, `PersistArtifacts`; `PutObject`, `GetObject`, `DeleteObject` |
| `IngestionQueue` | Celery and RabbitMQ as configured in `celery_app.py` | `queue[<<d, retry>>]` (a bag), `dropped` (history) | `Publish`, `PublishUnconfirmed` and the queue's primitives |
| `IngestionWorker` | `tasks/ingest_document.py`, `services/document_ingestion.py` | `worker[w]` | `Deliver`, `Start`, `Compute`, `Persist`, `RecordFailure`, `PrepareRetry`, `Republish`, `Finalize`, `Ack`, `WorkerLost`, `ConnectionLost` |
| `DocumentUpload` | `services/document_upload.py`, `documents/router.py` | `upload[d]` | `Receive`, `Recover`, `CheckDuplicate`, `StorePdf`, `CreateRow`, `Discard`, `Load`, `PublishTask`, `ApiLost` |
| `IngestionPipeline` | all of these over one store and queue | `disruptions` (bound) | `Requests`, `Deliveries`, `Tasks`, `Disruptions` |
| `DocumentLifecycle` | (abstract) | status, source, chunks per document | `Submit`, `Begin`, `Requeue`, `Fail`, `Complete` |

Grain. An action is one database transaction, one object-store call or one
publication with the Python code up to the next. Between two actions the
process holds no lock (`_locked_document` locks until the transaction ends), so
every interleaving of two processes is one of actions. Parsing, model loading
and embedding are inside `Compute`: they touch nothing shared, and their
failures are retryable errors or the permanent failure of a PDF.

Errors. Every transaction may raise, and when it does it may or may not have
committed (`MayCommit`, the second disjunct of `CreateRow`); a PUT that raised
may have stored the object; a publication that raised may have reached the
broker. When the task's `self.retry` cannot publish, Celery rejects the
delivery without requeueing it; when `finalize...` raises, the task fails and
is acknowledged, as the comment at `ingest_document.py:31-32` says.

Data. A PDF is a member of `Content`; equal members stand for equal SHA-256
digests. Whether it parses is a property of the content (`Unreadable`). A
document's chunks are the content they were computed from, so that "complete"
can be said. Timestamps are left out: a duplicate among several is chosen
arbitrarily inside the class the code prefers.

`upload[d]` names the request by the `uuid4` document id it would draw, because
no two requests draw the same. `dropped`, `kept` and `disruptions` are history
or bounds: the first holds the documents whose hand-over to the broker (or
whose final state write) failed since the last confirmed publication, the
second that the best-effort delete failed.

Left out on purpose: `DocumentIngestionNotFoundError` and the state errors of
a missing row (nothing deletes a row, and only created rows are published);
the legacy status `ingested` (written by no code of the asynchronous path);
request validation, which precedes every effect; the status read
(`GET /documents/<id>`), which changes nothing. The broker keeps what it
confirmed.

## 4. The runs

| Run | Instance | Distinct states | Shows |
|---|---|---|---|
| `pipeline` | two requests, two workers, one retry, one disruption; both requests carry the same UUID with equal or other bytes; one content is unreadable; workers and documents are symmetric (no property or action names one) | about 416 thousand | `TypeOK`, `NeverAbandoned`, `ReadyIsComplete`, `OrphanOnlyAfterFault`, `ReadyIsFinal`, `FailedOnlySuperseded` |
| `upload_race` | three requests out of those of `pipeline`, one of the same bytes without a UUID and one of another user with the same UUID; one worker, no retry, no disruption (errors of single calls remain) | about 1.1 million | `OneDocumentPerRequestId`, `SourceOutlivesRow` |
| `depth` | one document, two workers, two retries, two disruptions, with fairness | about 103 thousand | `EventuallySettled`, `RefinesLifecycle` |
| `retry_repairs` | two requests with one UUID, one worker, one retry, one disruption, with fairness | about 56 thousand | `UuidRetryRepairs` |

The bounds. A race needs two actors: two requests or two deliveries, and a
duplicate delivery beside a retry needs two workers and one disruption. One
retry has both the retry and the exhausted branch; two make the counter pass
through a middle value and let a requeued delivery race a later attempt, which
is what `depth` is for. All these quantities are constants of the
specification, and the theorems hold for every value of them. The third request
and second user of `upload_race` let a winner, a loser and a stranger with the
same UUID meet; workers matter little there. Deadlock checking is off because the system comes to
rest when every request has its answer and the queue is empty.

What the runs say, hazard by hazard:

- *Publication gap.* `NeverAbandoned`: an unfinished document always has a
  message, a delivery that will be settled, or its creating request, unless a
  publication or the last state write failed. The exception is real: such a
  document stays queued, as `document_upload.py:149-151` says, until the same
  request is repeated; `UuidRetryRepairs` is the promise of that repeat.
  A row stuck in `processing` has no such repair.
- *Duplicate and late deliveries.* `ReadyIsFinal`, `FailedOnlySuperseded`,
  `RefinesLifecycle`. Note that the abstract lifecycle lets `Complete` follow
  `failed` and `queued`: an attempt that began before a failure, or before its
  own message was requeued, may still succeed.
- *UUID races.* `OneDocumentPerRequestId`, `SourceOutlivesRow`: whoever loses
  deletes only its own object. The stated exception of `SourceOutlivesRow` is
  the ambiguous commit: the compensating delete then removes the PDF of a row
  that exists, and its worker can only fail after its retries.
- *Orphans.* `OrphanOnlyAfterFault`.

Fairness. `RequestStep(d)`: a request in progress runs in a thread to its
answer. `TaskStep(w)` and `Deliver(w, _, _)`: a live worker runs its task and
the consumer takes the next message; weak fairness suffices, as both stay
enabled until taken. Nothing is assumed of clients, of disruptions, or of which
message a worker takes. Errors may happen at every step; that the chain of
attempts still ends comes from the retry budget, not from fairness.

## 5. The proofs

| Theorem | States | Module |
|---|---|---|
| `TypeCorrect` | `Spec => []TypeOK` | `IngestionSafetyProofs` |
| `ReadyStays` | `Spec => ReadyIsFinal` | `IngestionSafetyProofs` |
| `FailureStays` | `Spec => FailedOnlySuperseded` | `IngestionSafetyProofs` |
| `ReadyComplete` | `Spec => []ReadyIsComplete` | `IngestionSafetyProofs` |
| `PipelineRefinesLifecycle` | `Spec => RefinesLifecycle` | `IngestionSafetyProofs` |
| `OneDocument` | `Spec => []OneDocumentPerRequestId` | `IngestionUploadProofs` |
| `SourceKept` | `Spec => []SourceOutlivesRow` | `IngestionUploadProofs` |
| `NoOrphanWithoutFault` | `Spec => []OrphanOnlyAfterFault` | `IngestionUploadProofs` |
| `NobodyForgotten` | `Spec => []NeverAbandoned` | `IngestionUploadProofs` |

They assume only what the modules ASSUME: the sorts of the constants
(`StoreAssumption`, `SubmissionAssumption`, `AnswerAssumption`) and that the
two bounds are natural numbers. Sets may be infinite.

The argument is a chain of inductive invariants, each proved with the ones
before it:

- `Fits` = `TypeOK` with what a program counter implies of its frame: a busy
  worker has a document, one at `persist` has readable bytes, one at `fail` has
  a cause; a request past `recover` has a submission, one at `load` or `publish`
  a target. Without it no action's effect on the row can be typed.
- `Grounded`: messages, workers and targets refer to rows that exist, and a row
  or object exists only if its request got that far. Without it a delivery
  could resurrect an absent row, which the abstract lifecycle forbids.
- `Owned`: rows, objects and the bytes a worker read for `d` are all of the
  content of request `d`. This is what makes `ReadyIsComplete` inductive.
- `Keyed`: two rows of one user never share a UUID, a request that has not yet
  created its row has none, and a recovered target has the request's UUID,
  owner and content.
- `Sourced`: a request that is about to create or has created its row stored
  the object; only a request that believes it made no row deletes it.
- `OrphansExcused`: a request up to its PUT has no object, and one past its
  insert that has an object and no row failed to delete it, was lost, or does
  not know whether its PUT took effect. `OrphanOnlyAfterFault` speaks of
  finished requests only, and the object was stored several steps before the end.
- `Carriage` = `IdleEmpty`: an idle worker holds no document; and `Attended`: an active row is in
  the broker's care (a message, or a delivery that will be settled), or waiting
  (still queued, in its creating request's hands, and no worker on it), or
  dropped; a delivery that lost its message counts for nothing, its requeued
  twin carries the document.

Refinement: `status`, `source` and `chunks` are fields of the row; lemmas give
each row transaction as one abstract move or a stutter, so the step theorem is
a case per action.

Only model-checked: `EventuallySettled` and `UuidRetryRepairs` (liveness under
fairness is beyond the prover).

## 6. Authentication

| Module | Code | State | Actions |
|---|---|---|---|
| `RefreshSessions` | `backend/app/auth/refresh_sessions.py`, `RefreshSession` of `persistence/models.py` | `session[s]` (the row of raw token `s`), `now` | `AddSession`, `Rotate`, `Revoke`, `Tick` |
| `AuthSession` | `frontend/src/auth/*`, `backend/app/auth/router.py`, `cookies.py` | `jar` (the cookie), `tab[t]`, `call[t][op]` (requests in flight), `lock`; history: `undelivered`; bound: `disruptions` | tab: `Open`, `Grant`, `Login`, `Logout`, `Fetch`, `FetchEnds`, `Settle*`; server: `Serve*`; network: `Arrive`, `Lose`, `Truncate`; `AuthTick`, `CookieExpires` |

Grain. A row transaction is atomic, because it holds the row's lock from its
read to its commit; but it read its clock before it asked for the lock, so its
time is any between the sending of the request and now. A request takes the
cookie when it is sent. Its answer changes the jar when its headers arrive
(`Arrive`) and the tab's snapshot when the script runs on (`Settle*`), two steps
between which other tabs' requests and answers come. A 503 may follow a commit
or a rollback; a request or its answer may be lost, and a body may break off
after its `Set-Cookie` was applied. A tab has at most one refresh
(`refreshPromise`), one sign-in and one sign-out (disabled buttons) in flight.

Left out: the users table, access tokens (an API request may fail with 401 at
any time, which covers every expiry), the reload and closing of a tab, and
`getCurrentUser`, which no part of the app calls.

| Run | Instance | Distinct states | Shows |
|---|---|---|---|
| `auth_session` | two tabs without Web Locks, two tokens, one tick of the clock, which is a session's lifetime, two `/auth` requests and one API request per tab in flight, one disruption | about 752 thousand | `AuthTypeOK`, `OneLiveSession`, `RotationKeepsLogin`, `CookieCurrent`, `LogoutEndsLogin`, `LateAnswerKeepsSuccessor` |
| `auth_locks` | the same with Web Locks, no tick, with fairness | about 240 thousand | `TabsSerialized`, `RefreshSettles` |

The bounds. Two tabs and two requests make every overtaking of answers; two
tokens allow two logins or a login and a rotation, raced by a second rotation
that is refused; one tick is enough for everything to expire while a request is
under way. When no token is left the routes that need one answer 503
(`Exhausted`), so the instance goes on. The theorems have no such bounds.

What they say. However tabs race, a login has one live credential and none
after logout. The cookie is a rotated token only while its successor travels or
after it was lost: that loss signs the browser out at the next refresh, and
nothing else does when tabs serialize their refreshes. A late refusal cannot
erase a working cookie of the same login (the comment at `router.py:202-203`),
also when it is the expired answer that does clear the cookie, because rotation
keeps the expiry. For another login this is not so: an expired answer that
arrives after another tab signed in clears the new cookie, which is why
`LateAnswerKeepsSuccessor` names the login. With the Web Lock each refresh ends,
whether those before it in the queue succeed or fail.

Fairness. Server and network answer each request in the end: the client sets no
timeout, so a request that is never answered would block the Web Lock for all
tabs. The lock manager grants in order, and scripts run on. Nothing is assumed
of users, of time or of the 401s.

The proofs.

| Theorem | States | Module |
|---|---|---|
| `LoginHasOneLiveSession`, `LoginIsKept`, `LogoutIsFinal` | `SessionSpec` has `OneLiveSession`, `RotationKeepsLogin`, `LogoutEndsLogin` | `AuthSessionProofs` |
| `BrowserImplementsSessions`, `BrowserLogoutIsFinal` | `AuthSpec => SessionSpec`, and with it `LogoutEndsLogin` | `AuthSessionProofs` |
| `CookieNeverFallsBack`, `LateAnswerIsHarmless` | `AuthSpec` has `CookieCurrent`, `LateAnswerKeepsSuccessor` | `AuthSessionProofs` |
| `TabsAreTyped` | `AuthSpec => []AuthTypeOK` | `AuthSessionProofs` |
| `TabsDoNotDefeatEachOther` | `LocksAvailable` implies `AuthSpec => []TabsSerialized` | `AuthSessionProofs` |

They assume `SessionAssumption` (a positive lifetime, `None` is no token and no
user), the sorts of `AuthAssumption` and `AnswerAssumption`, and that raw tokens are never drawn twice, which is in the guards of
`AddSession` and `Rotate`. `SessionInv`: the sessions of a login form a chain of
which only the tip, the one without a successor, may be live; `OneLiveSession`
alone is not inductive, as a rotation of one of two tips would not be excluded
from a login that was logged out. `AuthInv` adds that a token in an answer on its
way is fresh: issued, without successor, neither in the jar nor in a request nor
in another answer. Without it an arriving answer could bring back a rotated
token. `BrowserInv` adds the tabs' types and that the tab whose refresh is under
way is the first of the lock's queue.

`TabsDoNotDefeatEachOther` is about browsers with Web Locks, and `TabsSerialized`
alone is not inductive. `LockInv` adds three things to `BrowserInv`. A
successor was issued and starts no chain (`Successors`), while the token that
the answer to a login carries does (`LoginRoots`): so a successor on its way
always comes with a refresh, whose tab still has the lock. And a refresh that has not had its answer read presents the newest token
of its chain, unless the successor was lost on its way (`NewestPresented`),
which is what the lock buys: the next tab reads the cookie only after the answer
of the one before has set it. Only `RefreshSettles` is left to TLC.

## 7. Synchronous runs and the document lock

| Module | Code | State | Actions |
|---|---|---|---|
| `DocumentLock` | `mysql_document_lock` of `persistence/db.py`, the engine's pool | `phase[s]`, `conn[s]`, `idle` (pool), `owner` and `depth` (the server's lock) | `Enter`, `Acquire`, `TimeOut`, `CommitBody`, `LeaveBody`, `FailBody`, `Unlock`, `Close`, `OtherSession`, `LockReset` |
| `SynchronousRun` | `POST /hackrx/upload-run` in `main.py`, `persistence/upload_results.py`, `document_artifacts.py` | `run[r]` (frames), `row`, `object`, `born`, `embedding`, `queries`, `cached`, `model` | `Submit`, `Lookup`, `LookInCache`, `LoadArtifacts`, `Index`, `Abort`, `AskLock`, `GetLock`, `MissLock`, `Backfill`, `PersistUploadResult`, `Release`, `LeaveLock`, `FinishPersisted`, `FinishFailed`; around it `Evict`, `OthersUsePool`, `Admit`, `WorkerTransaction`, `Redeploy` |

Grain. As in section 3, an action is one transaction or one step on the event
loop. The transaction under the lock reads a snapshot taken when it first reads
(`seen`, fixed by `GetLock`) and locks the newest row with a reading that is
current: both appear in `PersistUploadResult`, because the two may disagree.

The lock. MySQL grants the lock to a connection, again to the connection that
has it, and forgets it when the connection ends. A commit inside the body
returns the session's connection to the FIFO pool, so `RELEASE_LOCK` runs on
whichever one comes next. A connection can therefore come to rest in the pool
with the lock (`LockFreeOutside` is stated beside the invariant and is false of
the code: one session and another user of the pool suffice); what still holds
is `BodyExclusive`: only the owning connection passes `GET_LOCK`, and nobody
else releases its grant. Until the connection is closed or takes the lock
again, other sessions time out; `MissLock` covers what the code then does.

Abstractions. One user and one lock, because the lock's name and every query
carry the user and the hash. The pipeline appears through the two transactions a
worker ends with, in any order and at any time: nothing here reads whether a row
is queued or processing. Rows created within one tick of `created_at` are not
told apart from a strict order. Vectors are the configuration that made them;
the citations of an answer are written with its row and are folded into it. The
stored object of this path changes nothing that it reads. Form validation and
the closing of an upload come before any effect.

| Run | Instance | Distinct states | Shows |
|---|---|---|---|
| `synchronous_run` | two runs of one content, with the one `request_id` or none, two batches (one question, and that question with another), two rows, two connections, one model, one redeployment, perhaps a document stored earlier without vectors | about 1.39 million | `RunTypeOK`, `BodyExclusive`, `OneBatchPerRequest`, `RecoveryFaithful`, `CachedIsStored`, `ReadyStays` |
| `model_provenance` | the same with two models | stops at the violation | `VectorsOfRowModel` violated |

The bounds. Two runs and two connections are what it takes for a release on the
wrong connection and for two runs to miss the same row; two rows let a worker's
document and a run's document be different rows with the same bytes, of which
the newer counts; one batch is a prefix of the other, so a recovery that checks
only some indexes would show. `Unreadable` is empty in the runs (an unreadable
PDF ends a run before it touches anything); the theorems allow any. Deadlock
checking is off because all runs end.

What they say. A `request_id` is answered by one batch, whichever of two racing
runs stores first, and a run that lost finds the winner's rows and answers with
them only if bytes and questions agree. A commit that was reported failed but
took effect is found in the same way by the next request. Nothing takes a ready
document back, although this path makes a row ready that the pipeline is still
working on. A hit in RAM has a ready document in MySQL: this is what
`has_matrix` validation relies on, as a RAM hit brings no vectors.

The disagreement. `docs/persistence_schema.md:30` calls the row's
`embedding_model` the provenance of its vectors. A row that was admitted and not
yet worked on when the process was redeployed with another model becomes ready
with vectors of the new one and keeps naming the old (`CompleteDocument`,
`upload_results.py:134-159`); `model_provenance` shows it. A later synchronous
request repairs the row, as it finds the names different and computes the vectors again.

The proofs (`SynchronousRunProofs`).

| Theorem | States |
|---|---|
| `RunsUseTheLock` | `Spec => LockSpec` |
| `LockExcludes` | `Spec => []BodyExclusive` |
| `RunTypes` | `Spec => []RunTypeOK` |
| `OneBatch` | `Spec => []OneBatchPerRequest` |
| `RecoveryIsFaithful` | `Spec => []RecoveryFaithful` |
| `CacheFollowsStore` | `Spec => []CachedIsStored` |
| `ReadyIsKept` | `Spec => ReadyStays` |

They assume `StoreAssumption`, `LockAssumption` (a pool that keeps at least one
connection) and `RunAssumption`: finitely many document ids, at least one user,
batches that are functions with an index 1, a natural bound on redeployments.
That every batch has an index 1 is what makes the unique key on
`(user, request_id, index)` a key on the request; the form refuses an empty list.

The inductive invariant has two halves. `LockInv`: a session in the body holds
the connection that owns the lock, no connection is in two hands or in the pool
twice, and a free lock has no grants. Without the second conjunct a release by
another session could be of the same connection. `DataInv`: a row with chunks is
ready and they are its own content's (`StoreInv`); what is cached has a ready row
(`CachedInv`); a run that is past a certain point knows a ready row of its
content, and its program counter agrees with its phase in the lock (`RunsInv`);
the rows stored by a run are its whole batch on one ready document, and only a
run that has been through its transaction has any (`QueriesInv`). The last is
why a batch cannot be stored twice by one run, which `OneBatchPerRequest` alone
does not exclude. `RunsUseTheLock` reduces the lock's part to the steps of
`DocumentLock`.

## 8. Caches, query routes and history

| Module | Code | State | Actions |
|---|---|---|---|
| `DocumentCache` | `document_cache` and its functions in `main.py` | `cache`, `clock` | the operations `Touch`, `Store`, `Sweep` |
| `CachedQueries` | `POST /hackrx/run`, `POST /documents/{id}/queries`, `retrieve_hybrid_context`, `persistence/ingestion.py`, `query_history.py` | `frame[r]`, `version` and `replaced` (what a URL serves, and since when no longer), `rows`, `bm25`, `history` | `Ask`, `Load` (`LoadUrl` or `LoadDocument`), `Build`, `FindRow`, `InsertRow`, `Answer`, `AskFails`, `WriteHistory`; `Publish`, `Tick`, `HealthCheck`, `Restart` |

Grain. An action is the code of a request between two awaits. A chunk list is
the object at an address, with the content it was made from; the address is free
again when neither the cache nor a request refers to the list, while the lexical
index kept under address and length stays for ever. The URL route stamps an
entry with the time at which its request came in, the other with the time of
storing. The clock never goes back.

| Run | Instance | Distinct states | Shows |
|---|---|---|---|
| `cached_queries` | three requests about one URL with two contents of different lengths and one ready document, a cache for one entry, two addresses, a lifetime of one tick and two ticks | about 1.63 million | `QueriesTypeOK`, `BoundedStaleness`, `RankFits`, `HistoryWasAnswered` |

The bounds. Three requests are a hit, a miss and a store that comes late; a
cache for one entry makes every second store evict; with a lifetime of one and
two ticks an entry is created, valid, and expired while a request is still at
work. With two addresses one is free again while the other is in use.

What it says. The cache's bound holds under concurrent misses (it is part of
`QueriesTypeOK`, whose mutant leaves one entry too many). A request never works
with content that was replaced more than the lifetime before it came in, which
would fail if the URL route stamped its entry at the time of storing
(`StampedAtStore`), as the content was fetched before. The stale lexical index
is real: `RanksOwnChunks` is false of the code, and a question may be ranked
with the index of a list that is gone and was of the same length. What keeps
this from an index error is that the length is part of the key (`RankFits`).
History is best effort, but a 503 of the document route leaves none.

A document row of a URL keeps the chunks of the first content it was stored with
and has no vectors; two concurrent requests may store two rows. Both are in the
model and neither is claimed otherwise.

The proofs (`CachedQueriesProofs`).

| Theorem | States |
|---|---|
| `CacheStaysBounded` | `Spec => []QueriesTypeOK` |
| `StalenessIsBounded` | `Spec => []BoundedStaleness` |
| `RankAlwaysFits` | `Spec => []RankFits` |
| `HistoryFollowsAnswers` | `Spec => []HistoryWasAnswered` |
| `EvictionKeepsTheHottest` | `Spec => KeepsTheHottest` |

They assume `CacheAssumption` (finitely many keys, room for one entry, natural
lifetime and bound on the clock) and `QueryAssumption` (chunk lists are lists,
their sizes natural). The invariant says of every chunk list, wherever it is,
since when its content may have been out of date: in the cache since the
entry's stamp, in a request that loaded it since the request came in, in one
that found it since a lifetime before that. `BoundedStaleness` speaks of
requests only and says nothing of what the next hit will find. `IndexInv` adds
that every index has the length it is kept under. `KeepsTheHottest` is proved
and in no run: it needs a cache for two entries, which is too large an instance
beside the rest.

## 9. Question answering

`QuestionAnswering` models how `main.py` answers the questions of one request:
`Enter` (the semaphore), `Retrieve` (vector search, in the hybrid mode merged
with lexical search, and the cross encoder), `Generate`, `ExtractClaims`, then
for one claim after the other `RetrieveEvidence` (a retrieval of its own) and
`JudgeClaim` (the model's verdict with the chunk ids it names), and `Respond`
(`asyncio.gather`). The searches, the cross encoder and the language model may
return anything of the right form or raise. Merging, the stable sort, the
deduplication of claims and the choice of chunk ids are translated as operators.
The two modes have limits of their own: the dense one keeps `KFinal` chunks for a
question and at most `ClaimKFinal` for a claim; the hybrid one looks at neither
and keeps `HybridKFinal` for both, as `retrieve_context` passes no `k_final` on.
Prompts, verdicts and rationales are left out: nothing here depends on them. So
is the semaphore's FIFO order; only its count matters.

Two pieces of history say what the model was shown. `task[q].context` is the set
of chunks it had before it when it gave the answer, and `evidence` of a verified
claim the set retrieved for this claim. No guard looks at them.
`GroundedCitations` relates what is cited to them: an answer cites exactly its
context, a claim only its own evidence. `task[q].retrieved` is the retrieval with
which the model is about to be asked; it carries the two rankings and the scores,
so that `RetrievalKeepsBest` can compare what was kept with a definition that
does not sort: as many chunks as the limit allows or all there are, each once,
and ahead of each exactly those that score higher, or as high and were found
first, where the vector search comes before the lexical one.

| Run | Instance | Distinct states | Shows |
|---|---|---|---|
| `question_answering` | two questions, limit one, both modes, two chunks, dense searches of up to two, hybrid searches of up to one each, two scores, a list with claims equal up to case and with junk, chunk ids that repeat or are unknown, with fairness | about 479 thousand | `AnsweringTypeOK`, `GroundedCitations`, `RetrievalKeepsBest`, `BatchAnswered` |

Two questions under a limit of one make one wait for a slot that an error may
leave. Two chunks and two scores are enough for a tie in either order and for
the rankings to find one chunk, the same chunk or different ones. The cut falls
inside the list for claims in the dense mode (`ClaimKFinal` is one, two are
found) and outside it elsewhere; that it is right inside a merged list is covered
by the proof only. `MaxClaims` two is reached by the list with a doubled claim.
Fairness: each question's steps and the response; every call out of the process
has a timeout and the executor runs what it was given, so a step that is possible
is taken. Deadlock checking is off as the request ends.

The proofs (`QuestionAnsweringProofs`).

| Theorem | States |
|---|---|
| `QuestionsWithinLimit` | `Spec => []AnsweringTypeOK` |
| `CitationsAreGrounded` | `Spec => []GroundedCitations` |
| `BestChunksAreKept` | `Spec => []RetrievalKeepsBest` |

They assume `AnsweringAssumption`: finitely many questions and chunks, natural
limits of which the semaphore's is not 0, integer scores, claim and id lists
that are sequences. They hold for every ranking, score and list of claims, not
only those of the instance.

The sort, the deduplication and the choice of ids are written with places and
cardinalities and not as recursions, so that the prover can reason about them.
Lemma `Arrangement` is the one the others rest on: when an item's place is one
more than the number of items before it, a strict total order gives the places
1 to N, each once, in order. `MergedOrder` says that the merge lists everything
either search found, once, in the order in which it was found; `BestKeepsBest`
puts the two together: the kept chunks are the limit or all there are, and those
ahead of each are exactly the better ones.

The invariant `AnsweringInv` says of each question (`TaskOK`): what it is about
to put to the model is a retrieval of the request's mode for that purpose
(`RetrievedOK`), which carries the lemma to the states where the model is asked;
its sources are distinct and, from the answer on, those it was generated from
(`SourcesMatch`); the claims still to be verified and those verified are, up to
case, all different (`VerifiedOnce`); what a verified claim cites is among its
evidence (`CitesEvidence`). `GroundedCitations` looks at finished questions only
and is not inductive without these: a claim that waits could repeat one that is
done, and sources could differ from what the answer was generated from. The
semaphore's bound is an invariant of the set of questions that hold a slot
(`Held`). `BatchAnswered` is left to TLC.

## 10. The browser's upload workflow

`UploadWorkflow` models the query view of `App.jsx` with `documentWorkflow.js`:
`ui` is the view's state, `call` the request of the form that is under way,
`polls` the status requests, `server` what `POST /documents/upload` and the
worker have made of each UUID. `Work` is any of the worker's transactions on the
row as `document_ingestion.py` allows them: an attempt starts, is taken back for
a retry, fails, or becomes ready, also after a failure, since attempts overlap;
only ready is final. So a shown status may go back, from processing to queued or
from failed to ready, as `docs/architecture.md:77` and
`docs/failure_modes.md:16` say. `revision` is history: how often the worker
had changed the row when the status was read. `NothingOlderIsShown` states with
it that the page goes back only where the server did. `attempt` counts what ends
the upload attempt of a file and is only used to state `RetriesStoreOnce`. The
generation counter is the mark `stale` on the call: the code compares for
equality only. A change of the polling effect's dependencies cancels the status
request under way (`Show`). `Lose` covers a request that never arrived and an answer that never
did; both leave the pending UUID.

Left out: signing out and unmounting (every answer is then ignored), the text of
request errors, the history view and the health panel. After an answer `App.jsx`
awaits `refreshHealth` (lines 351 and 366) before the `finally` resets the busy
flag; the model resets it with the answer and so allows the user more than the
page does in between.

| Run | Instance | Distinct states | Shows |
|---|---|---|---|
| `upload_workflow` | one file, two UUIDs, two picks or resets, three transactions of the worker on a document, two status requests, with fairness | about 483 thousand | `RetriesStoreOnce`, `DocumentAnswersOwn`, `NothingOlderIsShown`, `StatusIsShown` |

Two UUIDs make a retry, a duplicate and an upload again; two picks let the file
change under a call and change back, and the same bytes picked again are what
makes a duplicate, so one file is enough. Three transactions are a start, a
requeue and another start or an end, after which the status shown may be any of
three that differ. Two status requests are the one that counts and one that was
overtaken. Deadlock checking is off: a user may stop. Fairness: the timer fires, a status request is answered or fails,
its answer is handled. Nothing is assumed of the user, the worker or the form's
request. `StatusIsShown` is therefore stated from the moment the server has
finished, as long as the user stays with the document and no request failed: a
failed one stops the polling and offers "Retry status".

The proofs (`UploadWorkflowProofs`).

| Theorem | States |
|---|---|
| `AttemptStoresOnce` | `Spec => []RetriesStoreOnce` |
| `AnswersOfTheDocumentShown` | `Spec => []DocumentAnswersOwn` |
| `NothingOlderReplacesShown` | `Spec => NothingOlderIsShown` |

They assume `WorkflowAssumption`: natural bounds, and that `None` is no
document and no record. The inductive invariant `WInv` has these parts.
`KnownShown`, `PollsOK`: a status that is shown or on its way is the server's or an earlier one, at most one
status request still counts, and it is about the document shown, with an answer
no older than what is shown. `OneUuidPerAttempt`: what an attempt has stored has
the UUID that is pending for it, also when the answer was lost; `RetriesStoreOnce` alone
does not say which UUID the next try sends. `AnswersInPlace`: no answers about a
document are on the page while an upload is under way or a duplicate awaits a
decision, so that what replaces the document never inherits them.
`ReplacedByNewer`: the answer of an upload is never the document that is shown,
and a duplicate is another document or a newer state of it, because it was read
while the shown one was failed; otherwise an answer composed earlier could set
its status back. `StatusIsShown` is left to TLC.

`DuplicateOfSelected` is stated in the module and is false of the code: a 409
that arrives after another file was picked is shown beside that file, and "Open
existing" then opens the document of the earlier one. No document says
otherwise, so it is a hazard and not a finding.

## 11. The process supervisor

`Supervisor` models `production_start.py` step by step: `StartChild` and
`AppendChild` are two steps, because a signal may come between `popen` and
`append`; `CheckSignal`, `PollChild` and `SleepAndRepeat` are the loop,
`WaitEnds` and `Reap` are `_wait_then_kill`, `StartFails` is the `except`
branch, and `HandleSignal` may run between any two of them. `late` is history:
the children a signal could not be forwarded to. Time is left out: the deadline
may pass at any moment while children run. Two signals inside one handler are
one.

| Run | Instance | Distinct states | Shows |
|---|---|---|---|
| `supervisor` | two children, exit codes success, error, death by signal and 143, SIGTERM and SIGINT, with fairness | 5,262, all there are | `KilledWasAsked`, `ExitTellsWhy`, `StopTogether` |

Two children are what the program starts, so the instance is the program, up to
the values of codes and signals. What it says: the supervisor never leaves a
child behind and never reports success. A child that was being started when the
signal came is not told and dies by SIGKILL after the grace period, which is the
stated exception of `KilledWasAsked`. When a child's exit is polled before the
recorded signal is looked at, the child's code is returned, not the signal's:
`ExitTellsWhy` allows both reasons. The status alone does not tell a SIGTERM from
a child that exits with 143, as line 107 returns any positive code; the property
relates the status to the signal that was recorded, or to the code of a child
that ended without being killed. Fairness: the supervisor is scheduled and
its deadline passes; SIGKILL ends a process. A child that ignores SIGTERM is
under no fairness.

The proofs (`SupervisorProofs`), for any number of children, codes and signals.

| Theorem | States |
|---|---|
| `NobodyKilledUnasked` | `Spec => []KilledWasAsked` |
| `ExitStatusTellsWhy` | `Spec => []ExitTellsWhy` |
| `NobodyIsLeft` | `Spec => []NobodyLeft`: when the supervisor is over no child runs, the safety part of `StopTogether` |

They assume `SupervisorAssumption`: exit codes are what `Popen.returncode` may be,
negative for a signal and up to 255; signals are 1 to 64. The inductive invariant `IInv`: only the child being
appended runs outside the list (`Listed`); once a signal was recorded, or the waiting has
begun, every child that still runs was told or came late (`AllTold`); once the
supervisor stops, each child has ended or is waited for (`Accounted`); and the
reason for the exit status outlives the killing, because the child that ended by
itself is not among those that are waited for (`Explained`). Without the last
the SIGKILL of the other child could pass for the reason. That the supervisor
does come to its end is left to TLC.

## 12. What is only model-checked, and what is not modelled

Proved for every value of the constants: the theorems of sections 5 to 11, which
state every invariant and every action property that a passing run checks. Only
model-checked: liveness under fairness (`EventuallySettled`, `UuidRetryRepairs`,
`RefreshSettles`, `BatchAnswered`, `StatusIsShown`, `StopTogether`), because the
prover has no rules for `ENABLED`.

Not modelled:

- PDF parsing, chunking and embeddings (`backend/app/rag/`): pure functions of
  the bytes. The models keep their outcome per content.
- The evaluation scripts (`eval/`): offline, one process, no shared state.
- Migrations and deployment files; the static routes of the single-page app.
- The users table and access tokens of authentication, the reload of a tab.
- The temporary file and rename inside `LocalObjectStorage.put`, and the calls of
  the S3 client: both are one step with an unknown outcome when they raise.
- The owner-scoped reads (status, document list, history), which change nothing,
  and the rows of citations, which are written with the answer they belong to.
- The caches of models and clients, which hold the same object for every request.

`PROJECT.json` lists each part with its state, and each hazard with its line,
those no property covers with the reason.
