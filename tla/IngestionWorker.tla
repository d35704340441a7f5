-------------------------- MODULE IngestionWorker --------------------------
(***************************************************************************)
(* The Celery worker processes that run `documents.ingest`.                *)
(*                                                                         *)
(* A delivery runs ingest_document_task, which calls the ingestion service *)
(* and turns its RetryableDocumentIngestionError into a retry or, with the *)
(* budget spent, into a terminal failure.  Every database transaction,     *)
(* object read and publication is a step of its own; between two steps the *)
(* worker holds no lock, so deliveries of one document interleave freely.  *)
(*                                                                         *)
(* Acknowledgement is late: the broker keeps the message until the task    *)
(* returns or fails (`held`), and hands it out again if the process or its *)
(* connection is lost.  A lost connection does not stop the task.          *)
(***************************************************************************)
EXTENDS IngestionQueue

CONSTANT Worker    \* worker processes, one task at a time (prefetch 1)

VARIABLE worker    \* worker[w]: what w's Python frames hold

WorkerPc == {"idle", "start", "compute", "persist", "fail", "retry",
             "republish", "ack"}

(***************************************************************************)
(* `bytes` is what the storage GET returned, `cause` the permanent failure *)
(* about to be recorded, `retries` Celery's request.retries.               *)
(***************************************************************************)
WorkerState == [pc: WorkerPc, doc: Document \cup {None}, retries: Attempt,
                held: BOOLEAN, bytes: Content \cup {None},
                cause: FailureCause \cup {None}]

IdleWorker == [pc |-> "idle", doc |-> None, retries |-> 0, held |-> FALSE,
               bytes |-> None, cause |-> None]

WorkerInit == worker = [w \in Worker |-> IdleWorker]

At(w, pc) == worker[w].pc = pc
Hold(w, state) == worker' = [worker EXCEPT ![w] = state]
Goto(w, pc) == Hold(w, [worker[w] EXCEPT !.pc = pc])
Settle(w) ==
    Hold(w, [worker[w] EXCEPT !.pc = "ack", !.bytes = None, !.cause = None])

(***************************************************************************)
(* RetryableDocumentIngestionError reaches the task: the service's frame,  *)
(* with its bytes, is gone.                                                *)
(***************************************************************************)
Raise(w) ==
    Hold(w, [worker[w] EXCEPT !.pc = "retry", !.bytes = None, !.cause = None])

RowOf(w) == row[worker[w].doc]
SetRow(w, r) == row' = [row EXCEPT ![worker[w].doc] = r]

(***************************************************************************)
(* A transaction that raises: rolled back, or committed without the client *)
(* learning of it.                                                         *)
(***************************************************************************)
MayCommit(w, r) == SetRow(w, r) \/ UNCHANGED row

Deliver(w, d, r) ==
    /\ At(w, "idle")
    /\ queue[<<d, r>>] > 0
    /\ Dequeue(d, r)
    /\ Hold(w, [IdleWorker EXCEPT !.pc = "start", !.doc = d, !.retries = r,
                                  !.held = TRUE])
    /\ UNCHANGED <<storeVars, dropped>>

(***************************************************************************)
(* start_document_ingestion; a terminal row ends the task at once.         *)
(***************************************************************************)
Start(w) ==
    /\ At(w, "start")
    /\ \/ /\ SetRow(w, StartIngestion(RowOf(w)))
          /\ IF RowOf(w).status \in Terminal THEN Settle(w) ELSE Goto(w, "compute")
       \/ /\ MayCommit(w, StartIngestion(RowOf(w)))
          /\ Raise(w)
    /\ UNCHANGED <<object, queueVars>>

(***************************************************************************)
(* From storage.get to the embedding matrix: one step, as only the GET     *)
(* touches shared state.  A missing object and an unreachable store are    *)
(* the same retryable error, as are parser, model and embedding faults; an *)
(* object damaged in the store shows as a size mismatch.                   *)
(***************************************************************************)
Compute(w) ==
    /\ At(w, "compute")
    /\ LET bytes == GetObject(worker[w].doc)
       IN  \/ /\ bytes \in Content \ Unreadable
              /\ Hold(w, [worker[w] EXCEPT !.pc = "persist", !.bytes = bytes])
           \/ /\ bytes \in Unreadable
              /\ Hold(w, [worker[w] EXCEPT !.pc = "fail", !.cause = "content"])
           \/ /\ bytes \in Content
              /\ Hold(w, [worker[w] EXCEPT !.pc = "fail", !.cause = "size"])
           \/ Raise(w)
    /\ UNCHANGED <<storeVars, queueVars>>

Persist(w) ==
    /\ At(w, "persist")
    /\ \/ /\ SetRow(w, PersistArtifacts(RowOf(w), worker[w].bytes))
          /\ Settle(w)
       \/ /\ MayCommit(w, PersistArtifacts(RowOf(w), worker[w].bytes))
          /\ Raise(w)
    /\ UNCHANGED <<object, queueVars>>

(***************************************************************************)
(* _record_permanent_failure: a failed write is itself retryable.          *)
(***************************************************************************)
RecordFailure(w) ==
    /\ At(w, "fail")
    /\ \/ /\ SetRow(w, MarkFailed(RowOf(w), worker[w].cause))
          /\ Settle(w)
       \/ /\ MayCommit(w, MarkFailed(RowOf(w), worker[w].cause))
          /\ Raise(w)
    /\ UNCHANGED <<object, queueVars>>

CancelsUnlessProcessing(status) == status # "processing"

(***************************************************************************)
(* Only a terminal row, read under the retry-state lock, stops a retry.    *)
(***************************************************************************)
CancelsRetry(status) == status \in Terminal

(***************************************************************************)
(* prepare_document_ingestion_retry, when its write returns.               *)
(***************************************************************************)
QueueForRetry(w) == SetRow(w, MarkQueuedForRetry(RowOf(w)))

(***************************************************************************)
(* The task's except branch with retries left: processing goes back to     *)
(* queued for the countdown, a terminal row cancels the retry, and a       *)
(* failed state write does not.                                            *)
(***************************************************************************)
PrepareRetry(w) ==
    /\ At(w, "retry")
    /\ worker[w].retries < MaxRetries
    /\ \/ /\ QueueForRetry(w)
          /\ IF CancelsRetry(MarkQueuedForRetry(RowOf(w)).status) THEN Settle(w)
             ELSE Goto(w, "republish")
       \/ /\ MayCommit(w, MarkQueuedForRetry(RowOf(w)))
          /\ Goto(w, "republish")
    /\ UNCHANGED <<object, queueVars>>

(***************************************************************************)
(* self.retry publishes a new message and then ends the task.  When that   *)
(* publication raises, Celery rejects the delivery without requeueing it.  *)
(***************************************************************************)
Republish(w) ==
    /\ At(w, "republish")
    /\ LET d == worker[w].doc
           r == worker[w].retries + 1
       IN  Publish(d, r) \/ (PublishUnconfirmed(d, r) /\ Drop(d))
    /\ Settle(w)
    /\ UNCHANGED storeVars

ExhaustSilently(r) == r

ExhaustRetries(r) == MarkFailed(r, "exhausted")

(***************************************************************************)
(* finalize_document_ingestion_retry_exhaustion.  If it raises, the task   *)
(* fails visibly and is acknowledged all the same.                         *)
(***************************************************************************)
Finalize(w) ==
    /\ At(w, "retry")
    /\ worker[w].retries = MaxRetries
    /\ \/ /\ SetRow(w, ExhaustRetries(RowOf(w)))
          /\ UNCHANGED dropped
       \/ /\ MayCommit(w, ExhaustRetries(RowOf(w)))
          /\ Drop(worker[w].doc)
    /\ Settle(w)
    /\ UNCHANGED <<object, queue>>

Ack(w) ==
    /\ At(w, "ack")
    /\ Hold(w, IdleWorker)
    /\ UNCHANGED <<storeVars, queueVars>>

(***************************************************************************)
(* reject_on_worker_lost: an unacknowledged message is queued again with   *)
(* the same retry counter.  Without the message the work is just gone.     *)
(***************************************************************************)
WorkerLost(w) ==
    /\ ~ At(w, "idle")
    /\ IF worker[w].held
       THEN Enqueue(worker[w].doc, worker[w].retries)
       ELSE UNCHANGED queue
    /\ Hold(w, IdleWorker)
    /\ UNCHANGED <<storeVars, dropped>>

(***************************************************************************)
(* The broker loses the consumer's channel and requeues the message while  *)
(* the task runs on; its later acknowledgement has no effect.              *)
(***************************************************************************)
ConnectionLost(w) ==
    /\ ~ At(w, "idle")
    /\ worker[w].held
    /\ Enqueue(worker[w].doc, worker[w].retries)
    /\ Hold(w, [worker[w] EXCEPT !.held = FALSE])
    /\ UNCHANGED <<storeVars, dropped>>

TaskStep(w) ==
    \/ Start(w) \/ Compute(w) \/ Persist(w) \/ RecordFailure(w)
    \/ PrepareRetry(w) \/ Republish(w) \/ Finalize(w) \/ Ack(w)
=============================================================================
