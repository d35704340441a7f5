--------------------------- MODULE IngestionQueue ---------------------------
(***************************************************************************)
(* The Celery/RabbitMQ queue of ingestion tasks.  A message carries one    *)
(* document id and Celery's retry counter; the queue is a bag of them, as  *)
(* retries wait out different countdowns and deliveries may reorder.       *)
(***************************************************************************)
EXTENDS DocumentStore, Naturals

CONSTANT MaxRetries    \* DOCUMENT_INGESTION_MAX_RETRIES

ASSUME RetriesAssumption == MaxRetries \in Nat

VARIABLES
    queue,     \* queue[<<d, r>>]: messages for d at retry r awaiting delivery
    dropped    \* history: documents whose hand-over to the broker, or whose last
               \* state write, failed since their last confirmed publication;
               \* no program state

queueVars == <<queue, dropped>>

Attempt == 0..MaxRetries

QueueInit ==
    /\ queue = [m \in Document \X Attempt |-> 0]
    /\ dropped = {}

Enqueue(d, r) == queue' = [queue EXCEPT ![<<d, r>>] = @ + 1]
Dequeue(d, r) == queue' = [queue EXCEPT ![<<d, r>>] = @ - 1]

(***************************************************************************)
(* A confirmed publication is a fresh carrier for the document.            *)
(***************************************************************************)
Publish(d, r) ==
    /\ Enqueue(d, r)
    /\ dropped' = dropped \ {d}

(***************************************************************************)
(* The publisher saw an error: the broker may still have the message.      *)
(***************************************************************************)
PublishUnconfirmed(d, r) == Enqueue(d, r) \/ UNCHANGED queue

Drop(d) == dropped' = dropped \cup {d}

Queued(d) == \E r \in Attempt : queue[<<d, r>>] > 0
=============================================================================
