------------------------- MODULE IngestionPipeline -------------------------
(***************************************************************************)
(* Asynchronous ingestion as a whole: upload requests and worker processes *)
(* over one database, one object store and one queue, with API processes,  *)
(* workers and broker connections that may be lost.                        *)
(***************************************************************************)
EXTENDS DocumentUpload, IngestionWorker

CONSTANT MaxDisruptions    \* bound on lost processes and connections

ASSUME DisruptionAssumption == MaxDisruptions \in Nat

VARIABLE disruptions

vars == <<storeVars, queueVars, upload, worker, disruptions>>

Init ==
    /\ StoreInit /\ QueueInit /\ UploadInit /\ WorkerInit
    /\ disruptions = 0

Requests ==
    /\ \E d \in Document :
         \/ \E s \in Submission : Receive(d, s)
         \/ RequestStep(d)
    /\ UNCHANGED <<worker, disruptions>>

Deliveries ==
    /\ \E w \in Worker, d \in Document, r \in Attempt : Deliver(w, d, r)
    /\ UNCHANGED <<upload, disruptions>>

Tasks ==
    /\ \E w \in Worker : TaskStep(w)
    /\ UNCHANGED <<upload, disruptions>>

Disruptions ==
    /\ disruptions < MaxDisruptions
    /\ disruptions' = disruptions + 1
    /\ \/ (\E d \in Document : ApiLost(d)) /\ UNCHANGED worker
       \/ (\E w \in Worker : WorkerLost(w) \/ ConnectionLost(w)) /\ UNCHANGED upload

Next == Requests \/ Deliveries \/ Tasks \/ Disruptions

Spec == Init /\ [][Next]_vars

(***************************************************************************)
(* A request in progress runs to an answer and a worker keeps taking and   *)
(* running deliveries; clients and disruptions promise nothing.            *)
(***************************************************************************)
Fairness ==
    /\ \A d \in Document :
         WF_vars(RequestStep(d) /\ UNCHANGED <<worker, disruptions>>)
    /\ \A w \in Worker :
         /\ WF_vars(TaskStep(w) /\ UNCHANGED <<upload, disruptions>>)
         /\ WF_vars(/\ \E d \in Document, r \in Attempt : Deliver(w, d, r)
                    /\ UNCHANGED <<upload, disruptions>>)

FairSpec == Spec /\ Fairness
-----------------------------------------------------------------------------
TypeOK ==
    /\ row \in [Document -> Row]
    /\ object \in [Document -> Content \cup {None}]
    /\ queue \in [Document \X Attempt -> Nat]
    /\ dropped \subseteq Document
    /\ upload \in [Document -> UploadState]
    /\ worker \in [Worker -> WorkerState]
    /\ disruptions \in Nat

(***************************************************************************)
(* Who will still act on a document: a message, a worker that must settle  *)
(* one with the broker and has not decided how, or the request that        *)
(* created it and is about to publish it.                                  *)
(***************************************************************************)
TaskCarries(d) ==
    \E w \in Worker : worker[w].doc = d /\ worker[w].held /\ ~ At(w, "ack")

RequestCarries(d) == Target(d) = d /\ (In(d, "load") \/ In(d, "publish"))

Carried(d) == Queued(d) \/ TaskCarries(d) \/ RequestCarries(d)

(***************************************************************************)
(* NeverAbandoned: however uploads, deliveries, duplicate deliveries,      *)
(* retries and losses interleave, an unfinished document has someone who   *)
(* will still act on it, unless a hand-over to the broker (or the final    *)
(* state write) failed: acks are late, a retry is published before its     *)
(* delivery is settled, and only a finished row ends a chain of retries.   *)
(* A repeated upload that fails to publish again takes nothing away.       *)
(***************************************************************************)
NeverAbandoned == \A d \in Document : Active(d) => Carried(d) \/ d \in dropped

(***************************************************************************)
(* ReadyIsComplete: a ready document has the chunks of its own PDF and no  *)
(* error, and no other status shows chunks; queries read chunks of ready   *)
(* documents only.                                                         *)
(***************************************************************************)
ReadyIsComplete ==
    \A d \in Document :
        IF row[d].status = "ready"
        THEN row[d].chunks = row[d].content /\ row[d].error = None
        ELSE row[d].chunks = None

(***************************************************************************)
(* OneDocumentPerRequestId: the document of a user's accepted uploads with *)
(* one upload_request_id, queued already or not, is one document of one    *)
(* content.  Refusals (409) are left out: they accept no upload.           *)
(***************************************************************************)
Named(u) == In(u, "done") /\ upload[u].answer \in {"accepted", "unavailable"}
            /\ Target(u) # None

OneDocumentPerRequestId ==
    \A u, v \in Document :
        /\ Named(u) /\ Named(v)
        /\ Form(u).requestId # None
        /\ Form(u).requestId = Form(v).requestId /\ Form(u).user = Form(v).user
        => Target(u) = Target(v) /\ Form(u).content = Form(v).content

(***************************************************************************)
(* SourceOutlivesRow: a committed row keeps its PDF, whatever the losers   *)
(* of a UUID race delete; the one exception is a request whose own commit  *)
(* was reported failed and took effect.                                    *)
(***************************************************************************)
SourceOutlivesRow ==
    \A d \in Document :
        Exists(d) /\ object[d] = None =>
            In(d, "done") /\ upload[d].after = "unavailable" /\ Target(d) = None

(***************************************************************************)
(* OrphanOnlyAfterFault: when a request is over, a PDF it stored without a *)
(* row is due to a failed best-effort delete, a lost process or a PUT that *)
(* raised; losing a UUID race or a failed commit alone leaves none.        *)
(***************************************************************************)
OrphanOnlyAfterFault ==
    \A d \in Document :
        object[d] # None /\ ~ Exists(d) /\ In(d, "done") =>
            \/ upload[d].kept
            \/ upload[d].answer = "lost"
            \/ upload[d].answer = "unavailable" /\ upload[d].after = None

(***************************************************************************)
(* ReadyIsFinal: once ready, always ready with the same chunks: late       *)
(* failures, retries and duplicate deliveries change nothing.              *)
(***************************************************************************)
ReadyIsFinal ==
    [][\A d \in Document : row[d].status = "ready" => row'[d] = row[d]]_vars

(***************************************************************************)
(* FailedOnlySuperseded: failed never goes back to queued or processing;   *)
(* only an attempt that started earlier may still complete it.             *)
(***************************************************************************)
FailedOnlySuperseded ==
    [][\A d \in Document :
         row[d].status = "failed" => row'[d].status \in Terminal]_vars

(***************************************************************************)
(* UuidRetryRepairs: a request that recovers a queued document nobody will *)
(* act on publishes it anew, unless it answers that it could not (or its   *)
(* process is lost); this is the only repair of a publication gap.         *)
(***************************************************************************)
UuidRetryRepairs ==
    \A u, d \in Document :
        In(u, "load") /\ Target(u) = d /\ row[d].status = "queued" ~>
            \/ d \notin dropped
            \/ upload[u].answer \in {"unavailable", "lost"}
            \/ row[d].status # "queued"

(***************************************************************************)
(* EventuallySettled: every unfinished document is eventually ready or     *)
(* failed, unless a delivery of it was dropped.                            *)
(***************************************************************************)
EventuallySettled ==
    \A d \in Document :
        Active(d) ~> (row[d].status \in Terminal \/ d \in dropped)

(***************************************************************************)
(* RefinesLifecycle: seen row by row, the pipeline is the abstract         *)
(* lifecycle: each transaction of each actor is one of its moves or none.  *)
(***************************************************************************)
Lifecycle == INSTANCE DocumentLifecycle WITH
    status <- [d \in Document |-> row[d].status],
    source <- [d \in Document |-> row[d].content],
    chunks <- [d \in Document |-> row[d].chunks]

RefinesLifecycle == Lifecycle!LifecycleSpec
=============================================================================
