-------------------------- MODULE SynchronousRun ---------------------------
(***************************************************************************)
(* POST /hackrx/upload-run (main.py, persistence/upload_results.py and     *)
(* persistence/document_artifacts.py): one request uploads a PDF and gets  *)
(* its questions answered.  Its document may come from RAM, from MySQL, or *)
(* from the PDF; the batch of answers is stored with the document in one   *)
(* transaction under the document's named lock, and a request that carries *)
(* a request_id used before is answered with the batch stored for it.      *)
(*                                                                         *)
(* The runs of one web process race each other, the asynchronous pipeline  *)
(* (present here through the transactions it makes on a row, in any order) *)
(* and a redeployment, which may change the embedding configuration.       *)
(*                                                                         *)
(* One user, as the lock's name and every query carry the user id; and one *)
(* lock, as all the contents checked here are one document of that user.   *)
(***************************************************************************)
EXTENDS DocumentStore, Naturals, FiniteSets, DocumentLock

CONSTANTS
    Model,            \* embedding model and input format a process runs with
    BatchId,          \* client-chosen request_id values
    Batch,            \* the question lists clients send
    MaxRedeploys      \* bound on redeployments

(***************************************************************************)
(* A batch is a sequence of questions that is not empty.                   *)
(***************************************************************************)
ASSUME RunAssumption ==
    /\ IsFiniteSet(Document)
    /\ User # {}
    /\ None \notin Model \cup BatchId
    /\ \A b \in Batch : /\ b = [i \in DOMAIN b |-> b[i]]
                        /\ 1 \in DOMAIN b /\ DOMAIN b \subseteq Nat
    /\ MaxRedeploys \in Nat

VARIABLES
    run,         \* run[r]: the frames of request r
    born,        \* born[d]: created_at of document d
    embedding,   \* embedding[d]: the row's model, and what made its vectors
    queries,     \* the rows of the queries table
    cached,      \* contents with an entry in document_cache
    model,       \* the configuration of the running process
    redeploys

runVars == <<run, born, embedding, queries, cached, model, redeploys>>
vars == <<storeVars, lockVars, runVars>>

RunPc == {"idle", "lookup", "cache", "artifacts", "backfill", "index",
          "answer", "unlock", "persisted", "failed", "done"}
Hit == {"ram", "mysql", "miss"}
Answer == [kind: {"own", "stored", "conflict", "error", "lost"}, from: Session]

IdleRun == [pc |-> "idle", content |-> None, request |-> None, batch |-> None,
            hit |-> None, document |-> None, seen |-> {}, after |-> None,
            answer |-> None]

At(r, pc) == run[r].pc = pc
Hold(r, state) == run' = [run EXCEPT ![r] = state]
Goto(r, pc) == Hold(r, [run[r] EXCEPT !.pc = pc])
Respond(r, kind, from) ==
    Hold(r, [run[r] EXCEPT !.pc = "done", !.hit = None, !.document = None,
                           !.answer = [kind |-> kind, from |-> from]])

Owner == CHOOSE u \in User : TRUE

Stored(d) == row[d].chunks # None
Matching(c) == {d \in Document : Exists(d) /\ row[d].content = c}

(***************************************************************************)
(* order_by(created_at desc).first(), whatever the document's status.      *)
(***************************************************************************)
NewestMatch(c) ==
    {d \in Matching(c) : \A e \in Matching(c) : born[e] <= born[d]}

Embedded(d) == embedding[d] = [row |-> model, vectors |-> model]

TextOnlyRow(c) == [QueuedRow(Owner, c, None) EXCEPT !.status = "ready", !.chunks = c]

(***************************************************************************)
(* The database starts empty, or with a document stored before vectors     *)
(* were persisted.                                                         *)
(***************************************************************************)
Init ==
    /\ LockInit
    /\ object = [d \in Document |-> None]
    /\ model \in Model
    /\ \E legacy \in {{}} \cup {{d} : d \in Document}, c \in Content :
         /\ row = [d \in Document |-> IF d \in legacy THEN TextOnlyRow(c) ELSE NoRow]
         /\ born = [d \in Document |-> IF d \in legacy THEN 1 ELSE 0]
         /\ embedding = [d \in Document |->
              [row |-> IF d \in legacy THEN model ELSE None, vectors |-> None]]
    /\ run = [r \in Session |-> IdleRun]
    /\ queries = {}
    /\ cached = {}
    /\ redeploys = 0

Submit(r) ==
    /\ At(r, "idle")
    /\ \E c \in Content, k \in BatchId \cup {None}, b \in Batch :
         Hold(r, [IdleRun EXCEPT
                    !.pc = IF k = None THEN "cache" ELSE "lookup",
                    !.content = c, !.request = k, !.batch = b])
    /\ UNCHANGED <<storeVars, lockVars, born, embedding, queries, cached, model, redeploys>>

RowsOf(k) == {q \in queries : q.request = k}

RecoversUnasked(r) == {q.run : q \in RowsOf(run[r].request)}

(***************************************************************************)
(* recover_upload_request: the rows of a request_id are an answer only to  *)
(* the questions and the bytes they were stored for.                       *)
(***************************************************************************)
Recoverable(r) ==
    {s \in {q.run : q \in RowsOf(run[r].request)} :
        /\ {<<q.index, q.question>> : q \in RowsOf(run[r].request)}
              = {<<i, run[r].batch[i]>> : i \in DOMAIN run[r].batch}
        /\ \E d \in Document :
             /\ \A q \in RowsOf(run[r].request) : q.document = d
             /\ row[d].content = run[r].content}

Recover(r, missing) ==
    IF RowsOf(run[r].request) = {} THEN missing
    ELSE IF Recoverable(r) = {} THEN Respond(r, "conflict", r)
    ELSE \E s \in Recoverable(r) : Respond(r, "stored", s)

Lookup(r) ==
    /\ At(r, "lookup")
    /\ Recover(r, Goto(r, "cache")) \/ Goto(r, "cache")
    /\ UNCHANGED <<storeVars, lockVars, born, embedding, queries, cached, model, redeploys>>

LookInCache(r) ==
    /\ At(r, "cache")
    /\ IF run[r].content \in cached
       THEN Hold(r, [run[r] EXCEPT !.pc = "answer", !.hit = "ram"])
       ELSE Goto(r, "artifacts")
    /\ UNCHANGED <<storeVars, lockVars, born, embedding, queries, cached, model, redeploys>>

(***************************************************************************)
(* load_document_artifacts.  A document without chunks and a failed lookup *)
(* are misses: chunks and vectors are computed from the bytes, and caching *)
(* waits until they are stored.                                            *)
(***************************************************************************)
Miss(r) ==
    IF run[r].content \in Unreadable THEN Respond(r, "error", r)
    ELSE Hold(r, [run[r] EXCEPT !.pc = "answer", !.hit = "miss"])

LoadArtifacts(r) ==
    /\ At(r, "artifacts")
    /\ \/ \E d \in NewestMatch(run[r].content) :
            /\ Stored(d)
            /\ Hold(r, [run[r] EXCEPT
                          !.pc = IF Embedded(d) THEN "index" ELSE "backfill",
                          !.hit = "mysql", !.document = d])
       \/ Miss(r)
    /\ UNCHANGED <<storeVars, lockVars, born, embedding, queries, cached, model, redeploys>>

(***************************************************************************)
(* The document cache is filled at once from MySQL, which has the rows.    *)
(***************************************************************************)
Index(r) ==
    /\ At(r, "index")
    /\ cached' = cached \cup {run[r].content}
    /\ Goto(r, "answer")
    /\ UNCHANGED <<storeVars, lockVars, born, embedding, queries, model, redeploys>>

(***************************************************************************)
(* What nothing catches: a model or a client that does not load, vectors   *)
(* that cannot be computed.                                                *)
(***************************************************************************)
Abort(r) ==
    /\ run[r].pc \in {"index", "answer"}
    /\ phase[r] = "outside"
    /\ Respond(r, "error", r)
    /\ UNCHANGED <<storeVars, lockVars, born, embedding, queries, cached, model, redeploys>>

(***************************************************************************)
(* The two users of the lock: the backfill, and, with the questions        *)
(* answered, the persistence.  The snapshot of the transaction is taken    *)
(* when it first reads, right after GET_LOCK.                              *)
(***************************************************************************)
AskLock(r) ==
    /\ run[r].pc \in {"backfill", "answer"}
    /\ Enter(r)
    /\ UNCHANGED <<storeVars, runVars>>

GetLock(r) ==
    /\ Acquire(r)
    /\ Hold(r, [run[r] EXCEPT !.seen = {d \in Document : Stored(d)}])
    /\ UNCHANGED <<storeVars, born, embedding, queries, cached, model, redeploys>>

AfterFailure(r) == IF At(r, "backfill") THEN "index" ELSE "failed"

MissLock(r) ==
    /\ TimeOut(r)
    /\ Goto(r, AfterFailure(r))
    /\ UNCHANGED <<storeVars, born, embedding, queries, cached, model, redeploys>>

Leave(r, after) ==
    Hold(r, [run[r] EXCEPT !.pc = "unlock", !.after = after, !.seen = {}])

(***************************************************************************)
(* load_or_backfill_document_embeddings: under the lock the vectors are    *)
(* read again, and computed only if they are still missing or of another   *)
(* configuration.  Any failure falls back on vectors computed in RAM.      *)
(***************************************************************************)
Backfill(r) ==
    /\ At(r, "backfill")
    /\ phase[r] = "body"
    /\ LET d == run[r].document
       IN  \/ /\ Embedded(d)
              /\ LeaveBody(r)
              /\ UNCHANGED embedding
           \/ /\ ~ Embedded(d)
              /\ embedding' = [embedding EXCEPT ![d] = [row |-> model, vectors |-> model]]
              /\ CommitBody(r) \/ FailBody(r)
           \/ FailBody(r) /\ UNCHANGED embedding
    /\ Leave(r, "index")
    /\ UNCHANGED <<storeVars, born, queries, cached, model, redeploys>>

RequestUnconstrained(r) == run[r].request \in BatchId \cup {None}

(***************************************************************************)
(* uq_queries_user_request_index: every batch has a question 1, so a       *)
(* request_id is stored once.  NULLs are never equal.                      *)
(***************************************************************************)
RequestFree(r) ==
    run[r].request # None =>
        \A q \in RowsOf(run[r].request) : q.index \notin DOMAIN run[r].batch

HasMatrix(r) == run[r].hit # "ram"

InsertDocument(r, d) ==
    /\ NewestMatch(run[r].content) = {}
    /\ HasMatrix(r)
    /\ ~ Exists(d)
    /\ row' = [row EXCEPT ![d] = TextOnlyRow(run[r].content)]
    /\ born' = [born EXCEPT ![d] = Cardinality({e \in Document : Exists(e)}) + 1]
    /\ embedding' = [embedding EXCEPT ![d] = [row |-> model, vectors |-> model]]

(***************************************************************************)
(* A row that exists keeps the model it was created with, whoever computes *)
(* its first vectors; it becomes ready whatever the pipeline is doing.     *)
(***************************************************************************)
CompleteDocument(r, d) ==
    /\ d \in NewestMatch(run[r].content)
    /\ IF d \in run[r].seen
       THEN UNCHANGED embedding
       ELSE /\ HasMatrix(r)
            /\ ~ Stored(d)
            /\ embedding' = [embedding EXCEPT ![d].vectors = model]
    /\ row' = [row EXCEPT ![d].status = "ready", ![d].error = None,
                          ![d].chunks = run[r].content]
    /\ UNCHANGED born

StoreBatch(r, d) ==
    queries' = queries \cup
        {[request |-> run[r].request, index |-> i, question |-> run[r].batch[i],
          run |-> r, document |-> d] : i \in DOMAIN run[r].batch}

ArtifactsInvalid(r) ==
    /\ ~ HasMatrix(r)
    /\ NewestMatch(run[r].content) \subseteq Document \ run[r].seen

(***************************************************************************)
(* persist_upload_result_atomic, from the locking read of the newest row   *)
(* to the end of the transaction: committed, committed without the client  *)
(* learning of it, refused by validation, or rolled back.                  *)
(***************************************************************************)
PersistUploadResult(r) ==
    /\ At(r, "answer")
    /\ phase[r] = "body"
    /\ \/ \E d \in Document :
            /\ RequestFree(r)
            /\ InsertDocument(r, d) \/ CompleteDocument(r, d)
            /\ StoreBatch(r, d)
            /\ \/ CommitBody(r) /\ Leave(r, "persisted")
               \/ FailBody(r) /\ Leave(r, "failed")
       \/ /\ ArtifactsInvalid(r)
          /\ LeaveBody(r)
          /\ Leave(r, "failed")
          /\ UNCHANGED <<row, born, embedding, queries>>
       \/ /\ FailBody(r)
          /\ Leave(r, "failed")
          /\ UNCHANGED <<row, born, embedding, queries>>
    /\ UNCHANGED <<object, cached, model, redeploys>>

Release(r) ==
    /\ Unlock(r)
    /\ UNCHANGED <<storeVars, runVars>>

LeaveLock(r) ==
    /\ Close(r)
    /\ Hold(r, [run[r] EXCEPT !.pc = run[r].after, !.after = None])
    /\ UNCHANGED <<storeVars, born, embedding, queries, cached, model, redeploys>>

FinishPersisted(r) ==
    /\ At(r, "persisted")
    /\ cached' = IF run[r].hit = "miss" THEN cached \cup {run[r].content} ELSE cached
    /\ Respond(r, "own", r)
    /\ UNCHANGED <<storeVars, lockVars, born, embedding, queries, model, redeploys>>

CachedAnyway(r) == cached \cup {run[r].content}

CachedAfterFailure(r) ==
    IF Recoverable(r) # {} THEN cached \cup {run[r].content} ELSE cached

(***************************************************************************)
(* The race lost to a request with the same id: its answers, once stored,  *)
(* are everyone's.  Otherwise the caller gets answers nothing remembers.   *)
(***************************************************************************)
FinishFailed(r) ==
    /\ At(r, "failed")
    /\ \/ /\ run[r].request # None
          /\ Recover(r, Respond(r, "own", r))
          /\ cached' = CachedAfterFailure(r)
       \/ Respond(r, "own", r) /\ UNCHANGED cached
    /\ UNCHANGED <<storeVars, lockVars, born, embedding, queries, model, redeploys>>

(***************************************************************************)
(* The surroundings: cache eviction, the rest of the process using the     *)
(* pool, admission of the same bytes by POST /documents/upload, and the    *)
(* worker's terminal transactions on a row (nothing here reads whether the *)
(* row is queued or processing).                                           *)
(***************************************************************************)
Evict ==
    /\ \E c \in cached : cached' = cached \ {c}
    /\ UNCHANGED <<storeVars, lockVars, run, born, embedding, queries, model, redeploys>>

OthersUsePool ==
    /\ OtherSession
    /\ UNCHANGED <<storeVars, runVars>>

Admit ==
    /\ \E d \in Document, c \in Content :
         /\ ~ Exists(d)
         /\ object' = [object EXCEPT ![d] = c]
         /\ row' = [row EXCEPT ![d] = QueuedRow(Owner, c, None)]
         /\ born' = [born EXCEPT ![d] = Cardinality({e \in Document : Exists(e)}) + 1]
         /\ embedding' = [embedding EXCEPT ![d].row = model]
    /\ UNCHANGED <<lockVars, run, queries, cached, model, redeploys>>

WorkerTransaction ==
    /\ \E d \in Document :
         /\ object[d] # None
         /\ \/ /\ row' = [row EXCEPT ![d] = MarkFailed(@, "exhausted")]
               /\ UNCHANGED embedding
            \/ /\ row' = [row EXCEPT ![d] = PersistArtifacts(@, object[d])]
               /\ embedding' = IF row[d].status = "ready" THEN embedding
                               ELSE [embedding EXCEPT ![d] = [row |-> model, vectors |-> model]]
    /\ UNCHANGED <<object, lockVars, run, born, queries, cached, model, redeploys>>

(***************************************************************************)
(* The process ends and another starts: requests in flight get no answer,  *)
(* RAM is empty, and the server frees what its connections held.           *)
(***************************************************************************)
Redeploy ==
    /\ redeploys < MaxRedeploys
    /\ redeploys' = redeploys + 1
    /\ model' \in Model
    /\ cached' = {}
    /\ run' = [r \in Session |->
                 IF run[r].pc \in {"idle", "done"} THEN run[r]
                 ELSE [run[r] EXCEPT !.pc = "done", !.seen = {}, !.after = None,
                                     !.hit = None, !.document = None,
                                     !.answer = [kind |-> "lost", from |-> r]]]
    /\ LockReset
    /\ UNCHANGED <<storeVars, born, embedding, queries>>

RunStep(r) ==
    \/ Lookup(r) \/ LookInCache(r) \/ LoadArtifacts(r) \/ Index(r) \/ Abort(r)
    \/ AskLock(r) \/ GetLock(r) \/ MissLock(r)
    \/ Backfill(r) \/ PersistUploadResult(r) \/ Release(r) \/ LeaveLock(r)
    \/ FinishPersisted(r) \/ FinishFailed(r)

Next ==
    \/ \E r \in Session : Submit(r) \/ RunStep(r)
    \/ Evict \/ OthersUsePool \/ Admit \/ WorkerTransaction \/ Redeploy

Spec == Init /\ [][Next]_vars

-----------------------------------------------------------------------------
RunState == [pc: RunPc, content: Content \cup {None}, request: BatchId \cup {None},
             batch: Batch \cup {None}, hit: Hit \cup {None},
             document: Document \cup {None}, seen: SUBSET Document,
             after: RunPc \cup {None}, answer: Answer \cup {None}]

QueryRow == [request: BatchId \cup {None}, index: Nat, question: UNION {{b[i] : i \in DOMAIN b} : b \in Batch},
             run: Session, document: Document]

(***************************************************************************)
(* The types of the run's variables.                                       *)
(***************************************************************************)
RunTypeOK ==
    /\ LockTypeOK
    /\ row \in [Document -> Row]
    /\ run \in [Session -> RunState]
    /\ born \in [Document -> Nat]
    /\ embedding \in [Document -> [row: Model \cup {None}, vectors: Model \cup {None}]]
    /\ queries \subseteq QueryRow
    /\ cached \subseteq Content
    /\ model \in Model
    /\ redeploys \in 0..MaxRedeploys

(***************************************************************************)
(* However runs, retries and redeployments interleave, the rows stored for *)
(* one request_id are the whole batch of exactly one run, all on one ready *)
(* document with the chunks of the bytes that run was sent.                *)
(***************************************************************************)
OneBatchPerRequest ==
    \A q \in queries :
        /\ row[q.document].status = "ready"
        /\ row[q.document].chunks = run[q.run].content
        /\ {<<p.index, p.question, p.document>> : p \in {p \in queries : p.run = q.run}}
              = {<<i, run[q.run].batch[i], q.document>> : i \in DOMAIN run[q.run].batch}
        /\ q.request # None => \A p \in RowsOf(q.request) : p.run = q.run

(***************************************************************************)
(* A recovered answer was stored by a run that was sent the same bytes and *)
(* the same questions in the same order, under the same request_id.        *)
(***************************************************************************)
RecoveryFaithful ==
    \A r \in Session :
        run[r].answer # None /\ run[r].answer.kind = "stored" =>
            LET s == run[r].answer.from
            IN  /\ run[s].content = run[r].content
                /\ run[s].batch = run[r].batch
                /\ run[s].request = run[r].request
                /\ \E q \in queries : q.run = s

(***************************************************************************)
(* A content is in the document cache only when a document with its chunks *)
(* is stored: a hit in RAM brings no vectors and could store no document.  *)
(***************************************************************************)
CachedIsStored ==
    \A c \in cached : \E d \in Matching(c) : row[d].status = "ready" /\ Stored(d)

(***************************************************************************)
(* Whichever path made a document ready, nothing takes it or its chunks    *)
(* back: not the worker that was still processing it, nor its failure, nor *)
(* another run.                                                            *)
(***************************************************************************)
ReadyStays ==
    [][\A d \in Document :
          row[d].status = "ready" =>
              row'[d].status = "ready" /\ row'[d].chunks = row[d].chunks]_vars

(***************************************************************************)
(* docs/persistence_schema.md names the row's embedding_model as the       *)
(* provenance of its vectors.                                              *)
(***************************************************************************)
VectorsOfRowModel ==
    \A d \in Document :
        embedding[d].vectors # None => embedding[d].vectors = embedding[d].row
=============================================================================
